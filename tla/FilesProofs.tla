----------------------------- MODULE FilesProofs -----------------------------
(***************************************************************************)
(* What TLAPS proves of ChallengeFiles, for any set of challenges, any     *)
(* number of runs and processes, and any number of kills and bb commands.  *)
(***************************************************************************)
EXTENDS ChallengeFiles, TLAPS

-----------------------------------------------------------------------------
(* Types.                                                                  *)

Places == Ops \cup {"idle", "decrypted", "ready", "setup", "solving",
                    "grading", "catchTeardown"}

DiskTypes ==
  /\ disk = [p \in Present |-> disk[p]]
  /\ Present \subseteq Paths
  /\ \A p \in Present : disk[p] = Whole \/ disk[p] \in 0..Layers(p)

WorkTypes ==
  /\ pc \in Places
  /\ current \in Challenges
  /\ queue \subseteq Challenges
  /\ dirs \subseteq Challenges
  /\ todo \subseteq Present
  /\ up \subseteq HasSetup
  /\ refused \subseteq HasSetup
  /\ torn \subseteq Files
  /\ crashes \in Nat
  /\ commands \in Nat

(* What the operation in hand may open and rewrite.                        *)
OwnOps == {"decrypt", "encrypt", "restore", "restoreAgain", "catchOwn"}
OtherOps == {"encryptOthers", "restoreOthers", "catchOthers"}

(* What decrypt-challenge! leaves as it finds it.                          *)
Loose == {"readme", "rest"}

Scope ==
  /\ pc \notin Ops => dirs = {} /\ todo = {}
  /\ pc \in OwnOps => dirs = {} \/ todo = {}
  /\ pc \in OwnOps => dirs \subseteq {current} /\ \A p \in todo : Challenge(p) = current
  /\ pc \in OtherOps => \A p \in todo : Challenge(p) # current
  /\ pc \in OtherOps => current \notin dirs
  /\ pc \notin OtherOps => \A p \in todo : Kind(p) \notin Loose
  /\ pc \in {"encrypt", "cliEncrypt"} => \A p \in todo : Kind(p) \in Protected
  /\ pc = "encryptOthers" => \A p \in todo : Layers(p) = 0
  /\ pc \in DecryptOps => \A p \in todo : Layers(p) > 0

FilesTypes == DiskTypes /\ WorkTypes /\ Scope

-----------------------------------------------------------------------------
(* What is hidden, whoever did what before.                                *)

Plain == {p \in Present : Layers(p) = 0}
Enc   == {p \in Present : Layers(p) > 0}

OwnPlain == {p \in Plain : Challenge(p) = current /\ Kind(p) \in Protected}
OwnEnc   == {p \in Enc : Challenge(p) = current /\ Kind(p) \notin Loose}

(* Of S, the paths in the other challenges whose directory was opened.     *)
Opened(S) == {p \in S : Challenge(p) \notin dirs \cup {current}}

Hiding ==
  /\ \A c \in Challenges : ChallengeDir(c)
  /\ pc = "encrypt" /\ dirs = {} => OwnPlain \subseteq todo
  /\ pc \in {"encryptOthers", "solving"} => OwnPlain = {}
  /\ pc = "encryptOthers" => Opened(Plain) \subseteq todo
  /\ pc = "solving" => \A p \in Plain : Challenge(p) = current

-----------------------------------------------------------------------------
(* What a kill leaves, as long as nobody encrypts by hand: every file in   *)
(* one layer of .enc or none, and a .enc file that was cut short beside    *)
(* the file it was made of.                                                *)

Copy(f, n) == <<f[1], f[2], n>>

Copies ==
  /\ \A p \in Present : Layers(p) <= 1
  /\ \A f \in Files : Copy(f, 0) \in Present \/ Copy(f, 1) \in Present
  /\ \A p \in Enc : ~Decrypts(p) => Inner(p) \in Present
  /\ \A p \in Present : <<Challenge(p), Kind(p)>> \notin torn =>
       disk[p] = Whole \/ (p \in Enc /\ ~Decrypts(p))

(* No file is unreadable but those of the challenge that is run which its  *)
(* own decryption leaves alone.                                            *)
Readable ==
  \A p \in Enc : (Challenge(p) = current /\ Kind(p) \in Loose) \/ Decrypts(p)

Rewriting == {"setup", "encrypt", "encryptOthers", "solving"}
Restoring == {"solving", "restore", "restoreAgain", "restoreOthers", "grading"}

Progress ==
  /\ pc \notin {"cliEncrypt", "cliDecrypt", "decrypted"}
  /\ HasReadme(current)
  /\ pc \in {"decrypt", "restore", "catchOwn"} /\ dirs = {} => OwnEnc \subseteq todo
  /\ pc = "setup" \/ (pc = "encrypt" /\ dirs # {}) => OwnEnc = {}
  /\ pc = "encrypt" => \A p \in todo : Layers(p) = 0
  /\ pc \in Rewriting => \A p \in OwnEnc : Kind(p) # "source" /\ Decrypts(p)
  /\ pc \in {"restoreAgain", "restoreOthers", "grading"} => OwnEnc = {}
  /\ pc \in {"restoreOthers", "catchOthers"} => Opened(Enc) \subseteq todo
  /\ pc = "grading" => \A p \in Enc : Challenge(p) = current
  /\ pc \in Restoring => Readable
  /\ pc \in {"ready", "decrypt", "setup", "encrypt", "catchTeardown"} =>
       \A c \in queue : HasReadme(c)
  /\ pc \in {"catchOwn", "catchOthers"} =>
       Readable \/ \A c \in queue : HasReadme(c)

Recovery == commands = 0 => Copies /\ Progress

-----------------------------------------------------------------------------
(* Without a kill, every file is whole, nothing but the protected files of *)
(* the challenge that is run was encrypted in it, and a setup that is left *)
(* is one whose teardown.sh failed.                                        *)

IntactNow ==
  /\ \A p \in Present : disk[p] = Whole
  /\ \A p \in Enc : Challenge(p) = current => Kind(p) \in Protected
  /\ up \subseteq {current} \cup refused
  /\ pc \in {"idle", "decrypted", "ready", "decrypt"} => up \subseteq refused
  /\ pc \in {"idle", "decrypted", "ready", "decrypt", "setup", "catchTeardown"} =>
       Enc = {}
  /\ pc = "catchOthers" => OwnEnc = {}

Intact == crashes = 0 /\ commands = 0 => IntactNow


FilesInv == FilesTypes /\ Hiding /\ Recovery /\ Intact

-----------------------------------------------------------------------------
(* Paths.                                                                  *)

LEMMA PathParts ==
  ASSUME NEW p \in Paths
  PROVE  /\ Challenge(p) \in Challenges
         /\ Kind(p) \in Kinds
         /\ Layers(p) \in 0..MaxLayers
         /\ <<Challenge(p), Kind(p)>> \in Files
         /\ p = <<Challenge(p), Kind(p), Layers(p)>>
BY FilesAssumption DEF Paths, Challenge, Kind, Layers

LEMMA PathNat ==
  ASSUME NEW p \in Paths
  PROVE  Layers(p) \in Nat
<1>1. Layers(p) \in 0..MaxLayers
  BY PathParts
<1> QED BY <1>1, FilesAssumption

LEMMA CopyPath ==
  ASSUME NEW f \in Files, NEW n \in 0..MaxLayers
  PROVE  /\ Copy(f, n) \in Paths
         /\ Challenge(Copy(f, n)) = f[1]
         /\ Kind(Copy(f, n)) = f[2]
         /\ Layers(Copy(f, n)) = n
         /\ f = <<f[1], f[2]>>
BY FilesAssumption DEF Copy, Paths, Challenge, Kind, Layers

LEMMA SamePath ==
  ASSUME NEW p \in Paths, NEW q \in Paths, Challenge(p) = Challenge(q),
         Kind(p) = Kind(q), Layers(p) = Layers(q)
  PROVE  p = q
BY PathParts

LEMMA OuterPath ==
  ASSUME NEW p \in Paths, Layers(p) < MaxLayers
  PROVE  /\ Outer(p) \in Paths
         /\ Challenge(Outer(p)) = Challenge(p)
         /\ Kind(Outer(p)) = Kind(p)
         /\ Layers(Outer(p)) = Layers(p) + 1
         /\ Inner(Outer(p)) = p
         /\ Outer(p) # p
<1>1. /\ Layers(p) \in 0..MaxLayers
      /\ p = <<Challenge(p), Kind(p), Layers(p)>>
      /\ <<Challenge(p), Kind(p)>> \in Files
  BY PathParts
<1>2. Outer(p) = <<Challenge(p), Kind(p), Layers(p) + 1>>
  BY DEF Outer, Challenge, Kind, Layers
<1>3. Layers(p) + 1 \in 0..MaxLayers
  BY <1>1, FilesAssumption
<1>4. Outer(p) = Copy(<<Challenge(p), Kind(p)>>, Layers(p) + 1)
  BY <1>2 DEF Copy
<1>5. Outer(p) \in Paths
  BY <1>1, <1>3, <1>4, CopyPath
<1>6. /\ Challenge(Outer(p)) = Challenge(p)
      /\ Kind(Outer(p)) = Kind(p)
      /\ Layers(Outer(p)) = Layers(p) + 1
  BY <1>2 DEF Challenge, Kind, Layers
<1>7. Inner(Outer(p)) = <<Challenge(p), Kind(p), (Layers(p) + 1) - 1>>
  BY <1>2 DEF Inner
<1> QED BY <1>1, <1>5, <1>6, <1>7

LEMMA InnerPath ==
  ASSUME NEW p \in Paths, Layers(p) > 0
  PROVE  /\ Inner(p) \in Paths
         /\ Challenge(Inner(p)) = Challenge(p)
         /\ Kind(Inner(p)) = Kind(p)
         /\ Layers(Inner(p)) = Layers(p) - 1
         /\ Outer(Inner(p)) = p
         /\ Inner(p) # p
<1>1. /\ Layers(p) \in 0..MaxLayers
      /\ p = <<Challenge(p), Kind(p), Layers(p)>>
      /\ <<Challenge(p), Kind(p)>> \in Files
  BY PathParts
<1>2. Inner(p) = <<Challenge(p), Kind(p), Layers(p) - 1>>
  BY DEF Inner, Challenge, Kind, Layers
<1>3. Layers(p) - 1 \in 0..MaxLayers
  BY <1>1, FilesAssumption
<1>4. Inner(p) = Copy(<<Challenge(p), Kind(p)>>, Layers(p) - 1)
  BY <1>2 DEF Copy
<1>5. Inner(p) \in Paths
  BY <1>1, <1>3, <1>4, CopyPath
<1>6. /\ Challenge(Inner(p)) = Challenge(p)
      /\ Kind(Inner(p)) = Kind(p)
      /\ Layers(Inner(p)) = Layers(p) - 1
  BY <1>2 DEF Challenge, Kind, Layers
<1>7. Outer(Inner(p)) = <<Challenge(p), Kind(p), (Layers(p) - 1) + 1>>
  BY <1>2 DEF Outer
<1> QED BY <1>1, <1>5, <1>6, <1>7

-----------------------------------------------------------------------------
(* One file: rewritten, or half rewritten.                                 *)

LEMMA Rewritten ==
  ASSUME DiskTypes, NEW p \in Present, NEW t \in Paths, t # p,
         disk' = Drop(Write(t, disk[p]), p),
         disk[p] = Whole \/ disk[p] \in 0..Layers(t)
  PROVE  /\ DiskTypes'
         /\ Present' = (Present \cup {t}) \ {p}
         /\ disk'[t] = disk[p]
         /\ \A q \in Present \ {p, t} : disk'[q] = disk[q]
<1>1. disk' = [q \in (Present \cup {t}) \ {p} |-> IF q = t THEN disk[p] ELSE disk[q]]
  BY DEF Drop, Write
<1>2. Present' = (Present \cup {t}) \ {p}
  BY <1>1 DEF Present
<1>3. disk'[t] = disk[p] /\ \A q \in Present \ {p, t} : disk'[q] = disk[q]
  BY <1>1
<1>4. disk' = [q \in Present' |-> disk'[q]]
  BY <1>1, <1>2
<1>5. Present' \subseteq Paths
  BY <1>2 DEF DiskTypes
<1>6. \A q \in Present' : disk'[q] = Whole \/ disk'[q] \in 0..Layers(q)
  BY <1>2, <1>3 DEF DiskTypes
<1> QED BY <1>2, <1>3, <1>4, <1>5, <1>6 DEF DiskTypes

LEMMA EncryptsOne ==
  ASSUME DiskTypes, NEW p \in Present, Layers(p) < MaxLayers, disk' = Encrypted(p)
  PROVE  /\ DiskTypes'
         /\ Present' = (Present \cup {Outer(p)}) \ {p}
         /\ disk'[Outer(p)] = disk[p]
         /\ disk[p] # Layers(Outer(p))
         /\ \A q \in Present \ {p, Outer(p)} : disk'[q] = disk[q]
<1>0. p \in Paths /\ (disk[p] = Whole \/ disk[p] \in 0..Layers(p))
  BY DEF DiskTypes
<1>1. Layers(p) \in Nat
  BY <1>0, PathNat
<1>2. Outer(p) \in Paths /\ Outer(p) # p /\ Layers(Outer(p)) = Layers(p) + 1
  BY <1>0, OuterPath
<1>3. disk[p] = Whole \/ disk[p] \in 0..Layers(Outer(p))
  BY <1>0, <1>1, <1>2
<1>4. disk[p] # Layers(Outer(p))
  BY <1>0, <1>1, <1>2 DEF Whole
<1> QED BY <1>2, <1>3, <1>4, Rewritten DEF Encrypted

LEMMA DecryptsOne ==
  ASSUME DiskTypes, NEW p \in Present, Layers(p) > 0, Decrypts(p), disk' = Decrypted(p)
  PROVE  /\ DiskTypes'
         /\ Present' = (Present \cup {Inner(p)}) \ {p}
         /\ disk'[Inner(p)] = disk[p]
         /\ \A q \in Present \ {p, Inner(p)} : disk'[q] = disk[q]
<1>0. p \in Paths /\ (disk[p] = Whole \/ disk[p] \in 0..Layers(p))
  BY DEF DiskTypes
<1>1. Layers(p) \in Nat
  BY <1>0, PathNat
<1>2. Inner(p) \in Paths /\ Inner(p) # p /\ Layers(Inner(p)) = Layers(p) - 1
  BY <1>0, InnerPath
<1>3. disk[p] = Whole \/ disk[p] \in 0..Layers(Inner(p))
  BY <1>0, <1>1, <1>2 DEF Decrypts
<1> QED BY <1>2, <1>3, Rewritten DEF Decrypted

LEMMA HalfRewritten ==
  ASSUME DiskTypes, NEW p \in Present, NEW t \in Paths, disk' \in Killed(p, t),
         disk[p] = Whole \/ disk[p] \in 0..Layers(t)
  PROVE  /\ DiskTypes'
         /\ \/ disk' = disk
            \/ /\ Present' = Present \cup {t}
               /\ disk'[t] \in {Layers(t), disk[p]}
               /\ \A q \in Present \ {t} : disk'[q] = disk[q]
<1>1. CASE disk' = disk
  BY <1>1 DEF DiskTypes, Present
<1>2. ASSUME NEW worth, worth \in {Layers(t), disk[p]}, disk' = Write(t, worth)
      PROVE  /\ DiskTypes'
             /\ Present' = Present \cup {t}
             /\ disk'[t] = worth
             /\ \A q \in Present \ {t} : disk'[q] = disk[q]
  <2>1. disk' = [q \in Present \cup {t} |-> IF q = t THEN worth ELSE disk[q]]
    BY <1>2 DEF Write
  <2>2. /\ Present' = Present \cup {t}
        /\ disk'[t] = worth
        /\ \A q \in Present \ {t} : disk'[q] = disk[q]
    BY <2>1 DEF Present
  <2>3. disk' = [q \in Present' |-> disk'[q]]
    BY <2>1, <2>2
  <2>4. Layers(t) \in 0..Layers(t)
    BY PathNat
  <2>5. \A q \in Present' : disk'[q] = Whole \/ disk'[q] \in 0..Layers(q)
    BY <1>2, <2>2, <2>4 DEF DiskTypes
  <2> QED BY <2>2, <2>3, <2>5 DEF DiskTypes
<1>3. \/ disk' = disk
      \/ disk' = Write(t, Layers(t))
      \/ disk' = Write(t, disk[p])
  BY DEF Killed
<1> QED BY <1>1, <1>2, <1>3

(* What the operation in hand rewrites.                                    *)
LEMMA EncryptStep ==
  ASSUME FilesTypes, EncryptFile
  PROVE  \E p \in todo :
           /\ p \in Present /\ p \in Paths /\ Layers(p) \in Nat
           /\ Outer(p) \in Paths /\ Outer(p) # p /\ Inner(Outer(p)) = p
           /\ Challenge(Outer(p)) = Challenge(p)
           /\ Kind(Outer(p)) = Kind(p)
           /\ Layers(Outer(p)) = Layers(p) + 1
           /\ DiskTypes'
           /\ Present' = (Present \cup {Outer(p)}) \ {p}
           /\ disk'[Outer(p)] = disk[p]
           /\ disk[p] # Layers(Outer(p))
           /\ \A q \in Present \ {p, Outer(p)} : disk'[q] = disk[q]
           /\ todo' = todo \ {p}
<1>1. PICK p \in todo : /\ Layers(p) < MaxLayers
                        /\ disk' = Encrypted(p)
                        /\ todo' = todo \ {p}
  BY DEF EncryptFile
<1>2. p \in Present /\ p \in Paths /\ DiskTypes
  BY DEF FilesTypes, WorkTypes, DiskTypes
<1>3. Layers(p) \in Nat
  BY <1>2, PathNat
<1>4. /\ Outer(p) \in Paths /\ Outer(p) # p /\ Inner(Outer(p)) = p
      /\ Challenge(Outer(p)) = Challenge(p)
      /\ Kind(Outer(p)) = Kind(p)
      /\ Layers(Outer(p)) = Layers(p) + 1
  BY <1>1, <1>2, OuterPath
<1>5. /\ DiskTypes'
      /\ Present' = (Present \cup {Outer(p)}) \ {p}
      /\ disk'[Outer(p)] = disk[p]
      /\ disk[p] # Layers(Outer(p))
      /\ \A q \in Present \ {p, Outer(p)} : disk'[q] = disk[q]
  BY <1>1, <1>2, EncryptsOne
<1> QED BY <1>1, <1>2, <1>3, <1>4, <1>5

LEMMA DecryptStep ==
  ASSUME FilesTypes, DecryptFile
  PROVE  \E p \in todo :
           /\ p \in Present /\ p \in Paths /\ Layers(p) \in Nat /\ Layers(p) > 0
           /\ Decrypts(p)
           /\ Inner(p) \in Paths /\ Inner(p) # p /\ Outer(Inner(p)) = p
           /\ Challenge(Inner(p)) = Challenge(p)
           /\ Kind(Inner(p)) = Kind(p)
           /\ Layers(Inner(p)) = Layers(p) - 1
           /\ DiskTypes'
           /\ Present' = (Present \cup {Inner(p)}) \ {p}
           /\ disk'[Inner(p)] = disk[p]
           /\ \A q \in Present \ {p, Inner(p)} : disk'[q] = disk[q]
           /\ todo' = todo \ {p}
<1>1. PICK p \in todo : /\ Decrypts(p)
                        /\ disk' = Decrypted(p)
                        /\ todo' = todo \ {p}
  BY DEF DecryptFile
<1>2. p \in Present /\ p \in Paths /\ DiskTypes
  BY DEF FilesTypes, WorkTypes, DiskTypes
<1>3. Layers(p) \in Nat
  BY <1>2, PathNat
<1>4. Layers(p) > 0
  BY <1>1 DEF FilesTypes, Scope, DecryptFile
<1>5. /\ Inner(p) \in Paths /\ Inner(p) # p /\ Outer(Inner(p)) = p
      /\ Challenge(Inner(p)) = Challenge(p)
      /\ Kind(Inner(p)) = Kind(p)
      /\ Layers(Inner(p)) = Layers(p) - 1
  BY <1>2, <1>4, InnerPath
<1>6. /\ DiskTypes'
      /\ Present' = (Present \cup {Inner(p)}) \ {p}
      /\ disk'[Inner(p)] = disk[p]
      /\ \A q \in Present \ {p, Inner(p)} : disk'[q] = disk[q]
  BY <1>1, <1>2, <1>4, DecryptsOne
<1> QED BY <1>1, <1>2, <1>3, <1>4, <1>5, <1>6

(* What a kill leaves: nothing, or the file that was being written.        *)
Left(p, t) ==
  /\ p \in todo /\ p \in Present /\ p \in Paths /\ Layers(p) \in Nat
  /\ t \in Paths
  /\ Challenge(t) = Challenge(p)
  /\ Kind(t) = Kind(p)
  /\ Present' = Present \cup {t}
  /\ disk'[t] \in {Layers(t), disk[p]}
  /\ \A q \in Present \ {t} : disk'[q] = disk[q]

LEMMA CrashStep ==
  ASSUME FilesTypes, Crash
  PROVE  /\ DiskTypes'
         /\ torn \subseteq torn' /\ torn' \subseteq Files
         /\ \/ disk' = disk
            \/ \E p \in todo :
                 /\ Left(p, Outer(p))
                 /\ pc \in EncryptOps
                 /\ Layers(Outer(p)) = Layers(p) + 1
                 /\ Inner(Outer(p)) = p
            \/ \E p \in todo :
                 /\ Left(p, Inner(p))
                 /\ pc \in DecryptOps
                 /\ Layers(p) > 0 /\ Decrypts(p)
                 /\ Layers(Inner(p)) = Layers(p) - 1
                 /\ Layers(p) = 1 /\ disk'[Inner(p)] = 0 =>
                      disk[p] = 0 \/ <<Challenge(p), Kind(p)>> \in torn'
<1>0. DiskTypes /\ todo \subseteq Present /\ Present \subseteq Paths
  BY DEF FilesTypes, WorkTypes, DiskTypes
<1>1. CASE UNCHANGED <<disk, torn>>
  BY <1>1, <1>0 DEF DiskTypes, Present, FilesTypes, WorkTypes
<1>2. ASSUME NEW p \in todo, pc \in EncryptOps, Layers(p) < MaxLayers,
             disk' \in Killed(p, Outer(p)), UNCHANGED torn
      PROVE  /\ DiskTypes'
             /\ \/ disk' = disk
                \/ /\ Left(p, Outer(p))
                   /\ Layers(Outer(p)) = Layers(p) + 1
                   /\ Inner(Outer(p)) = p
  <2>1. p \in Present /\ p \in Paths /\ Layers(p) \in Nat
        /\ (disk[p] = Whole \/ disk[p] \in 0..Layers(p))
    BY <1>2, <1>0, PathNat DEF DiskTypes
  <2>2. /\ Outer(p) \in Paths /\ Outer(p) # p /\ Inner(Outer(p)) = p
        /\ Challenge(Outer(p)) = Challenge(p)
        /\ Kind(Outer(p)) = Kind(p)
        /\ Layers(Outer(p)) = Layers(p) + 1
    BY <1>2, <2>1, OuterPath
  <2>3. disk[p] = Whole \/ disk[p] \in 0..Layers(Outer(p))
    BY <2>1, <2>2
  <2>4. /\ DiskTypes'
        /\ \/ disk' = disk
           \/ /\ Present' = Present \cup {Outer(p)}
              /\ disk'[Outer(p)] \in {Layers(Outer(p)), disk[p]}
              /\ \A q \in Present \ {Outer(p)} : disk'[q] = disk[q]
    BY <1>0, <1>2, <2>1, <2>2, <2>3, HalfRewritten
  <2> QED BY <1>2, <2>1, <2>2, <2>4 DEF Left
<1>3. ASSUME NEW p \in todo, pc \in DecryptOps, Decrypts(p),
             disk' \in Killed(p, Inner(p)),
             torn' = IF Layers(p) = 1 /\ disk' = Write(Inner(p), 0)
                     THEN torn \cup {<<Challenge(p), Kind(p)>>} ELSE torn
      PROVE  /\ DiskTypes'
             /\ torn \subseteq torn' /\ torn' \subseteq Files
             /\ \/ disk' = disk
                \/ /\ Left(p, Inner(p))
                   /\ Layers(p) > 0
                   /\ Layers(Inner(p)) = Layers(p) - 1
                   /\ Layers(p) = 1 /\ disk'[Inner(p)] = 0 =>
                        disk[p] = 0 \/ <<Challenge(p), Kind(p)>> \in torn'
  <2>1. p \in Present /\ p \in Paths /\ Layers(p) \in Nat
        /\ (disk[p] = Whole \/ disk[p] \in 0..Layers(p))
    BY <1>3, <1>0, PathNat DEF DiskTypes
  <2>2. Layers(p) > 0
    BY <1>3 DEF FilesTypes, Scope
  <2>3. /\ Inner(p) \in Paths /\ Inner(p) # p
        /\ Challenge(Inner(p)) = Challenge(p)
        /\ Kind(Inner(p)) = Kind(p)
        /\ Layers(Inner(p)) = Layers(p) - 1
    BY <2>1, <2>2, InnerPath
  <2>4. disk[p] = Whole \/ disk[p] \in 0..Layers(Inner(p))
    BY <1>3, <2>1, <2>3 DEF Decrypts
  <2>5. /\ DiskTypes'
        /\ \/ disk' = disk
           \/ /\ Present' = Present \cup {Inner(p)}
              /\ disk'[Inner(p)] \in {Layers(Inner(p)), disk[p]}
              /\ \A q \in Present \ {Inner(p)} : disk'[q] = disk[q]
    BY <1>0, <1>3, <2>1, <2>3, <2>4, HalfRewritten
  <2>6. <<Challenge(p), Kind(p)>> \in Files
    BY <2>1, PathParts
  <2>7. torn \subseteq torn' /\ torn' \subseteq Files
    BY <1>3, <2>6 DEF FilesTypes, WorkTypes
  <2>8. ASSUME disk' # disk, Layers(p) = 1, disk'[Inner(p)] = 0, disk[p] # 0
        PROVE  <<Challenge(p), Kind(p)>> \in torn'
    <3>1. disk' # Write(Inner(p), disk[p])
      BY <2>8 DEF Write
    <3>2. disk' = Write(Inner(p), Layers(Inner(p)))
      BY <1>3, <2>8, <3>1 DEF Killed
    <3>3. Layers(Inner(p)) = 0
      BY <2>3, <2>8
    <3> QED BY <1>3, <2>8, <3>2, <3>3
  <2>9. CASE disk' = disk
    BY <2>5, <2>7, <2>9
  <2>10. CASE disk' # disk
    BY <1>3, <2>1, <2>2, <2>3, <2>5, <2>7, <2>8, <2>10 DEF Left
  <2> QED BY <2>9, <2>10
<1> QED BY <1>1, <1>2, <1>3 DEF Crash, FilesTypes, WorkTypes

-----------------------------------------------------------------------------
(* Types and scope.                                                        *)

LEMMA PlainDiskPaths ==
  /\ DOMAIN PlainDisk = {Copy(f, 0) : f \in Files}
  /\ \A p \in DOMAIN PlainDisk : PlainDisk[p] = Whole /\ p \in Paths /\ Layers(p) = 0
<1>1. DOMAIN PlainDisk = {Copy(f, 0) : f \in Files}
  BY DEF PlainDisk, Copy
<1>2. \A p \in DOMAIN PlainDisk : PlainDisk[p] = Whole
  BY DEF PlainDisk
<1>3. 0 \in 0..MaxLayers
  BY FilesAssumption
<1> QED BY <1>1, <1>2, <1>3, CopyPath

LEMMA FilesTypesInit == Init => FilesTypes
<1> SUFFICES ASSUME Init PROVE FilesTypes
  OBVIOUS
<1>1. disk = PlainDisk
  BY DEF Init
<1>2. Present = {Copy(f, 0) : f \in Files}
  BY <1>1, PlainDiskPaths DEF Present
<1>3. DiskTypes
  BY <1>1, <1>2, PlainDiskPaths DEF DiskTypes, Present, PlainDisk
<1>4. WorkTypes
  BY FilesAssumption DEF Init, WorkTypes, Places
<1>5. Scope
  BY DEF Init, Scope, Ops, EncryptOps, DecryptOps, OwnOps, OtherOps
<1> QED BY <1>3, <1>4, <1>5 DEF FilesTypes

LEMMA ListingFiles ==
  ASSUME NEW op \in Ops, NEW c \in Challenges
  PROVE  /\ Listing(op, c) \subseteq Present
         /\ \A p \in Listing(op, c) : Challenge(p) = c
         /\ op \notin OtherOps => \A p \in Listing(op, c) : Kind(p) \notin Loose
         /\ op \in {"encrypt", "cliEncrypt"} =>
              \A p \in Listing(op, c) : Kind(p) \in Protected
         /\ op = "encryptOthers" => \A p \in Listing(op, c) : Layers(p) = 0
         /\ op \in DecryptOps => \A p \in Listing(op, c) : Layers(p) > 0
BY DEF Listing, SensitiveFiles, AllPlainFiles, AllEncFiles, EncryptedFiles, In,
       OtherOps, Ops, EncryptOps, DecryptOps, Protected, Loose

(* The steps that leave every file alone.                                  *)
LEMMA QuietTypes ==
  ASSUME FilesTypes, Next, disk' = disk
  PROVE  DiskTypes'
BY DEF FilesTypes, DiskTypes, Present

LEMMA WorkTypesNext ==
  ASSUME FilesTypes, Next
  PROVE  DiskTypes' /\ WorkTypes'
<1> USE DEF FilesTypes
<1>1. CASE StartProcess
  BY <1>1, QuietTypes DEF StartProcess, WorkTypes, Present, Places
<1>2. CASE StartRun
  BY <1>2, QuietTypes DEF StartRun, Begin, WorkTypes, Present, Places, Ops, DecryptOps
<1>3. CASE EndProcess
  BY <1>3, QuietTypes DEF EndProcess, WorkTypes, Present, Places
<1>4. CASE Command
  BY <1>4, QuietTypes DEF Command, Begin, WorkTypes, Present, Places, Ops,
     EncryptOps, DecryptOps
<1>5. CASE OpenDir
  <2>1. PICK c \in dirs : dirs' = dirs \ {c} /\ todo' = Listing(pc, c)
    BY <1>5 DEF OpenDir
  <2>2. todo' \subseteq Present
    BY <1>5, <2>1, ListingFiles DEF OpenDir, WorkTypes
  <2> QED BY <1>5, <2>1, <2>2, QuietTypes DEF OpenDir, WorkTypes, Present
<1>6. CASE EncryptFile
  <2>1. PICK p \in todo : /\ DiskTypes'
                          /\ Present' = (Present \cup {Outer(p)}) \ {p}
                          /\ todo' = todo \ {p}
    BY <1>6, EncryptStep
  <2> QED BY <1>6, <2>1 DEF EncryptFile, WorkTypes
<1>7. CASE DecryptFile
  <2>1. PICK p \in todo : /\ DiskTypes'
                          /\ Present' = (Present \cup {Inner(p)}) \ {p}
                          /\ todo' = todo \ {p}
    BY <1>7, DecryptStep
  <2> QED BY <1>7, <2>1 DEF DecryptFile, WorkTypes
<1>8. CASE DecryptThrows
  BY <1>8, QuietTypes DEF DecryptThrows, Begin, Others, WorkTypes, Present, Places,
     Ops, DecryptOps
<1>9. CASE FinishOp
  <2>1. pc' \in Places /\ dirs' \subseteq Challenges /\ todo' = {}
    BY <1>9 DEF FinishOp, Begin, Others, WorkTypes, Places, Ops, EncryptOps, DecryptOps
  <2> QED BY <1>9, <2>1, QuietTypes DEF FinishOp, WorkTypes, Present
<1>10. CASE Setup
  BY <1>10, QuietTypes DEF Setup, Begin, WorkTypes, Present, Places, Ops,
     EncryptOps, DecryptOps
<1>11. CASE Solve
  BY <1>11, QuietTypes DEF Solve, Begin, WorkTypes, Present, Places, Ops, DecryptOps
<1>12. CASE Grade
  BY <1>12, QuietTypes DEF Grade, Begin, Teardown, WorkTypes, Present, Places, Ops,
     DecryptOps
<1>13. CASE CatchTeardown
  BY <1>13, QuietTypes DEF CatchTeardown, Begin, Teardown, WorkTypes, Present, Places
<1>14. CASE Crash
  <2>1. DiskTypes' /\ torn' \subseteq Files
    BY <1>14, CrashStep
  <2>2. /\ crashes' = crashes + 1 /\ pc' = "idle" /\ dirs' = {} /\ todo' = {}
        /\ queue' = {} /\ UNCHANGED <<current, up, refused, commands>>
    BY <1>14 DEF Crash, Begin
  <2> QED BY <2>1, <2>2 DEF WorkTypes, Places
<1> QED BY <1>1, <1>2, <1>3, <1>4, <1>5, <1>6, <1>7, <1>8, <1>9, <1>10,
           <1>11, <1>12, <1>13, <1>14 DEF Next

LEMMA ScopeNext ==
  ASSUME FilesTypes, Next
  PROVE  Scope'
<1> USE DEF FilesTypes
<1>1. CASE StartProcess \/ EndProcess
  BY <1>1 DEF StartProcess, EndProcess, Scope, Idle, OwnOps, OtherOps, Ops,
     EncryptOps, DecryptOps
<1>2. CASE StartRun \/ Command
  BY <1>2 DEF StartRun, Command, Begin, Scope, OwnOps, OtherOps, Ops, EncryptOps,
     DecryptOps
<1>3. CASE OpenDir
  <2>1. PICK c \in dirs : dirs' = dirs \ {c} /\ todo' = Listing(pc, c)
    BY <1>3 DEF OpenDir
  <2>2. /\ \A p \in todo' : Challenge(p) = c
        /\ pc \notin OtherOps => \A p \in todo' : Kind(p) \notin Loose
        /\ pc \in {"encrypt", "cliEncrypt"} => \A p \in todo' : Kind(p) \in Protected
        /\ pc = "encryptOthers" => \A p \in todo' : Layers(p) = 0
        /\ pc \in DecryptOps => \A p \in todo' : Layers(p) > 0
    BY <1>3, <2>1, ListingFiles DEF OpenDir, WorkTypes
  <2>3. pc \in Ops /\ UNCHANGED <<pc, current>>
    BY <1>3 DEF OpenDir
  <2> QED BY <2>1, <2>2, <2>3 DEF Scope
<1>4. CASE EncryptFile
  <2>1. pc \in Ops /\ todo' \subseteq todo /\ UNCHANGED <<pc, current, dirs>>
    BY <1>4 DEF EncryptFile, Ops
  <2> QED BY <2>1 DEF Scope
<1>5. CASE DecryptFile
  <2>1. pc \in Ops /\ todo' \subseteq todo /\ UNCHANGED <<pc, current, dirs>>
    BY <1>5 DEF DecryptFile, Ops
  <2> QED BY <2>1 DEF Scope
<1>6. CASE DecryptThrows
  BY <1>6 DEF DecryptThrows, Begin, Others, Scope, OwnOps, OtherOps, Ops, EncryptOps,
     DecryptOps
<1>7. CASE FinishOp
  <2>1. todo' = {} /\ UNCHANGED current
    BY <1>7 DEF FinishOp, Begin, Ops, EncryptOps, DecryptOps
  <2>2. /\ pc' \notin Ops => dirs' = {}
        /\ pc' \in OwnOps => dirs' \subseteq {current}
        /\ pc' \in OtherOps => current \notin dirs'
    BY <1>7 DEF FinishOp, Begin, Others, OwnOps, OtherOps, Ops, EncryptOps, DecryptOps
  <2> QED BY <2>1, <2>2 DEF Scope
<1>8. CASE Setup \/ Solve \/ Grade \/ CatchTeardown
  BY <1>8 DEF Setup, Solve, Grade, CatchTeardown, Begin, Scope, OwnOps, OtherOps, Ops,
     EncryptOps, DecryptOps
<1>9. CASE Crash
  BY <1>9 DEF Crash, Begin, Scope, OwnOps, OtherOps, Ops, EncryptOps, DecryptOps
<1> QED BY <1>1, <1>2, <1>3, <1>4, <1>5, <1>6, <1>7, <1>8, <1>9 DEF Next

LEMMA FilesTypesNext ==
  ASSUME FilesTypes, [Next]_vars
  PROVE  FilesTypes'
<1>1. CASE Next
  BY <1>1, WorkTypesNext, ScopeNext DEF FilesTypes
<1>2. CASE UNCHANGED vars
  BY <1>2 DEF vars, FilesTypes, DiskTypes, WorkTypes, Scope, Present
<1> QED BY <1>1, <1>2

-----------------------------------------------------------------------------
(* A README.md is there, plain or encrypted once, whatever happens to the  *)
(* rest: the challenge stays one to encrypt and to restore.                *)

DirsStay == \A c \in Challenges : ChallengeDir(c)

LEMMA ReadmePath ==
  ASSUME NEW p \in Paths, NEW c \in Challenges
  PROVE  /\ p = <<c, "readme", 0>> <=>
              Challenge(p) = c /\ Kind(p) = "readme" /\ Layers(p) = 0
         /\ p = <<c, "readme", 1>> <=>
              Challenge(p) = c /\ Kind(p) = "readme" /\ Layers(p) = 1
<1>1. p = <<Challenge(p), Kind(p), Layers(p)>>
  BY PathParts
<1> QED BY <1>1 DEF Challenge, Kind, Layers

LEMMA DirsStayNext ==
  ASSUME FilesTypes, DirsStay, Next
  PROVE  DirsStay'
<1> USE DEF DirsStay
<1>1. CASE disk' = disk
  BY <1>1 DEF ChallengeDir, HasReadme, Present
<1>2. CASE EncryptFile
  <2>1. PICK p \in todo :
          /\ p \in Paths /\ Outer(p) \in Paths
          /\ Challenge(Outer(p)) = Challenge(p)
          /\ Kind(Outer(p)) = Kind(p)
          /\ Layers(Outer(p)) = Layers(p) + 1
          /\ Present' = (Present \cup {Outer(p)}) \ {p}
          /\ Outer(p) # p
    BY <1>2, EncryptStep
  <2>2. Kind(p) = "readme" => Layers(p) = 0
    BY <1>2 DEF EncryptFile, EncryptOps, FilesTypes, Scope, OtherOps, Loose
  <2>3. ASSUME NEW c \in Challenges PROVE ChallengeDir(c)'
    <3>1. ChallengeDir(c)
      OBVIOUS
    <3>2. p = <<c, "readme", 0>> => Outer(p) = <<c, "readme", 1>>
      BY <2>1, ReadmePath
    <3>3. p # <<c, "readme", 1>>
      BY <2>1, <2>2, ReadmePath
    <3> QED BY <2>1, <3>1, <3>2, <3>3 DEF ChallengeDir, HasReadme
  <2> QED BY <2>3
<1>3. CASE DecryptFile
  <2>1. PICK p \in todo :
          /\ p \in Paths /\ Inner(p) \in Paths /\ Layers(p) > 0
          /\ Challenge(Inner(p)) = Challenge(p)
          /\ Kind(Inner(p)) = Kind(p)
          /\ Layers(Inner(p)) = Layers(p) - 1
          /\ Present' = (Present \cup {Inner(p)}) \ {p}
          /\ Inner(p) # p
    BY <1>3, DecryptStep
  <2>2. ASSUME NEW c \in Challenges PROVE ChallengeDir(c)'
    <3>1. ChallengeDir(c)
      OBVIOUS
    <3>2. p = <<c, "readme", 1>> => Inner(p) = <<c, "readme", 0>>
      BY <2>1, ReadmePath
    <3>3. p # <<c, "readme", 0>>
      BY <2>1, ReadmePath
    <3> QED BY <2>1, <3>1, <3>2, <3>3 DEF ChallengeDir, HasReadme
  <2> QED BY <2>2
<1>4. CASE Crash
  <2>1. Present \subseteq Present'
    BY <1>4, <1>1, CrashStep DEF Left, Present
  <2> QED BY <2>1 DEF ChallengeDir, HasReadme
<1> QED BY <1>1, <1>2, <1>3, <1>4 DEF Next, StartProcess, StartRun, EndProcess,
           Command, OpenDir, DecryptThrows, FinishOp, Setup, Solve, Grade, CatchTeardown

(* The places a process is in after each step that rewrites nothing.       *)
LEMMA OthersAll ==
  ASSUME DirsStay
  PROVE  Others(current) = Challenges \ {current}
BY DEF DirsStay, Others

LEMMA PresentChallenge ==
  ASSUME DiskTypes, NEW p \in Present
  PROVE  p \in Paths /\ Challenge(p) \in Challenges /\ Layers(p) \in Nat
         /\ Kind(p) \in Kinds /\ <<Challenge(p), Kind(p)>> \in Files
BY PathParts, PathNat DEF DiskTypes

LEMMA HidingNext ==
  ASSUME FilesTypes, Hiding, Next
  PROVE  Hiding'
<1>0. DirsStay /\ DirsStay'
  BY DirsStayNext DEF Hiding, DirsStay
<1>d. DiskTypes
  BY DEF FilesTypes
<1>1. CASE pc' \notin {"encrypt", "encryptOthers", "solving"}
  BY <1>1, <1>0 DEF Hiding, DirsStay
<1>2. CASE OpenDir
  <2>1. PICK c \in dirs : dirs' = dirs \ {c} /\ todo' = Listing(pc, c)
    BY <1>2 DEF OpenDir
  <2>2. /\ pc' = pc /\ current' = current /\ disk' = disk /\ todo = {}
    BY <1>2 DEF OpenDir
  <2>3. Plain' = Plain /\ OwnPlain' = OwnPlain
    BY <2>2 DEF Plain, OwnPlain, Present
  <2>4. CASE pc = "encrypt"
    <3>1. c = current
      BY <2>4 DEF FilesTypes, Scope, OwnOps
    <3>2. todo' = SensitiveFiles(current)
      BY <2>1, <2>4, <3>1 DEF Listing
    <3>3. OwnPlain \subseteq SensitiveFiles(current)
      BY DEF OwnPlain, Plain, SensitiveFiles, In, Protected
    <3> QED BY <1>0, <2>2, <2>3, <2>4, <3>2, <3>3 DEF Hiding, DirsStay
  <2>5. CASE pc = "encryptOthers"
    <3>1. todo' = AllPlainFiles(c)
      BY <2>1, <2>5 DEF Listing
    <3>2. Opened(Plain)' \subseteq todo'
      BY <2>1, <2>2, <2>3, <2>5, <3>1 DEF Hiding, Opened, AllPlainFiles, In, Plain
    <3> QED BY <1>0, <2>2, <2>3, <2>5, <3>2 DEF Hiding, DirsStay
  <2> QED BY <1>1, <1>2, <2>2, <2>4, <2>5 DEF OpenDir, Ops, EncryptOps, DecryptOps
<1>3. CASE EncryptFile
  <2>1. PICK p \in todo :
          /\ p \in Present /\ Layers(p) \in Nat
          /\ Layers(Outer(p)) = Layers(p) + 1
          /\ Present' = (Present \cup {Outer(p)}) \ {p}
          /\ todo' = todo \ {p}
    BY <1>3, EncryptStep
  <2>2. Plain' = Plain \ {p}
    BY <2>1 DEF Plain
  <2>3. UNCHANGED <<pc, current, dirs>>
    BY <1>3 DEF EncryptFile
  <2>4. OwnPlain' = OwnPlain \ {p}
    BY <2>2, <2>3 DEF OwnPlain
  <2>5. Opened(Plain)' = Opened(Plain) \ {p}
    BY <2>2, <2>3 DEF Opened
  <2>6. pc # "solving"
    BY <1>3 DEF EncryptFile, EncryptOps
  <2> QED BY <1>0, <2>1, <2>3, <2>4, <2>5, <2>6 DEF Hiding, DirsStay
<1>4. CASE FinishOp
  <2>1. disk' = disk /\ current' = current /\ dirs = {} /\ todo = {}
    BY <1>4 DEF FinishOp
  <2>2. Plain' = Plain /\ OwnPlain' = OwnPlain
    BY <2>1 DEF Plain, OwnPlain, Present
  <2>3. CASE pc' = "encryptOthers"
    <3>1. pc = "encrypt" /\ dirs' = Others(current)
      BY <1>4, <2>3 DEF FinishOp, Begin
    <3>2. dirs' = Challenges \ {current}
      BY <1>0, <3>1, OthersAll
    <3>3. OwnPlain = {}
      BY <2>1, <3>1 DEF Hiding
    <3>4. Opened(Plain)' = {}
      BY <1>d, <2>1, <2>2, <3>2, PresentChallenge DEF Opened, Plain
    <3> QED BY <1>0, <2>2, <2>3, <3>3, <3>4 DEF Hiding, DirsStay
  <2>4. CASE pc' = "solving"
    <3>1. pc = "encryptOthers"
      BY <1>4, <2>4 DEF FinishOp, Begin
    <3>2. OwnPlain = {} /\ Opened(Plain) = {}
      BY <2>1, <3>1 DEF Hiding
    <3>3. \A p \in Plain : Challenge(p) = current
      BY <2>1, <3>2 DEF Opened
    <3> QED BY <1>0, <2>1, <2>2, <2>4, <3>2, <3>3 DEF Hiding, DirsStay
  <2>5. pc' # "encrypt"
    BY <1>4 DEF FinishOp, Begin
  <2> QED BY <1>1, <2>3, <2>4, <2>5
<1>5. CASE Setup
  <2>1. pc' = "encrypt" => dirs' = {current}
    BY <1>5 DEF Setup, Begin
  <2>2. pc' \notin {"encryptOthers", "solving"}
    BY <1>5 DEF Setup, Begin
  <2> QED BY <1>0, <2>1, <2>2 DEF Hiding, DirsStay
<1>6. CASE DecryptFile \/ DecryptThrows
  BY <1>1, <1>6 DEF DecryptFile, DecryptThrows, DecryptOps, Begin
<1>7. CASE StartProcess \/ StartRun \/ EndProcess \/ Command
  BY <1>1, <1>7 DEF StartProcess, StartRun, EndProcess, Command, Begin
<1>8. CASE Solve \/ Grade \/ CatchTeardown \/ Crash
  BY <1>1, <1>8 DEF Solve, Grade, CatchTeardown, Crash, Begin
<1> QED BY <1>2, <1>3, <1>4, <1>5, <1>6, <1>7, <1>8 DEF Next

-----------------------------------------------------------------------------
(* The copies a kill leaves.                                               *)

LEMMA CommandsStay ==
  ASSUME FilesTypes, Next, commands' = 0
  PROVE  commands = 0 /\ ~Command
<1>1. ASSUME Command PROVE FALSE
  <2>1. commands' = commands + 1 /\ commands \in Nat
    BY <1>1 DEF Command, FilesTypes, WorkTypes
  <2> QED BY <2>1
<1> QED BY <1>1 DEF Next, StartProcess, StartRun, EndProcess, OpenDir, EncryptFile,
           DecryptFile, DecryptThrows, FinishOp, Setup, Solve, Grade, CatchTeardown,
           Crash

LEMMA PlainCopy ==
  ASSUME NEW p \in Paths
  PROVE  /\ Layers(p) = 0 <=> p = Copy(<<Challenge(p), Kind(p)>>, 0)
         /\ Layers(p) = 1 <=> p = Copy(<<Challenge(p), Kind(p)>>, 1)
<1>1. p = <<Challenge(p), Kind(p), Layers(p)>>
  BY PathParts
<1> QED BY <1>1 DEF Copy, Challenge, Kind, Layers

LEMMA CopyParts ==
  ASSUME NEW f \in Files
  PROVE  /\ Copy(f, 0) \in Paths /\ Copy(f, 1) \in Paths
         /\ Layers(Copy(f, 0)) = 0 /\ Layers(Copy(f, 1)) = 1
         /\ Challenge(Copy(f, 0)) = f[1] /\ Challenge(Copy(f, 1)) = f[1]
         /\ Kind(Copy(f, 0)) = f[2] /\ Kind(Copy(f, 1)) = f[2]
         /\ f = <<f[1], f[2]>>
<1>1. 0 \in 0..MaxLayers /\ 1 \in 0..MaxLayers
  BY FilesAssumption
<1> QED BY <1>1, CopyPath

LEMMA CopiesEncrypt ==
  ASSUME FilesTypes, Copies, Progress, EncryptFile
  PROVE  Copies'
<1>1. PICK p \in todo :
        /\ p \in Present /\ p \in Paths /\ Layers(p) \in Nat
        /\ Outer(p) \in Paths /\ Outer(p) # p /\ Inner(Outer(p)) = p
        /\ Challenge(Outer(p)) = Challenge(p)
        /\ Kind(Outer(p)) = Kind(p)
        /\ Layers(Outer(p)) = Layers(p) + 1
        /\ DiskTypes'
        /\ Present' = (Present \cup {Outer(p)}) \ {p}
        /\ disk'[Outer(p)] = disk[p]
        /\ disk[p] # Layers(Outer(p))
        /\ \A q \in Present \ {p, Outer(p)} : disk'[q] = disk[q]
        /\ todo' = todo \ {p}
  BY EncryptStep
<1>2. pc \in {"encrypt", "encryptOthers"}
  BY DEF EncryptFile, EncryptOps, Progress
<1>3. Layers(p) = 0 /\ Layers(Outer(p)) = 1
  BY <1>1, <1>2 DEF FilesTypes, Scope, Progress
<1>4. \A q \in Present : q \in Paths
  BY DEF FilesTypes, DiskTypes
<1>5. \A q \in Present' : Layers(q) <= 1
  BY <1>1, <1>3 DEF Copies
<1>6. \A f \in Files : Copy(f, 0) \in Present' \/ Copy(f, 1) \in Present'
  <2>1. TAKE f \in Files
  <2>2. CASE p = Copy(f, 0)
    <3>1. Outer(p) = Copy(f, 1)
      BY <1>1, <1>3, <2>2, PlainCopy, CopyParts
    <3> QED BY <1>1, <3>1
  <2>3. CASE p # Copy(f, 0)
    <3>1. p # Copy(f, 1)
      BY <1>3, CopyParts
    <3> QED BY <1>1, <2>3, <3>1 DEF Copies
  <2> QED BY <2>2, <2>3
<1>7. ASSUME NEW q \in Enc', ~(disk'[q] # Layers(q))
      PROVE  Inner(q) \in Present'
  <2>1. q \in Present' /\ Layers(q) > 0
    BY <1>7 DEF Enc
  <2>2. q # Outer(p)
    BY <1>1, <1>7
  <2>3. q \in Present /\ q # p /\ disk'[q] = disk[q]
    BY <1>1, <2>1, <2>2
  <2>4. Inner(q) \in Present
    BY <1>7, <2>1, <2>3 DEF Copies, Enc, Decrypts
  <2>5. Outer(Inner(q)) = q
    BY <1>4, <2>1, <2>3, InnerPath
  <2> QED BY <1>1, <2>2, <2>4, <2>5
<1>8. ASSUME NEW q \in Present', <<Challenge(q), Kind(q)>> \notin torn'
      PROVE  disk'[q] = Whole \/ (q \in Enc' /\ ~(disk'[q] # Layers(q)))
  <2>1. torn' = torn
    BY DEF EncryptFile
  <2>2. CASE q = Outer(p)
    BY <1>1, <1>3, <1>8, <2>1, <2>2 DEF Copies, Enc
  <2>3. CASE q # Outer(p)
    <3>1. q \in Present /\ q # p /\ disk'[q] = disk[q]
      BY <1>1, <1>8, <2>3
    <3> QED BY <1>8, <2>1, <3>1 DEF Copies, Enc, Decrypts
  <2> QED BY <2>2, <2>3
<1> QED BY <1>5, <1>6, <1>7, <1>8 DEF Copies, Decrypts

LEMMA CopiesDecrypt ==
  ASSUME FilesTypes, Copies, DecryptFile
  PROVE  Copies'
<1>1. PICK p \in todo :
        /\ p \in Present /\ p \in Paths /\ Layers(p) \in Nat /\ Layers(p) > 0
        /\ Decrypts(p)
        /\ Inner(p) \in Paths /\ Inner(p) # p /\ Outer(Inner(p)) = p
        /\ Challenge(Inner(p)) = Challenge(p)
        /\ Kind(Inner(p)) = Kind(p)
        /\ Layers(Inner(p)) = Layers(p) - 1
        /\ DiskTypes'
        /\ Present' = (Present \cup {Inner(p)}) \ {p}
        /\ disk'[Inner(p)] = disk[p]
        /\ \A q \in Present \ {p, Inner(p)} : disk'[q] = disk[q]
        /\ todo' = todo \ {p}
  BY DecryptStep
<1>2. Layers(p) = 1 /\ Layers(Inner(p)) = 0
  BY <1>1 DEF Copies
<1>3. \A q \in Present : q \in Paths /\ Layers(q) \in Nat
  BY PathNat DEF FilesTypes, DiskTypes
<1>4. \A q \in Present' : Layers(q) <= 1
  BY <1>1, <1>2 DEF Copies
<1>5. \A f \in Files : Copy(f, 0) \in Present' \/ Copy(f, 1) \in Present'
  <2>1. TAKE f \in Files
  <2>2. CASE p = Copy(f, 1)
    <3>1. Inner(p) = Copy(f, 0)
      BY <1>1, <1>2, <2>2, PlainCopy, CopyParts
    <3> QED BY <1>1, <3>1
  <2>3. CASE p # Copy(f, 1)
    <3>1. p # Copy(f, 0)
      BY <1>2, CopyParts
    <3> QED BY <1>1, <2>3, <3>1 DEF Copies
  <2> QED BY <2>2, <2>3
<1>6. ASSUME NEW q \in Enc', ~(disk'[q] # Layers(q))
      PROVE  Inner(q) \in Present'
  <2>1. q \in Present' /\ Layers(q) > 0
    BY <1>6 DEF Enc
  <2>2. q \in Present /\ q # p /\ disk'[q] = disk[q]
    BY <1>1, <1>2, <2>1
  <2>3. Inner(q) \in Present
    BY <1>6, <2>1, <2>2 DEF Copies, Enc, Decrypts
  <2>4. Layers(q) = 1
    BY <1>3, <2>1, <2>2 DEF Copies
  <2>5. Layers(Inner(q)) = 0
    BY <1>3, <2>1, <2>2, <2>4, InnerPath
  <2> QED BY <1>1, <1>2, <2>3, <2>5
<1>7. ASSUME NEW q \in Present', <<Challenge(q), Kind(q)>> \notin torn'
      PROVE  disk'[q] = Whole \/ (q \in Enc' /\ ~(disk'[q] # Layers(q)))
  <2>1. torn' = torn
    BY DEF DecryptFile
  <2>2. CASE q = Inner(p)
    BY <1>1, <1>2, <1>7, <2>1, <2>2 DEF Copies, Enc, Decrypts
  <2>3. CASE q # Inner(p)
    <3>1. q \in Present /\ q # p /\ disk'[q] = disk[q]
      BY <1>1, <1>7, <2>3
    <3> QED BY <1>7, <2>1, <3>1 DEF Copies, Enc, Decrypts
  <2> QED BY <2>2, <2>3
<1> QED BY <1>4, <1>5, <1>6, <1>7 DEF Copies, Decrypts

LEMMA CopiesCrash ==
  ASSUME FilesTypes, Copies, Progress, Crash
  PROVE  Copies'
<1>0. torn \subseteq torn'
  BY CrashStep
<1>3. \A q \in Present : q \in Paths /\ Layers(q) \in Nat
  BY PathNat DEF FilesTypes, DiskTypes
<1>1. CASE disk' = disk
  BY <1>0, <1>1 DEF Copies, Present, Enc, Decrypts
<1>2. ASSUME NEW p \in todo, Left(p, Outer(p)), pc \in EncryptOps,
             Layers(Outer(p)) = Layers(p) + 1, Inner(Outer(p)) = p
      PROVE  Copies'
  <2>1. pc \in {"encrypt", "encryptOthers"}
    BY <1>2 DEF EncryptOps, Progress
  <2>2. Layers(p) = 0 /\ Layers(Outer(p)) = 1 /\ p \in Present
    BY <1>2, <2>1 DEF FilesTypes, Scope, Progress, Left
  <2>3. /\ Present' = Present \cup {Outer(p)}
        /\ disk'[Outer(p)] \in {1, disk[p]}
        /\ \A q \in Present \ {Outer(p)} : disk'[q] = disk[q]
    BY <1>2, <2>2 DEF Left
  <2>4. \A q \in Present' : Layers(q) <= 1
    BY <2>2, <2>3 DEF Copies
  <2>5. \A f \in Files : Copy(f, 0) \in Present' \/ Copy(f, 1) \in Present'
    BY <2>3 DEF Copies
  <2>6. ASSUME NEW q \in Enc', ~(disk'[q] # Layers(q))
        PROVE  Inner(q) \in Present'
    <3>1. CASE q = Outer(p)
      BY <1>2, <2>2, <2>3, <3>1
    <3>2. CASE q # Outer(p)
      BY <2>3, <2>6, <3>2 DEF Enc, Copies, Decrypts
    <3> QED BY <3>1, <3>2
  <2>7. ASSUME NEW q \in Present', <<Challenge(q), Kind(q)>> \notin torn'
        PROVE  disk'[q] = Whole \/ (q \in Enc' /\ ~(disk'[q] # Layers(q)))
    <3>1. CASE q = Outer(p)
      <4>1. disk[p] = Whole
        BY <1>0, <1>2, <2>2, <2>7, <3>1 DEF Copies, Enc, Left
      <4> QED BY <2>2, <2>3, <3>1, <4>1 DEF Enc
    <3>2. CASE q # Outer(p)
      BY <1>0, <2>3, <2>7, <3>2 DEF Enc, Copies, Decrypts
    <3> QED BY <3>1, <3>2
  <2> QED BY <2>4, <2>5, <2>6, <2>7 DEF Copies, Decrypts
<1>4. ASSUME NEW p \in todo, Left(p, Inner(p)), Layers(p) > 0,
             Layers(Inner(p)) = Layers(p) - 1, Decrypts(p),
             Layers(p) = 1 /\ disk'[Inner(p)] = 0 =>
               disk[p] = 0 \/ <<Challenge(p), Kind(p)>> \in torn'
      PROVE  Copies'
  <2>1. Layers(p) = 1 /\ Layers(Inner(p)) = 0 /\ p \in Present
    BY <1>4 DEF Copies, Left
  <2>2. /\ Present' = Present \cup {Inner(p)}
        /\ disk'[Inner(p)] \in {0, disk[p]}
        /\ \A q \in Present \ {Inner(p)} : disk'[q] = disk[q]
    BY <1>4, <2>1 DEF Left
  <2>3. \A q \in Present' : Layers(q) <= 1
    BY <2>1, <2>2 DEF Copies
  <2>4. \A f \in Files : Copy(f, 0) \in Present' \/ Copy(f, 1) \in Present'
    BY <2>2 DEF Copies
  <2>5. ASSUME NEW q \in Enc', ~(disk'[q] # Layers(q))
        PROVE  Inner(q) \in Present'
    <3>1. q # Inner(p)
      BY <2>1, <2>5 DEF Enc
    <3> QED BY <2>2, <2>5, <3>1 DEF Enc, Copies, Decrypts
  <2>6. ASSUME NEW q \in Present', <<Challenge(q), Kind(q)>> \notin torn'
        PROVE  disk'[q] = Whole \/ (q \in Enc' /\ ~(disk'[q] # Layers(q)))
    <3>1. CASE q = Inner(p)
      <4>1. <<Challenge(p), Kind(p)>> \notin torn'
        BY <1>4, <2>6, <3>1 DEF Left
      <4>2. disk[p] = Whole
        BY <1>0, <1>4, <2>1, <4>1 DEF Copies
      <4>3. disk'[Inner(p)] # 0
        BY <1>4, <2>1, <4>1, <4>2 DEF Whole
      <4> QED BY <2>2, <3>1, <4>2, <4>3
    <3>2. CASE q # Inner(p)
      BY <1>0, <2>2, <2>6, <3>2 DEF Enc, Copies, Decrypts
    <3> QED BY <3>1, <3>2
  <2> QED BY <2>3, <2>4, <2>5, <2>6 DEF Copies, Decrypts
<1> QED BY <1>1, <1>2, <1>4, CrashStep

LEMMA CopiesNext ==
  ASSUME FilesTypes, Copies, Progress, Next
  PROVE  Copies'
<1>1. CASE disk' = disk /\ torn' = torn
  BY <1>1 DEF Copies, Present, Enc, Decrypts
<1>2. CASE EncryptFile \/ DecryptFile \/ Crash
  BY <1>2, CopiesEncrypt, CopiesDecrypt, CopiesCrash
<1> QED BY <1>1, <1>2 DEF Next, StartProcess, StartRun, EndProcess,
           Command, OpenDir, DecryptThrows, FinishOp, Setup, Solve, Grade, CatchTeardown

-----------------------------------------------------------------------------
(* How far a run has come.                                                 *)

ReadmesOf(cs) == \A c \in cs : HasReadme(c)

LEMMA SameFiles ==
  ASSUME disk' = disk
  PROVE  /\ Enc' = Enc /\ Plain' = Plain
         /\ \A c : HasReadme(c) <=> HasReadme(c)'
         /\ current' = current => OwnEnc' = OwnEnc /\ (Readable <=> Readable')
         /\ current' = current /\ dirs' = dirs => Opened(Enc)' = Opened(Enc)
         /\ \A p : Decrypts(p) <=> Decrypts(p)'
BY DEF Enc, Plain, Present, HasReadme, OwnEnc, Readable, Decrypts, Opened

LEMMA ProgressEncrypt ==
  ASSUME FilesTypes, Copies, Progress, EncryptFile
  PROVE  Progress'
<1>1. PICK p \in todo :
        /\ p \in Present /\ p \in Paths /\ Layers(p) \in Nat
        /\ Challenge(Outer(p)) = Challenge(p)
        /\ Kind(Outer(p)) = Kind(p)
        /\ Layers(Outer(p)) = Layers(p) + 1
        /\ Outer(p) # p
        /\ Present' = (Present \cup {Outer(p)}) \ {p}
        /\ disk'[Outer(p)] = disk[p]
        /\ disk[p] # Layers(Outer(p))
        /\ \A q \in Present \ {p, Outer(p)} : disk'[q] = disk[q]
        /\ todo' = todo \ {p}
  BY EncryptStep
<1>2. pc \in {"encrypt", "encryptOthers"} /\ UNCHANGED <<pc, current, dirs, queue>>
  BY DEF EncryptFile, EncryptOps, Progress
<1>3. p # <<current, "readme", 0>>
  BY <1>1, <1>2 DEF FilesTypes, Scope, OtherOps, Loose, Challenge, Kind
<1>4. HasReadme(current)'
  BY <1>1, <1>2, <1>3 DEF Progress, HasReadme
<1>5. ASSUME pc = "encrypt", NEW c \in queue
      PROVE  HasReadme(c)'
  <2>1. p # <<c, "readme", 0>>
    BY <1>5 DEF FilesTypes, Scope, OtherOps, Loose, Kind
  <2> QED BY <1>1, <1>5, <2>1 DEF Progress, HasReadme
<1>6. pc = "encrypt" => dirs = {}
  BY <1>1 DEF FilesTypes, Scope, OwnOps
<1>7. pc = "encrypt" => \A q \in todo' : Layers(q) = 0
  BY <1>1 DEF Progress
<1>8. ASSUME NEW q \in OwnEnc'
      PROVE  Kind(q) # "source" /\ Decrypts(q)'
  <2>1. q \in Present' /\ Layers(q) > 0 /\ Challenge(q) = current /\ Kind(q) \notin Loose
    BY <1>2, <1>8 DEF OwnEnc, Enc
  <2>2. CASE q = Outer(p)
    <3>1. pc = "encrypt"
      BY <1>1, <1>2, <2>1, <2>2 DEF FilesTypes, Scope, OtherOps
    <3>2. Kind(p) \in Protected
      BY <3>1 DEF FilesTypes, Scope
    <3> QED BY <1>1, <2>2, <3>2 DEF Decrypts, Protected
  <2>3. CASE q # Outer(p)
    <3>1. q \in Present /\ q # p /\ disk'[q] = disk[q]
      BY <1>1, <2>1, <2>3
    <3>2. q \in OwnEnc
      BY <2>1, <3>1 DEF OwnEnc, Enc
    <3> QED BY <1>2, <3>1, <3>2 DEF Progress, Rewriting, Decrypts
  <2> QED BY <2>2, <2>3
<1> QED BY <1>2, <1>4, <1>5, <1>6, <1>7, <1>8 DEF Progress, Rewriting, Restoring

LEMMA ProgressDecrypt ==
  ASSUME FilesTypes, Copies, Progress, DecryptFile
  PROVE  Progress'
<1>1. PICK p \in todo :
        /\ p \in Present /\ p \in Paths /\ Layers(p) \in Nat /\ Layers(p) > 0
        /\ Layers(Inner(p)) = Layers(p) - 1
        /\ Inner(p) # p
        /\ Present' = (Present \cup {Inner(p)}) \ {p}
        /\ \A q \in Present \ {p, Inner(p)} : disk'[q] = disk[q]
        /\ todo' = todo \ {p}
  BY DecryptStep
<1>2. pc \in DecryptOps \ {"cliDecrypt"} /\ UNCHANGED <<pc, current, dirs, queue>>
  BY DEF DecryptFile, Progress
<1>3. Layers(p) = 1 /\ Layers(Inner(p)) = 0
  BY <1>1 DEF Copies
<1>4. \A c : HasReadme(c) => HasReadme(c)'
  BY <1>1, <1>3 DEF HasReadme, Layers
<1>5. Enc' = Enc \ {p} /\ \A q \in Enc' : disk'[q] = disk[q]
  BY <1>1, <1>3 DEF Enc
<1>6. OwnEnc' = OwnEnc \ {p} /\ Opened(Enc)' = Opened(Enc) \ {p}
  BY <1>2, <1>5 DEF OwnEnc, Opened
<1>7. Readable => Readable'
  BY <1>2, <1>5 DEF Readable, Decrypts
<1> QED BY <1>1, <1>2, <1>4, <1>5, <1>6, <1>7
        DEF Progress, Rewriting, Restoring, DecryptOps

LEMMA ProgressOpen ==
  ASSUME FilesTypes, Copies, Progress, OpenDir
  PROVE  Progress'
<1>1. PICK c \in dirs : dirs' = dirs \ {c} /\ todo' = Listing(pc, c)
  BY DEF OpenDir
<1>2. /\ pc \in Ops /\ todo = {} /\ disk' = disk
      /\ UNCHANGED <<pc, current, queue>>
  BY DEF OpenDir
<1>3. /\ Enc' = Enc /\ OwnEnc' = OwnEnc /\ (Readable <=> Readable')
      /\ \A d : HasReadme(d) <=> HasReadme(d)'
      /\ \A p : Decrypts(p) <=> Decrypts(p)'
  BY <1>2, SameFiles
<1>4. pc \in OwnOps => c = current /\ dirs' = {}
  BY <1>1 DEF FilesTypes, Scope
<1>5. pc \in {"decrypt", "restore", "catchOwn"} => OwnEnc \subseteq todo'
  <2>1. OwnEnc \subseteq EncryptedFiles(current)
    BY PresentChallenge DEF OwnEnc, Enc, EncryptedFiles, In, Kinds, Loose, FilesTypes
  <2> QED BY <1>1, <1>4, <2>1 DEF OwnOps, Listing
<1>6. ASSUME pc = "encrypt" PROVE \A p \in todo' : Layers(p) = 0
  <2>1. OwnEnc = {}
    BY <1>1, <1>6 DEF Progress
  <2>2. todo' = SensitiveFiles(current)
    BY <1>1, <1>4, <1>6 DEF OwnOps, Listing
  <2>3. ASSUME NEW p \in SensitiveFiles(current) PROVE Layers(p) = 0
    <3>1. p \in Present /\ Challenge(p) = current /\ (Layers(p) = 0 \/ Kind(p) = "helper")
      BY DEF SensitiveFiles, In
    <3>2. Layers(p) \in Nat
      BY <3>1, PresentChallenge DEF FilesTypes
    <3> QED BY <2>1, <3>1, <3>2 DEF OwnEnc, Enc, Loose
  <2> QED BY <2>2, <2>3
<1>7. ASSUME pc \in {"restoreOthers", "catchOthers"}
      PROVE  Opened(Enc)' \subseteq todo'
  <2>1. Opened(Enc) = {}
    BY <1>2, <1>7 DEF Progress
  <2>2. todo' = AllEncFiles(c)
    BY <1>1, <1>7 DEF Listing
  <2> QED BY <1>1, <1>2, <1>3, <2>1, <2>2 DEF Opened, AllEncFiles, In, Enc
<1> QED BY <1>2, <1>3, <1>4, <1>5, <1>6, <1>7
        DEF Progress, Rewriting, Restoring, Ops, EncryptOps, DecryptOps, OwnOps

(* A challenge of which nothing is encrypted has its README.md.            *)
LEMMA PlainReadme ==
  ASSUME Copies, NEW c \in Challenges, \A p \in Enc : Challenge(p) # c
  PROVE  HasReadme(c)
<1>1. <<c, "readme">> \in Files
  BY FilesAssumption
<1>2. /\ Copy(<<c, "readme">>, 0) = <<c, "readme", 0>>
      /\ Layers(Copy(<<c, "readme">>, 1)) = 1
      /\ Challenge(Copy(<<c, "readme">>, 1)) = c
  BY DEF Copy, Layers, Challenge
<1>3. Copy(<<c, "readme">>, 1) \notin Present
  BY <1>2 DEF Enc
<1> QED BY <1>1, <1>2, <1>3 DEF Copies, HasReadme

LEMMA ProgressFinish ==
  ASSUME FilesTypes, Hiding, Copies, Progress, FinishOp
  PROVE  Progress'
<1>1. /\ pc \in Ops /\ dirs = {} /\ todo = {} /\ disk' = disk /\ todo' = {}
      /\ UNCHANGED <<current, queue>>
  BY DEF FinishOp, Begin
<1>2. /\ Enc' = Enc /\ OwnEnc' = OwnEnc /\ (Readable <=> Readable')
      /\ \A d : HasReadme(d) <=> HasReadme(d)'
      /\ \A p : Decrypts(p) <=> Decrypts(p)'
  BY <1>1, SameFiles
<1>d. DiskTypes /\ queue \subseteq Challenges /\ current \in Challenges
  BY DEF FilesTypes, WorkTypes
<1>o. Others(current) = Challenges \ {current}
  BY OthersAll DEF Hiding, DirsStay
<1>e. dirs' = Others(current) => Opened(Enc)' = {}
  BY <1>d, <1>o, <1>1, <1>2, PresentChallenge DEF Opened, Enc
<1>3. CASE pc = "decrypt" /\ Begin("setup", {})
  <2>1. OwnEnc = {} /\ ReadmesOf(queue) /\ HasReadme(current)
    BY <1>1, <1>3 DEF Progress, ReadmesOf
  <2>2. pc' = "setup" /\ dirs' = {}
    BY <1>3 DEF Begin
  <2> QED BY <1>1, <1>2, <2>1, <2>2 DEF Progress, Rewriting, Restoring, ReadmesOf
<1>4. CASE pc = "encrypt" /\ Begin("encryptOthers", Others(current))
  BY <1>1, <1>2, <1>4 DEF Begin, Progress, Rewriting, Restoring
<1>5. CASE pc = "encryptOthers" /\ Begin("solving", {})
  <2>1. ASSUME NEW p \in Enc, ~(Challenge(p) = current /\ Kind(p) \in Loose), ~Decrypts(p)
        PROVE  FALSE
    <3>1. p \in Present /\ Layers(p) > 0 /\ Layers(p) <= 1
      BY <2>1 DEF Enc, Copies
    <3>2. Challenge(p) # current
      BY <1>5, <2>1 DEF Progress, Rewriting, OwnEnc
    <3>3. p \in Paths /\ Layers(p) \in Nat /\ Inner(p) \in Present
      BY <1>d, <2>1, <3>1, PresentChallenge DEF Copies
    <3>4. Challenge(Inner(p)) = Challenge(p) /\ Layers(Inner(p)) = 0
      BY <3>1, <3>3, InnerPath
    <3>5. Inner(p) \in Opened(Plain)
      BY <1>1, <3>2, <3>3, <3>4 DEF Opened, Plain
    <3> QED BY <1>1, <1>5, <3>5 DEF Hiding
  <2>2. Readable
    BY <2>1 DEF Readable
  <2> QED BY <1>1, <1>2, <1>5, <2>2 DEF Begin, Progress, Rewriting, Restoring
<1>6. CASE pc = "restore" /\ Begin("restoreAgain", {current})
  <2>1. OwnEnc = {} /\ Readable /\ HasReadme(current)
    BY <1>1, <1>6 DEF Progress, Restoring
  <2> QED BY <1>1, <1>2, <1>6, <2>1 DEF Begin, Progress, Rewriting, Restoring
<1>7. CASE pc = "restoreAgain" /\ Begin("restoreOthers", Others(current))
  <2>1. OwnEnc = {} /\ Readable /\ HasReadme(current)
    BY <1>1, <1>7 DEF Progress, Restoring
  <2>2. pc' = "restoreOthers" /\ dirs' = Others(current)
    BY <1>7 DEF Begin
  <2> QED BY <1>1, <1>2, <1>e, <2>1, <2>2 DEF Progress, Rewriting, Restoring
<1>8. CASE pc = "restoreOthers" /\ Begin("grading", {})
  <2>1. OwnEnc = {} /\ Readable /\ HasReadme(current) /\ Opened(Enc) = {}
    BY <1>1, <1>8 DEF Progress, Restoring
  <2>2. \A p \in Enc : Challenge(p) = current
    BY <1>1, <2>1 DEF Opened
  <2> QED BY <1>1, <1>2, <1>8, <2>1, <2>2 DEF Begin, Progress, Rewriting, Restoring
<1>9. CASE pc = "catchOwn" /\ Begin("catchOthers", Others(current))
  <2>1. (Readable \/ ReadmesOf(queue)) /\ HasReadme(current)
    BY <1>9 DEF Progress, ReadmesOf
  <2>2. pc' = "catchOthers" /\ dirs' = Others(current)
    BY <1>9 DEF Begin
  <2> QED BY <1>1, <1>2, <1>e, <2>1, <2>2 DEF Progress, Rewriting, Restoring, ReadmesOf
<1>10. CASE pc = "catchOthers" /\ Begin("catchTeardown", {})
  <2>1. Opened(Enc) = {} /\ HasReadme(current)
    BY <1>1, <1>10 DEF Progress
  <2>2. \A p \in Enc : Challenge(p) = current
    BY <1>1, <2>1 DEF Opened
  <2>3. ReadmesOf(queue)
    BY <1>d, <2>1, <2>2, PlainReadme DEF ReadmesOf
  <2> QED BY <1>1, <1>2, <1>10, <2>1, <2>3
          DEF Begin, Progress, Rewriting, Restoring, ReadmesOf
<1> QED BY <1>3, <1>4, <1>5, <1>6, <1>7, <1>8, <1>9, <1>10 DEF FinishOp, Progress

LEMMA ProgressThrows ==
  ASSUME FilesTypes, Hiding, Copies, Progress, DecryptThrows
  PROVE  Progress'
<1>1. /\ disk' = disk /\ todo' = {} /\ UNCHANGED <<current, queue>>
  BY DEF DecryptThrows, Begin
<1>2. /\ Enc' = Enc /\ OwnEnc' = OwnEnc /\ (Readable <=> Readable')
      /\ \A d : HasReadme(d) <=> HasReadme(d)'
  BY <1>1, SameFiles
<1>d. DiskTypes /\ todo \subseteq Present /\ HasReadme(current)
  BY DEF FilesTypes, WorkTypes, Progress
<1>o. Others(current) = Challenges \ {current}
  BY OthersAll DEF Hiding, DirsStay
<1>e. dirs' = Others(current) => Opened(Enc)' = {}
  BY <1>d, <1>o, <1>1, <1>2, PresentChallenge DEF Opened, Enc
<1>3. CASE pc = "catchOwn"
  <2>1. pc' = "catchOthers" /\ dirs' = Others(current)
    BY <1>3 DEF DecryptThrows, Begin
  <2>2. Readable \/ ReadmesOf(queue)
    BY <1>3 DEF Progress, ReadmesOf
  <2> QED BY <1>1, <1>2, <1>d, <1>e, <2>1, <2>2 DEF Progress, Rewriting, Restoring,
          ReadmesOf
<1>4. CASE pc = "catchOthers"
  <2>1. pc' = "catchTeardown"
    BY <1>4 DEF DecryptThrows, Begin
  <2>2. PICK p \in todo : ~Decrypts(p)
    BY DEF DecryptThrows
  <2>3. p \in Enc /\ Challenge(p) # current
    BY <1>4, <1>d, <2>2 DEF FilesTypes, Scope, OtherOps, DecryptOps, Enc
  <2>4. ReadmesOf(queue)
    BY <1>4, <2>2, <2>3 DEF Progress, Readable, ReadmesOf
  <2> QED BY <1>1, <1>2, <1>d, <2>1, <2>4 DEF Progress, Rewriting, Restoring, ReadmesOf
<1>5. CASE pc \in {"decrypt", "restore", "restoreAgain", "restoreOthers"}
  <2>1. pc' = "catchOwn" /\ dirs' = {current}
    BY <1>5 DEF DecryptThrows, Begin
  <2>2. Readable \/ ReadmesOf(queue)
    BY <1>5 DEF Progress, Restoring, ReadmesOf
  <2> QED BY <1>1, <1>2, <1>d, <2>1, <2>2 DEF Progress, Rewriting, Restoring, ReadmesOf
<1> QED BY <1>3, <1>4, <1>5 DEF DecryptThrows, DecryptOps, Progress

(* A graded run leaves nothing encrypted but perhaps what a kill hid of    *)
(* its own challenge, for the next run of another one to bring back.       *)
LEMMA ProgressGrade ==
  ASSUME FilesTypes, Copies, Progress, Grade
  PROVE  Progress'
<1>1. /\ pc = "grading" /\ disk' = disk /\ todo' = {} /\ UNCHANGED <<current, queue>>
  BY DEF Grade, Begin
<1>2. /\ Enc' = Enc /\ OwnEnc' = OwnEnc /\ (Readable <=> Readable')
      /\ \A d : HasReadme(d) <=> HasReadme(d)'
  BY <1>1, SameFiles
<1>3. Readable /\ HasReadme(current) /\ \A p \in Enc : Challenge(p) = current
  BY <1>1 DEF Progress, Restoring
<1>4. ReadmesOf(queue)
  BY <1>3, PlainReadme DEF ReadmesOf, FilesTypes, WorkTypes
<1>5. pc' = "ready" \/ (pc' = "catchOwn" /\ dirs' = {current})
  BY DEF Grade, Begin
<1> QED BY <1>1, <1>2, <1>3, <1>4, <1>5 DEF Progress, Rewriting, Restoring, ReadmesOf

LEMMA ProgressNext ==
  ASSUME FilesTypes, Hiding, Copies, Progress, Next, ~Command
  PROVE  Progress'
<1>1. CASE StartProcess
  <2>1. /\ disk' = disk /\ current' = current /\ pc' = "ready"
        /\ \A c \in queue' : HasReadme(c)
    BY <1>1 DEF StartProcess
  <2> QED BY <2>1, SameFiles DEF Progress, Rewriting, Restoring
<1>2. CASE StartRun
  <2>1. /\ disk' = disk /\ pc = "ready" /\ current' \in queue /\ queue' \subseteq queue
        /\ pc' \in {"decrypt", "catchOwn"} /\ dirs' # {} /\ todo' = {}
    BY <1>2 DEF StartRun, Begin
  <2>2. HasReadme(current') /\ ReadmesOf(queue')
    BY <2>1 DEF Progress, ReadmesOf
  <2>3. \A c : HasReadme(c) <=> HasReadme(c)'
    BY <2>1, SameFiles
  <2>4. HasReadme(current)'
    BY <2>1, <2>2 DEF HasReadme, Present
  <2> QED BY <2>1, <2>2, <2>3, <2>4 DEF Progress, Rewriting, Restoring, ReadmesOf
<1>3. CASE EndProcess
  <2>1. disk' = disk /\ current' = current /\ pc' = "idle"
    BY <1>3 DEF EndProcess
  <2> QED BY <2>1, SameFiles DEF Progress, Rewriting, Restoring
<1>4. CASE Setup
  <2>1. /\ pc = "setup" /\ disk' = disk /\ current' = current /\ queue' = queue
        /\ todo' = {} /\ dirs' = {current} /\ pc' \in {"encrypt", "catchOwn"}
    BY <1>4 DEF Setup, Begin
  <2>2. OwnEnc' = OwnEnc /\ \A c : HasReadme(c) <=> HasReadme(c)'
    BY <2>1, SameFiles
  <2> QED BY <2>1, <2>2 DEF Progress, Rewriting, Restoring
<1>5. CASE Solve
  <2>1. /\ pc = "solving" /\ disk' = disk /\ current' = current /\ queue' = queue
        /\ todo' = {} /\ dirs' = {current} /\ pc' \in {"restore", "catchOwn"}
    BY <1>5 DEF Solve, Begin
  <2>2. (Readable <=> Readable') /\ \A c : HasReadme(c) <=> HasReadme(c)'
    BY <2>1, SameFiles
  <2> QED BY <2>1, <2>2 DEF Progress, Rewriting, Restoring
<1>6. CASE CatchTeardown
  <2>1. /\ pc = "catchTeardown" /\ disk' = disk /\ current' = current
        /\ queue' = queue /\ pc' = "ready"
    BY <1>6 DEF CatchTeardown, Begin
  <2>2. \A c : HasReadme(c) <=> HasReadme(c)'
    BY <2>1, SameFiles
  <2> QED BY <2>1, <2>2 DEF Progress, Rewriting, Restoring
<1>7. CASE Crash
  <2>1. Present \subseteq Present' /\ current' = current /\ pc' = "idle"
    BY <1>7, CrashStep DEF Left, Crash, Begin, Present
  <2>2. HasReadme(current)'
    BY <2>1 DEF Progress, HasReadme
  <2> QED BY <2>1, <2>2 DEF Progress, Rewriting, Restoring
<1> QED BY <1>1, <1>2, <1>3, <1>4, <1>5, <1>6, <1>7, ProgressOpen, ProgressEncrypt,
           ProgressDecrypt, ProgressThrows, ProgressFinish, ProgressGrade DEF Next

LEMMA RecoveryNext ==
  ASSUME FilesTypes, Hiding, Recovery, Next
  PROVE  Recovery'
<1> SUFFICES ASSUME commands' = 0 PROVE Copies' /\ Progress'
  BY DEF Recovery
<1>1. commands = 0 /\ ~Command
  BY CommandsStay
<1> QED BY <1>1, CopiesNext, ProgressNext DEF Recovery

-----------------------------------------------------------------------------
(* Without a kill.                                                         *)

LEMMA CrashesStay ==
  ASSUME FilesTypes, Next, crashes' = 0
  PROVE  crashes = 0 /\ ~Crash
<1>1. ASSUME Crash PROVE FALSE
  <2>1. crashes' = crashes + 1 /\ crashes \in Nat
    BY <1>1 DEF Crash, FilesTypes, WorkTypes
  <2> QED BY <2>1
<1> QED BY <1>1 DEF Next, StartProcess, StartRun, EndProcess, Command, OpenDir,
           EncryptFile, DecryptFile, DecryptThrows, FinishOp, Setup, Solve, Grade,
           CatchTeardown

LEMMA SameIntact ==
  ASSUME IntactNow, disk' = disk
  PROVE  /\ \A p \in Present' : disk'[p] = Whole
         /\ Enc' = Enc
         /\ current' = current => OwnEnc' = OwnEnc
BY DEF IntactNow, Present, Enc, OwnEnc

LEMMA IntactEncrypt ==
  ASSUME FilesTypes, Copies, Progress, IntactNow, EncryptFile
  PROVE  IntactNow'
<1>1. PICK p \in todo :
        /\ p \in Present
        /\ Challenge(Outer(p)) = Challenge(p)
        /\ Kind(Outer(p)) = Kind(p)
        /\ Present' = (Present \cup {Outer(p)}) \ {p}
        /\ disk'[Outer(p)] = disk[p]
        /\ \A q \in Present \ {p, Outer(p)} : disk'[q] = disk[q]
  BY EncryptStep
<1>2. pc \in {"encrypt", "encryptOthers"} /\ UNCHANGED <<pc, current, up, refused>>
  BY DEF EncryptFile, EncryptOps, Progress
<1>3. \A q \in Present' : disk'[q] = Whole
  BY <1>1 DEF IntactNow
<1>4. Challenge(p) = current => Kind(p) \in Protected
  BY <1>2 DEF FilesTypes, Scope, OtherOps
<1>5. \A q \in Enc' : Challenge(q) = current => Kind(q) \in Protected
  BY <1>1, <1>4 DEF IntactNow, Enc
<1> QED BY <1>2, <1>3, <1>5 DEF IntactNow

LEMMA IntactDecrypt ==
  ASSUME FilesTypes, Copies, Progress, IntactNow, DecryptFile
  PROVE  IntactNow'
<1>1. PICK p \in todo :
        /\ p \in Present /\ Layers(p) \in Nat /\ Layers(p) > 0
        /\ Layers(Inner(p)) = Layers(p) - 1
        /\ Inner(p) # p
        /\ Present' = (Present \cup {Inner(p)}) \ {p}
        /\ disk'[Inner(p)] = disk[p]
        /\ \A q \in Present \ {p, Inner(p)} : disk'[q] = disk[q]
  BY DecryptStep
<1>2. pc \in DecryptOps /\ UNCHANGED <<pc, current, up, refused>>
  BY DEF DecryptFile
<1>3. Layers(p) = 1 /\ Layers(Inner(p)) = 0
  BY <1>1 DEF Copies
<1>4. \A q \in Present' : disk'[q] = Whole
  BY <1>1 DEF IntactNow
<1>6. Enc' = Enc \ {p}
  BY <1>1, <1>3 DEF Enc
<1>7. OwnEnc' = OwnEnc \ {p}
  BY <1>2, <1>6 DEF OwnEnc
<1> QED BY <1>2, <1>4, <1>6, <1>7 DEF IntactNow

(* With nothing protected of the challenge left encrypted, its teardown is *)
(* there to run; the setup then stays only if it fails.                    *)
LEMMA TeardownRuns ==
  ASSUME FilesTypes, Copies, OwnEnc = {}, up \subseteq {current} \cup refused, Teardown
  PROVE  up' \subseteq refused'
<1>1. CASE current \notin up
  BY <1>1 DEF Teardown
<1>2. CASE current \in up
  <2>1. current \in HasSetup
    BY <1>2 DEF FilesTypes, WorkTypes
  <2>2. <<current, "private">> \in Files
    BY <2>1, FilesAssumption
  <2>3. /\ Copy(<<current, "private">>, 0) = <<current, "private", 0>>
        /\ Layers(Copy(<<current, "private">>, 1)) = 1
        /\ Challenge(Copy(<<current, "private">>, 1)) = current
        /\ Kind(Copy(<<current, "private">>, 1)) = "private"
    BY DEF Copy, Layers, Challenge, Kind
  <2>4. Copy(<<current, "private">>, 1) \notin Present
    BY <2>3 DEF OwnEnc, Enc, Loose
  <2>5. <<current, "private", 0>> \in Present
    BY <2>2, <2>3, <2>4 DEF Copies
  <2> QED BY <1>2, <2>5 DEF Teardown
<1> QED BY <1>1, <1>2

(* Nothing else was encrypted in the challenge that is run.                *)
LEMMA NoneEncrypted ==
  ASSUME IntactNow, OwnEnc = {}, \A p \in Enc : Challenge(p) = current
  PROVE  Enc = {}
BY DEF IntactNow, OwnEnc, Protected, Loose

LEMMA IntactNext ==
  ASSUME FilesTypes, Hiding, Copies, Progress, IntactNow, Next, ~Crash, ~Command
  PROVE  IntactNow'
<1>0. pc \notin {"cliEncrypt", "cliDecrypt", "decrypted"} /\ HasReadme(current)
  BY DEF Progress
<1>1. CASE StartProcess \/ EndProcess
  <2>1. /\ disk' = disk /\ UNCHANGED <<current, up, refused>> /\ pc' \in {"idle", "ready"}
        /\ pc \in {"idle", "ready"}
    BY <1>0, <1>1 DEF StartProcess, EndProcess, Idle
  <2> QED BY <2>1, SameIntact DEF IntactNow
<1>2. CASE StartRun
  <2>1. /\ disk' = disk /\ UNCHANGED <<up, refused>>
        /\ pc' \in {"decrypt", "catchOwn"} /\ pc = "ready"
    BY <1>2 DEF StartRun, Begin
  <2>2. up' \subseteq refused' /\ Enc' = {}
    BY <2>1, SameIntact DEF IntactNow
  <2> QED BY <2>1, <2>2, SameIntact DEF IntactNow
<1>3. CASE OpenDir
  <2>1. disk' = disk /\ UNCHANGED <<pc, current, up, refused>>
    BY <1>3 DEF OpenDir
  <2> QED BY <2>1, SameIntact DEF IntactNow
<1>4. CASE DecryptThrows
  <2>1. PICK p \in todo : ~Decrypts(p)
    BY <1>4 DEF DecryptThrows
  <2>2. p \in Present /\ Layers(p) \in Nat
    BY <2>1, PresentChallenge DEF FilesTypes, WorkTypes
  <2>3. disk[p] = Whole
    BY <2>2 DEF IntactNow
  <2> QED BY <2>1, <2>2, <2>3 DEF Decrypts, Whole
<1>5. CASE FinishOp
  <2>1. /\ disk' = disk /\ UNCHANGED <<current, up, refused>> /\ dirs = {} /\ todo = {}
    BY <1>5 DEF FinishOp
  <2>2. CASE pc' = "setup"
    <3>1. pc = "decrypt"
      BY <1>5, <2>2 DEF FinishOp, Begin
    <3> QED BY <2>1, <2>2, <3>1, SameIntact DEF IntactNow
  <2>3. CASE pc' = "catchOthers"
    <3>1. pc = "catchOwn"
      BY <1>5, <2>3 DEF FinishOp, Begin
    <3>2. OwnEnc = {}
      BY <2>1, <3>1 DEF Progress
    <3> QED BY <2>1, <2>3, <3>2, SameIntact DEF IntactNow
  <2>4. CASE pc' = "catchTeardown"
    <3>1. pc = "catchOthers"
      BY <1>5, <2>4 DEF FinishOp, Begin
    <3>2. OwnEnc = {} /\ Opened(Enc) = {}
      BY <2>1, <3>1 DEF Progress, IntactNow
    <3>3. \A p \in Enc : Challenge(p) = current
      BY <2>1, <3>2 DEF Opened
    <3>4. Enc = {}
      BY <3>2, <3>3, NoneEncrypted
    <3> QED BY <2>1, <2>4, <3>4, SameIntact DEF IntactNow
  <2>5. pc' \notin {"idle", "decrypted", "ready", "decrypt"}
    BY <1>0, <1>5 DEF FinishOp, Begin
  <2> QED BY <2>1, <2>2, <2>3, <2>4, <2>5, SameIntact DEF IntactNow
<1>6. CASE Setup
  <2>1. /\ disk' = disk /\ current' = current /\ up' \subseteq up \cup {current}
        /\ refused' = refused \ {current}
        /\ pc' \in {"encrypt", "catchOwn"}
    BY <1>6 DEF Setup, Begin
  <2> QED BY <2>1, SameIntact DEF IntactNow
<1>7. CASE Solve
  <2>1. disk' = disk /\ UNCHANGED <<current, up, refused>> /\ pc' \in {"restore", "catchOwn"}
    BY <1>7 DEF Solve, Begin
  <2> QED BY <2>1, SameIntact DEF IntactNow
<1>8. CASE Grade
  <2>1. /\ pc = "grading" /\ disk' = disk /\ current' = current /\ Teardown
        /\ pc' \in {"ready", "catchOwn"}
    BY <1>8 DEF Grade, Begin
  <2>2. OwnEnc = {} /\ \A p \in Enc : Challenge(p) = current
    BY <2>1 DEF Progress
  <2>3. Enc = {} /\ up' \subseteq refused'
    BY <2>1, <2>2, NoneEncrypted, TeardownRuns DEF IntactNow
  <2> QED BY <2>1, <2>3, SameIntact DEF IntactNow
<1>9. CASE CatchTeardown
  <2>1. /\ pc = "catchTeardown" /\ disk' = disk /\ current' = current
        /\ Teardown /\ pc' = "ready"
    BY <1>9 DEF CatchTeardown, Begin
  <2>2. Enc = {} /\ OwnEnc = {}
    BY <2>1 DEF IntactNow, OwnEnc
  <2>3. up' \subseteq refused'
    BY <2>1, <2>2, TeardownRuns DEF IntactNow
  <2> QED BY <2>1, <2>2, <2>3, SameIntact DEF IntactNow
<1> QED BY <1>1, <1>2, <1>3, <1>4, <1>5, <1>6, <1>7, <1>8, <1>9, IntactEncrypt,
           IntactDecrypt DEF Next

-----------------------------------------------------------------------------
(* The inductive invariant.                                                *)

LEMMA FilesInvInit == Init => FilesInv
<1> SUFFICES ASSUME Init PROVE FilesInv
  OBVIOUS
<1>1. FilesTypes
  BY FilesTypesInit
<1>2. disk = PlainDisk /\ pc = "idle" /\ current \in Challenges /\ up = {}
  BY DEF Init
<1>3. Present = {Copy(f, 0) : f \in Files}
  BY <1>2, PlainDiskPaths DEF Present
<1>4. \A p \in Present : disk[p] = Whole /\ p \in Paths /\ Layers(p) = 0
  BY <1>2, PlainDiskPaths DEF Present
<1>5. Enc = {}
  BY <1>4 DEF Enc
<1>6. \A c \in Challenges : HasReadme(c)
  <2>1. TAKE c \in Challenges
  <2>2. <<c, "readme">> \in Files /\ Copy(<<c, "readme">>, 0) = <<c, "readme", 0>>
    BY FilesAssumption DEF Copy
  <2> QED BY <1>3, <2>2 DEF HasReadme
<1>7. Hiding
  BY <1>2, <1>6 DEF Hiding, ChallengeDir
<1>8. Copies
  BY <1>3, <1>4, <1>5 DEF Copies
<1>9. Progress
  BY <1>2, <1>6 DEF Progress, Rewriting, Restoring
<1>10. Intact
  BY <1>2, <1>4, <1>5 DEF Intact, IntactNow
<1> QED BY <1>1, <1>7, <1>8, <1>9, <1>10 DEF FilesInv, Recovery

LEMMA FilesInvNext == FilesInv /\ [Next]_vars => FilesInv'
<1> SUFFICES ASSUME FilesInv, [Next]_vars PROVE FilesInv'
  OBVIOUS
<1>1. FilesTypes'
  BY FilesTypesNext DEF FilesInv
<1>2. CASE Next
  <2>1. Hiding' /\ Recovery'
    BY <1>2, HidingNext, RecoveryNext DEF FilesInv
  <2>2. ASSUME crashes' = 0, commands' = 0 PROVE IntactNow'
    <3>1. crashes = 0 /\ commands = 0 /\ ~Crash /\ ~Command
      BY <1>2, <2>2, CrashesStay, CommandsStay DEF FilesInv
    <3>2. Copies /\ Progress /\ IntactNow
      BY <3>1 DEF FilesInv, Recovery, Intact
    <3> QED BY <1>2, <3>1, <3>2, IntactNext DEF FilesInv
  <2>3. Intact'
    BY <2>2 DEF Intact
  <2> QED BY <1>1, <2>1, <2>3 DEF FilesInv
<1>3. CASE UNCHANGED vars
  <2>1. UNCHANGED <<disk, pc, current, queue, dirs, todo, up, refused, torn, crashes,
                  commands>>
    BY <1>3 DEF vars
  <2>2. Present' = Present /\ Plain' = Plain /\ Enc' = Enc /\ OwnEnc' = OwnEnc
        /\ OwnPlain' = OwnPlain /\ Opened(Plain)' = Opened(Plain)
        /\ Opened(Enc)' = Opened(Enc)
    BY <2>1 DEF Present, Plain, Enc, OwnEnc, OwnPlain, Opened
  <2>3. Hiding'
    BY <2>1, <2>2 DEF FilesInv, Hiding, ChallengeDir, HasReadme
  <2>4. Recovery'
    BY <2>1, <2>2 DEF FilesInv, Recovery, Copies, Progress, HasReadme, Readable, Decrypts
  <2>5. Intact'
    BY <2>1, <2>2 DEF FilesInv, Intact, IntactNow
  <2> QED BY <1>1, <2>3, <2>4, <2>5 DEF FilesInv
<1> QED BY <1>2, <1>3

(* Types, hiding, recovery and intactness hold of every reachable state.   *)
THEOREM FilesInvariant == Spec => []FilesInv
<1>1. Init => FilesInv
  BY FilesInvInit
<1>2. FilesInv /\ [Next]_vars => FilesInv'
  BY FilesInvNext
<1> QED BY <1>1, <1>2, PTL DEF Spec

-----------------------------------------------------------------------------
(* While the agent works it can read no file of another challenge and no   *)
(* protected file of its own, but its README.md and the sources it is given *)
(* (run-challenge between the encryption and the restore).  Where nothing  *)
(* was killed it has every other file of its challenge too, and no hidden  *)
(* setup is in place but its own and those whose teardown.sh failed.       *)
THEOREM SolverSeesTheorem == Spec => []SolverSees
<1>1. FilesInv => SolverSees
  <2> SUFFICES ASSUME FilesInv, pc = "solving" PROVE SolverSees
    BY DEF SolverSees
  <2>1. ASSUME NEW p \in Present, Layers(p) = 0
        PROVE  Challenge(p) = current /\ Kind(p) \notin Protected
    BY <2>1 DEF FilesInv, Hiding, Plain, OwnPlain
  <2>2. ASSUME commands = 0, NEW f \in Files, f[1] = current,
               f[2] \in {"readme", "source"} \/ (f[2] = "rest" /\ crashes = 0)
        PROVE  <<f[1], f[2], 0>> \in Present
    <3>1. Copies /\ Progress
      BY <2>2 DEF FilesInv, Recovery
    <3>2. CASE f[2] = "readme"
      BY <2>2, <3>1, <3>2 DEF Progress, HasReadme
    <3>3. CASE f[2] # "readme"
      <4>1. /\ Layers(Copy(f, 1)) = 1
            /\ Challenge(Copy(f, 1)) = current
            /\ Kind(Copy(f, 1)) = f[2]
        BY <2>2, CopyParts
      <4>2. ASSUME f[2] = "source" PROVE Copy(f, 1) \notin Present
        BY <3>1, <4>1, <4>2 DEF Progress, Rewriting, OwnEnc, Enc, Loose
      <4>3. ASSUME f[2] = "rest", crashes = 0 PROVE Copy(f, 1) \notin Present
        BY <2>2, <4>1, <4>3 DEF FilesInv, Intact, IntactNow, Enc, Protected
      <4>4. Copy(f, 1) \notin Present
        BY <2>2, <3>3, <4>2, <4>3
      <4> QED BY <3>1, <4>4 DEF Copies, Copy
    <3> QED BY <2>2, <3>2, <3>3
  <2>3. crashes = 0 /\ commands = 0 => up \subseteq {current} \cup refused
    BY DEF FilesInv, Intact, IntactNow
  <2> QED BY <2>1, <2>2, <2>3 DEF SolverSees
<1> QED BY <1>1, FilesInvariant, PTL

(* A process that is not killed leaves every file as it found it.          *)
THEOREM RestoredTheorem == Spec => []Restored
<1>1. FilesInv => Restored
  <2> SUFFICES ASSUME FilesInv, Idle \/ pc = "ready", crashes = 0, commands = 0
               PROVE  disk = PlainDisk
    BY DEF Restored
  <2>1. Copies /\ Enc = {} /\ \A p \in Present : disk[p] = Whole
    BY DEF FilesInv, Recovery, Intact, IntactNow, Idle
  <2>2. ASSUME NEW p \in Present PROVE p \in DOMAIN PlainDisk
    <3>1. p \in Paths /\ Layers(p) \in Nat /\ <<Challenge(p), Kind(p)>> \in Files
      BY PresentChallenge DEF FilesInv, FilesTypes
    <3>2. Layers(p) = 0
      BY <2>1, <3>1 DEF Enc
    <3> QED BY <3>1, <3>2, PlainCopy, PlainDiskPaths
  <2>3. ASSUME NEW f \in Files PROVE Copy(f, 0) \in Present
    BY <2>1, CopyParts DEF Copies, Enc
  <2>4. Present = DOMAIN PlainDisk
    BY <2>2, <2>3, PlainDiskPaths
  <2>5. disk = [p \in Present |-> disk[p]]
    BY DEF FilesInv, FilesTypes, DiskTypes
  <2>6. PlainDisk = [p \in DOMAIN PlainDisk |-> PlainDisk[p]]
    BY DEF PlainDisk
  <2> QED BY <2>1, <2>4, <2>5, <2>6, PlainDiskPaths
<1> QED BY <1>1, FilesInvariant, PTL

(* Grading reads plain private files, and leaves nothing of the other      *)
(* challenges encrypted, even on top of a kill.                            *)
THEOREM GradesPlaintextTheorem == Spec => []GradesPlaintext
<1>1. FilesInv => GradesPlaintext
  <2> SUFFICES ASSUME FilesInv, pc = "grading", commands = 0, NEW p \in Present,
                      Challenge(p) # current \/ Kind(p) \in Protected
               PROVE  Layers(p) = 0
    BY DEF GradesPlaintext
  <2>1. OwnEnc = {} /\ \A q \in Enc : Challenge(q) = current
    BY DEF FilesInv, Recovery, Progress
  <2>2. Layers(p) \in Nat
    BY PresentChallenge DEF FilesInv, FilesTypes
  <2> QED BY <2>1, <2>2 DEF OwnEnc, Enc, Protected, Loose
<1> QED BY <1>1, FilesInvariant, PTL

(* Every file has a whole copy, but one whose plaintext a kill cut short   *)
(* while decrypt-file! was writing it.                                     *)
THEOREM NothingLostTheorem == Spec => []NothingLost
<1>1. FilesInv => NothingLost
  <2> SUFFICES ASSUME FilesInv, commands = 0, NEW f \in Files \ torn
               PROVE  \E n \in 0..MaxLayers :
                        Copy(f, n) \in Present /\ disk[Copy(f, n)] = Whole
    BY DEF NothingLost, Copy
  <2>1. Copies
    BY DEF FilesInv, Recovery
  <2>2. 0 \in 0..MaxLayers /\ 1 \in 0..MaxLayers
    BY FilesAssumption
  <2>3. CASE Copy(f, 0) \in Present
    <3>1. Copy(f, 0) \notin Enc
      BY CopyParts DEF Enc
    <3>2. disk[Copy(f, 0)] = Whole
      BY <2>1, <2>3, <3>1, CopyParts DEF Copies
    <3> QED BY <2>2, <2>3, <3>2
  <2>4. CASE Copy(f, 0) \notin Present
    <3>1. Copy(f, 1) \in Present
      BY <2>1, <2>4 DEF Copies
    <3>2. Copy(f, 1) \in Enc
      BY <3>1, CopyParts DEF Enc
    <3>3. Inner(Copy(f, 1)) = Copy(f, 0)
      BY DEF Inner, Copy
    <3>4. Decrypts(Copy(f, 1))
      BY <2>1, <2>4, <3>2, <3>3 DEF Copies
    <3>5. disk[Copy(f, 1)] = Whole
      BY <2>1, <3>1, <3>4, CopyParts DEF Copies
    <3> QED BY <2>2, <3>1, <3>5
  <2> QED BY <2>3, <2>4
<1> QED BY <1>1, FilesInvariant, PTL

(* Some challenge always has its README.md: the one that ran last.         *)
THEOREM SomeChallengeRunnableTheorem == Spec => []SomeChallengeRunnable
<1>1. FilesInv => SomeChallengeRunnable
  BY DEF FilesInv, Recovery, Progress, FilesTypes, WorkTypes, SomeChallengeRunnable
<1> QED BY <1>1, FilesInvariant, PTL
=============================================================================
