--------------------------- MODULE ChallengeFiles ---------------------------
(***************************************************************************)
(* How scripts/run_challenges.bb hides challenge files from the solver     *)
(* with scripts/encrypt_challenges.bb, and brings them back.               *)
(*                                                                         *)
(* A runner process takes its challenges one after the other.  For each it *)
(* decrypts the challenge's own protected files, runs its hidden setup,    *)
(* encrypts those files and every file of every other challenge, lets the  *)
(* agent work, decrypts everything, grades and tears the setup down.       *)
(* Every file is rewritten on its own: a process killed anywhere leaves    *)
(* any mixture of plain and encrypted files for the next one.              *)
(*                                                                         *)
(* A file is its path and what its bytes are worth.  A path is a challenge,*)
(* a kind and the number of `.enc` suffixes.  Dot files, which the globs   *)
(* of encrypt-challenge! skip, and I/O errors are left out.                *)
(***************************************************************************)
EXTENDS Integers, FiniteSets

CONSTANTS
  Challenges,  \* directories under challenges/
  Files,       \* the files they hold: <<challenge, kind>>
  HasSetup,    \* challenges with reference_solution.sh and teardown.sh
  MaxLayers,   \* bound on the .enc suffixes of a path
  MaxCrashes,  \* bound on killed processes
  MaxCommands  \* bound on bb encrypt-challenges and bb decrypt-challenges

(* private: under a sensitive dir.  helper: under src/, `test` in its name.*)
(* source: the other files of src/.  rest: everything else of the challenge*)
(* but README.md (deps.edn, design.md, public-test-resources/), which only *)
(* the operations on every file of a challenge rewrite.                    *)
Kinds == {"readme", "rest", "source", "helper", "private"}
Protected == {"private", "helper"}

ASSUME FilesAssumption ==
  /\ Files \subseteq Challenges \X Kinds
  /\ HasSetup \subseteq Challenges
  /\ \A c \in Challenges : <<c, "readme">> \in Files
  /\ \A c \in HasSetup : <<c, "private">> \in Files
  /\ MaxLayers \in Nat \ {0}
  /\ MaxCrashes \in Nat
  /\ MaxCommands \in Nat

VARIABLES
  disk,     \* path -> the layer at which its bytes were cut short, or Whole
  pc,       \* where the process is
  current,  \* the challenge being run
  queue,    \* the challenges it has still to run
  dirs,     \* challenge directories the operation in hand has still to open
  todo,     \* paths it has still to rewrite in the one it opened
  up,       \* challenges whose hidden setup is in place
  refused,  \* history: those of them whose teardown.sh, run in the clear, failed
  torn,     \* files whose plaintext a crash cut short, ever
  crashes,  \* processes killed so far
  commands  \* bb commands issued so far

vars == <<disk, pc, current, queue, dirs, todo, up, refused, torn, crashes, commands>>

Whole == -1
Paths == {<<f[1], f[2], n>> : f \in Files, n \in 0..MaxLayers}

Challenge(p) == p[1]
Kind(p)      == p[2]
Layers(p)    == p[3]
Outer(p)     == <<p[1], p[2], p[3] + 1>>
Inner(p)     == <<p[1], p[2], p[3] - 1>>

Present == DOMAIN disk
In(c)   == {p \in Present : Challenge(p) = c}

PlainDisk == [p \in {<<f[1], f[2], 0>> : f \in Files} |-> Whole]

-----------------------------------------------------------------------------
(* encrypt-file! and decrypt-file! write the new file and then delete the  *)
(* old one.  A cut plaintext encrypts, and decrypts again, like any other; *)
(* a cut .enc file does not decrypt.                                       *)
Write(p, worth)  == [q \in Present \cup {p} |-> IF q = p THEN worth ELSE disk[q]]
Drop(d, p)       == [q \in DOMAIN d \ {p} |-> d[q]]

Encrypted(p)  == Drop(Write(Outer(p), disk[p]), p)

Decrypted(p)  == Drop(Write(Inner(p), disk[p]), p)
Decrypts(p)   == disk[p] # Layers(p)

(* What a process killed in the middle leaves: nothing written, a file cut *)
(* short, or both files whole.                                             *)
KilledDeletingFirst(p, target) ==  \* Mutation: the old file goes first.
  {disk, Drop(disk, p), Drop(Write(target, disk[p]), p)}

Killed(p, target) ==
  {disk, Write(target, Layers(target)), Write(target, disk[p])}

(* The paths each operation lists in a challenge directory.                *)
SensitiveFiles(c) ==  \* encrypt-challenge!
  {p \in In(c) : \/ Kind(p) = "private" /\ Layers(p) = 0
                 \/ Kind(p) = "helper"}

(* Mutation: src/ is forgotten.                                            *)
EncryptedDirFiles(c) == {p \in In(c) : Kind(p) = "private" /\ Layers(p) > 0}

EncryptedFiles(c) ==  \* decrypt-challenge!
  {p \in In(c) : Kind(p) \in {"private", "helper", "source"} /\ Layers(p) > 0}

(* Mutation: a file whose .enc is there already needs no encryption.       *)
FilesWithoutEnc(c) == {p \in In(c) : Layers(p) = 0 /\ Outer(p) \notin Present}

AllPlainFiles(c) == {p \in In(c) : Layers(p) = 0}  \* encrypt-challenge-fully!
AllEncFiles(c)   == {p \in In(c) : Layers(p) > 0}  \* decrypt-challenge-fully!

HasReadme(c)    == <<c, "readme", 0>> \in Present
ChallengeDir(c) == HasReadme(c) \/ <<c, "readme", 1>> \in Present

(* Mutation: the challenge under test is encrypted with the rest.          *)
OthersAndSelf(c) == {d \in Challenges : ChallengeDir(d)}

Others(c) == {d \in Challenges \ {c} : ChallengeDir(d)}

EncryptOps == {"encrypt", "encryptOthers", "cliEncrypt"}
DecryptOps == {"decrypt", "restore", "restoreAgain", "restoreOthers",
               "catchOwn", "catchOthers", "cliDecrypt"}
Ops == EncryptOps \cup DecryptOps

Listing(op, c) ==
  IF op \in {"encrypt", "cliEncrypt"} THEN SensitiveFiles(c)
  ELSE IF op = "encryptOthers" THEN AllPlainFiles(c)
  ELSE IF op \in {"restoreOthers", "catchOthers"} THEN AllEncFiles(c)
  ELSE EncryptedFiles(c)

-----------------------------------------------------------------------------
Idle == pc \in {"idle", "decrypted"}

Init ==
  /\ disk = PlainDisk
  /\ pc = "idle"
  /\ current \in Challenges
  /\ queue = {}
  /\ dirs = {}
  /\ todo = {}
  /\ up = {}
  /\ refused = {}
  /\ torn = {}
  /\ crashes = 0
  /\ commands = 0

Begin(op, ds) == pc' = op /\ dirs' = ds /\ todo' = {}

(* -main: the challenges with a README.md are valid; the others are only   *)
(* reported missing.                                                       *)
StartProcess ==
  /\ Idle
  /\ \E cs \in SUBSET Challenges :
       /\ cs # {}
       /\ \A c \in cs : HasReadme(c)
       /\ queue' = cs
  /\ pc' = "ready"
  /\ UNCHANGED <<disk, current, dirs, todo, up, refused, torn, crashes, commands>>

(* run-challenge up to the first decryption; the kondo import may throw.   *)
StartRun ==
  /\ pc = "ready"
  /\ \E c \in queue :
       /\ current' = c
       /\ queue' = queue \ {c}
       /\ Begin("decrypt", {c}) \/ Begin("catchOwn", {c})
  /\ UNCHANGED <<disk, up, refused, torn, crashes, commands>>

EndProcess ==
  /\ pc = "ready"
  /\ queue = {}
  /\ pc' = "idle"
  /\ UNCHANGED <<disk, current, queue, dirs, todo, up, refused, torn, crashes, commands>>

(* bb encrypt-challenges, bb decrypt-challenges.                           *)
Command ==
  /\ Idle
  /\ commands < MaxCommands
  /\ commands' = commands + 1
  /\ Begin("cliEncrypt", Challenges) \/ Begin("cliDecrypt", Challenges)
  /\ UNCHANGED <<disk, current, queue, up, refused, torn, crashes>>

OpenDir ==
  /\ pc \in Ops
  /\ todo = {}
  /\ \E c \in dirs :
       /\ dirs' = dirs \ {c}
       /\ todo' = Listing(pc, c)
  /\ UNCHANGED <<disk, pc, current, queue, up, refused, torn, crashes, commands>>

EncryptFile ==
  /\ pc \in EncryptOps
  /\ \E p \in todo :
       /\ Layers(p) < MaxLayers
       /\ disk' = Encrypted(p)
       /\ todo' = todo \ {p}
  /\ UNCHANGED <<pc, current, queue, dirs, up, refused, torn, crashes, commands>>

DecryptFile ==
  /\ pc \in DecryptOps
  /\ \E p \in todo :
       /\ Decrypts(p)
       /\ disk' = Decrypted(p)
       /\ todo' = todo \ {p}
  /\ UNCHANGED <<pc, current, queue, dirs, up, refused, torn, crashes, commands>>

(* A file that does not decrypt throws.  run-challenge catches, and each   *)
(* step of its catch block swallows what it throws itself.                 *)
(* Mutation: the catch block tries its own decryption again until it works. *)
DecryptRetries ==
  /\ pc \in DecryptOps
  /\ \E p \in todo : ~Decrypts(p)
  /\ IF pc = "cliDecrypt" THEN Begin("idle", {}) ELSE Begin("catchOwn", {current})
  /\ UNCHANGED <<disk, current, queue, up, refused, torn, crashes, commands>>

DecryptThrows ==
  /\ pc \in DecryptOps
  /\ \E p \in todo : ~Decrypts(p)
  /\ IF pc = "cliDecrypt" THEN Begin("idle", {})
     ELSE IF pc = "catchOwn" THEN Begin("catchOthers", Others(current))
     ELSE IF pc = "catchOthers" THEN Begin("catchTeardown", {})
     ELSE Begin("catchOwn", {current})
  /\ UNCHANGED <<disk, current, queue, up, refused, torn, crashes, commands>>

FinishOp ==
  /\ pc \in Ops
  /\ dirs = {}
  /\ todo = {}
  /\ \/ pc = "decrypt"       /\ Begin("setup", {})
     \/ pc = "encrypt"       /\ Begin("encryptOthers", Others(current))
     \/ pc = "encryptOthers" /\ Begin("solving", {})
     \/ pc = "restore"       /\ Begin("restoreAgain", {current})
     \/ pc = "restoreAgain"  /\ Begin("restoreOthers", Others(current))
     \/ pc = "restoreOthers" /\ Begin("grading", {})
     \/ pc = "catchOwn"      /\ Begin("catchOthers", Others(current))
     \/ pc = "catchOthers"   /\ Begin("catchTeardown", {})
     \/ pc = "cliEncrypt"    /\ Begin("idle", {})
     \/ pc = "cliDecrypt"    /\ Begin("decrypted", {})
  /\ UNCHANGED <<disk, current, queue, up, refused, torn, crashes, commands>>

(* A setup that fails may have done part of its work.                      *)
Setup ==
  /\ pc = "setup"
  /\ up' = up \cup ({current} \cap HasSetup)
  /\ refused' = refused \ {current}
  /\ \/ Begin("encrypt", {current})
     \/ /\ current \in HasSetup
        /\ Begin("catchOwn", {current})
  /\ UNCHANGED <<disk, current, queue, torn, crashes, commands>>

(* phase-loop! returns, or the runner throws around it.                    *)
Solve ==
  /\ pc = "solving"
  /\ Begin("restore", {current}) \/ Begin("catchOwn", {current})
  /\ UNCHANGED <<disk, current, queue, up, refused, torn, crashes, commands>>

(* teardown.sh lies among the private files; run as .enc it does nothing.  *)
(* When it exits non-zero a warning, or nothing, is said and the setup     *)
(* stays; the run goes on as if it were gone.                              *)
Teardown ==
  IF current \in up /\ <<current, "private", 0>> \in Present
  THEN \/ up' = up \ {current} /\ refused' = refused \ {current}
       \/ up' = up /\ refused' = refused \cup {current}
  ELSE UNCHANGED <<up, refused>>

(* Grading, and the teardown in its finally; a grader that throws goes     *)
(* through the catch block after it.                                       *)
Grade ==
  /\ pc = "grading"
  /\ Teardown
  /\ Begin("ready", {}) \/ Begin("catchOwn", {current})
  /\ UNCHANGED <<disk, current, queue, torn, crashes, commands>>

CatchTeardown ==
  /\ pc = "catchTeardown"
  /\ Teardown
  /\ Begin("ready", {})
  /\ UNCHANGED <<disk, current, queue, torn, crashes, commands>>

(* The process is killed, between two files or in the middle of one.       *)
Crash ==
  /\ ~Idle
  /\ crashes < MaxCrashes
  /\ crashes' = crashes + 1
  /\ Begin("idle", {})
  /\ queue' = {}
  /\ \/ UNCHANGED <<disk, torn>>
     \/ /\ pc \in EncryptOps
        /\ \E p \in todo : Layers(p) < MaxLayers /\ disk' \in Killed(p, Outer(p))
        /\ UNCHANGED torn
     \/ /\ pc \in DecryptOps
        /\ \E p \in {q \in todo : Decrypts(q)} :
             /\ disk' \in Killed(p, Inner(p))
             /\ torn' = IF /\ Layers(p) = 1
                           /\ disk' = Write(Inner(p), 0)
                        THEN torn \cup {<<Challenge(p), Kind(p)>>} ELSE torn
  /\ UNCHANGED <<current, up, refused, commands>>

Next ==
  \/ StartProcess \/ StartRun \/ EndProcess \/ Command
  \/ OpenDir \/ EncryptFile \/ DecryptFile \/ DecryptThrows \/ FinishOp
  \/ Setup \/ Solve \/ Grade \/ CatchTeardown
  \/ Crash

Spec == Init /\ [][Next]_vars

(* A live process keeps stepping; nobody need start one or kill one.       *)
Step == \/ StartRun \/ EndProcess \/ OpenDir \/ EncryptFile \/ DecryptFile
        \/ DecryptThrows \/ FinishOp \/ Setup \/ Solve \/ Grade \/ CatchTeardown

FairSpec == Spec /\ WF_vars(Step)

-----------------------------------------------------------------------------
(* What the agents have before them.  No protected file of their challenge *)
(* and no file at all of another one is readable, whatever an earlier      *)
(* process that was killed left behind (encrypt-challenge!,                *)
(* encrypt-other-challenges!).  The README and the provided sources of     *)
(* their challenge are, unless somebody encrypted by hand, and its other   *)
(* files too (deps.edn) if in addition nothing was ever killed: what a kill*)
(* hides of those, decrypt-challenge! does not bring back.  Without a kill *)
(* or a bb command, no hidden setup is in place but their own and those    *)
(* whose own teardown.sh failed when it was run.                           *)
SolverSees ==
  pc = "solving" =>
    /\ \A p \in Present : Layers(p) = 0 =>
         Challenge(p) = current /\ Kind(p) \notin Protected
    /\ commands = 0 =>
         \A f \in Files :
           /\ f[1] = current
           /\ f[2] \in {"readme", "source"} \/ (f[2] = "rest" /\ crashes = 0)
           => <<f[1], f[2], 0>> \in Present
    /\ crashes = 0 /\ commands = 0 => up \subseteq {current} \cup refused

(* A process that is not killed leaves every file as it found it, after a  *)
(* run that graded and after one that threw anywhere.                      *)
Restored ==
  (Idle \/ pc = "ready") /\ crashes = 0 /\ commands = 0 => disk = PlainDisk

(* A run is graded on plain private files, with nothing of the other       *)
(* challenges left encrypted, even on top of an earlier crash.             *)
GradesPlaintext ==
  pc = "grading" /\ commands = 0 =>
    \A p \in Present :
      (Challenge(p) # current \/ Kind(p) \in Protected) => Layers(p) = 0

(* Every file can be brought back from some copy, unless a crash cut its   *)
(* plaintext short while it was being decrypted, or somebody encrypted by  *)
(* hand on top of a crash.                                                 *)
NothingLost ==
  commands = 0 =>
  \A f \in Files \ torn : \E n \in 0..MaxLayers :
    <<f[1], f[2], n>> \in Present /\ disk[<<f[1], f[2], n>>] = Whole

(* However a process died, some challenge still has its README.md: a next  *)
(* process can run that one, and running it decrypts the others. (Nobody   *)
(* encrypted by hand, which may hide every README.md.)                     *)
SomeChallengeRunnable ==
  Idle /\ commands = 0 => \E c \in Challenges : HasReadme(c)

(* Whatever an earlier crash left, a process that is not killed comes to    *)
(* its end: no exception of its clean-up sends it round again.             *)
ProcessesEnd == ~Idle ~> Idle

(* run-lanes.sh: bb decrypt-challenges restores a worktree.                *)
DecryptRestores ==
  pc = "decrypted" => \A p \in Present : Layers(p) = 0
=============================================================================
