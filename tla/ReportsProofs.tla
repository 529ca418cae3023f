--------------------------- MODULE ReportsProofs ---------------------------
(***************************************************************************)
(* What TLAPS proves of Reports for any number of runners, killed at any   *)
(* step: names are never shared and never run out, no artifact ever        *)
(* disturbs another, and a run that ends has all its records and artifacts.*)
(***************************************************************************)
EXTENDS Reports, FiniteSetTheorems, TLAPS

-----------------------------------------------------------------------------
(* The inductive invariant.                                                *)

(* There is no file, or some run wrote what there is.                      *)
FileSet == {Absent} \cup [by : Runs, state : {"empty", "cut", "whole"}]

Typed ==
  /\ pc \in [Runs -> Steps]
  /\ name \in [Runs -> Names]
  /\ files \in [Names -> [Extensions -> FileSet]]
  /\ lock \in Runs \cup {NoRun}
  /\ db \in Seq(Runs)
  /\ written \in [Runs -> 0..Pieces]
  /\ failed \subseteq Runs

BeforeClaim == {"running", "claim"}
Gone == {"unreported", "killed"}
Holding == Steps \ (BeforeClaim \cup Gone)

(* Who has claimed a name, and which names a runner has found taken.       *)
Claims ==
  /\ \A r \in Runs : pc[r] \in Holding =>
       /\ Exists(name[r], "md")
       /\ At(name[r], "md").by = r
  /\ \A r \in Runs : pc[r] \in BeforeClaim =>
       \A n \in Names : At(n, "md").by # r
  /\ \A r \in Runs : \A n \in Names : n < name[r] => Exists(n, "md")

Inv == Typed /\ OwnArtifacts /\ Claims

-----------------------------------------------------------------------------
(* Files.                                                                  *)

(* Writing one file leaves every other as it was.                          *)
LEMMA PutAt ==
  ASSUME Typed, NEW n \in Names, NEW e \in Extensions, NEW f \in FileSet,
         files' = Put(n, e, f)
  PROVE  /\ files' \in [Names -> [Extensions -> FileSet]]
         /\ At(n, e)' = f
         /\ \A m \in Names, d \in Extensions :
              m # n \/ d # e => At(m, d)' = At(m, d)
<1>1. files' = [files EXCEPT ![n] = [files[n] EXCEPT ![e] = f]]
  BY DEF Put
<1>2. files \in [Names -> [Extensions -> FileSet]]
  BY DEF Typed
<1>3. [files[n] EXCEPT ![e] = f] \in [Extensions -> FileSet]
  BY <1>2
<1>4. files' \in [Names -> [Extensions -> FileSet]]
  BY <1>1, <1>2, <1>3
<1>5. files'[n][e] = f
  BY <1>1, <1>2
<1>6. ASSUME NEW m \in Names, NEW d \in Extensions, m # n \/ d # e
      PROVE  files'[m][d] = files[m][d]
  BY <1>1, <1>2, <1>6
<1> QED BY <1>4, <1>5, <1>6 DEF At

(* What can be written is a file.                                          *)
LEMMA FileTypes ==
  ASSUME NEW r \in Runs, NEW s \in {"empty", "cut", "whole"}
  PROVE  /\ File(r, s) \in FileSet
         /\ File(r, s) # Absent
         /\ File(r, s).by = r
         /\ File(r, s).state = s
         /\ Absent \in FileSet
         /\ Absent.by = NoRun
         /\ Absent.state = "absent"
BY ReportsAssumption DEF File, FileSet, Absent

LEMMA ExtensionNames ==
  /\ "md" \in Extensions
  /\ "private.log" \in Extensions
  /\ "manifest.json" \in Extensions
  /\ "bundle.tar.gz" \in Extensions
BY DEF Extensions

-----------------------------------------------------------------------------
(* Names never run out: a run that still looks for a name has found fewer  *)
(* names taken than there are other runs, each taken by a different one.   *)
LEMMA NameLeft ==
  ASSUME Inv, NEW r \in Runs, pc[r] = "claim", Exists(name[r], "md")
  PROVE  name[r] + 1 \in Names
<1> DEFINE k == name[r]
           f == [n \in 1..k |-> At(n, "md").by]
           N == Cardinality(Runs)
<1>1. IsFiniteSet(Runs) /\ N \in Nat
  BY ReportsAssumption, FS_CardinalityType
<1>2. k \in Names /\ Names = 1..N /\ k \in Nat /\ k <= N
  BY <1>1 DEF Inv, Typed, Names
<1>3. \A n \in 1..k : n \in Names /\ Exists(n, "md")
  <2> SUFFICES ASSUME NEW n \in 1..k
               PROVE  n \in Names /\ Exists(n, "md")
    OBVIOUS
  <2>1. n \in Names
    <3> HIDE DEF k, N
    <3> QED BY <1>1, <1>2
  <2>2. n < k => Exists(n, "md")
    BY <2>1 DEF Inv, Claims
  <2>3. n = k => Exists(n, "md")
    OBVIOUS
  <2>4. n < k \/ n = k
    BY <1>2
  <2> QED BY <2>1, <2>2, <2>3, <2>4
<1>4. \A n \in 1..k : /\ At(n, "md").by \in Runs
                      /\ At(n, "md").by # r
                      /\ name[At(n, "md").by] = n
  <2> SUFFICES ASSUME NEW n \in 1..k
               PROVE  /\ At(n, "md").by \in Runs
                      /\ At(n, "md").by # r
                      /\ name[At(n, "md").by] = n
    OBVIOUS
  <2>1. n \in Names /\ Exists(n, "md")
    BY <1>3
  <2>2. At(n, "md") \in FileSet /\ At(n, "md") # Absent
    BY <2>1, ExtensionNames DEF Inv, Typed, At, Exists
  <2>3. At(n, "md").by \in Runs
    BY <2>2 DEF FileSet
  <2>4. At(n, "md").by # r
    BY <2>1 DEF Inv, Claims, BeforeClaim
  <2>5. name[At(n, "md").by] = n
    BY <2>1, ExtensionNames DEF Inv, OwnArtifacts
  <2> QED BY <2>3, <2>4, <2>5
<1>5. f \in Injection(1..k, Runs \ {r})
  <2>1. f \in [1..k -> Runs \ {r}]
    BY <1>4
  <2>2. \A a, b \in 1..k : f[a] = f[b] => a = b
    BY <1>4
  <2> QED BY <2>1, <2>2 DEF Injection, IsInjective
<1>6. IsFiniteSet(Runs \ {r}) /\ Cardinality(Runs \ {r}) = N - 1
  BY <1>1, FS_RemoveElement
<1>7. Cardinality(1..k) = k
  BY <1>2, FS_Interval
<1>8. Cardinality(1..k) <= Cardinality(Runs \ {r})
  BY <1>5, <1>6, FS_Injection
<1>9. k <= N - 1
  BY <1>6, <1>7, <1>8
<1> HIDE DEF N
<1> QED BY <1>1, <1>2, <1>9

-----------------------------------------------------------------------------
(* The steps, by what they do to names and files.                          *)

Moves(r, from, to) == /\ pc[r] \in from
                      /\ \E p \in to : pc' = [pc EXCEPT ![r] = p]

Leaves(r) == /\ files' = files
             /\ name' = name
             /\ \/ Moves(r, BeforeClaim, BeforeClaim \cup Gone)
                \/ Moves(r, Holding, Holding \cup Gone)

Takes(r) == /\ pc[r] = "claim"
            /\ ~Exists(name[r], "md")
            /\ files' = Put(name[r], "md", File(r, "empty"))
            /\ name' = name
            /\ Moves(r, BeforeClaim, Holding)

Skips(r) == /\ pc[r] = "claim"
            /\ Exists(name[r], "md")
            /\ name' = [name EXCEPT ![r] = @ + 1]
            /\ files' = files
            /\ pc' = pc

(* The holder of a name writes a file of its own, or takes back one that   *)
(* is not the report.                                                      *)
Writes(r, e, f) ==
  /\ Moves(r, Holding, Holding \cup Gone)
  /\ files' = Put(name[r], e, f)
  /\ name' = name
  /\ f \in FileSet
  /\ f = Absent \/ f.by = r
  /\ f = Absent => e # "md"

LEMMA StepsOf ==
  ASSUME NEW r \in Runs, Emit(r) \/ Crash(r), Typed
  PROVE  \/ Leaves(r)
         \/ Takes(r)
         \/ Skips(r)
         \/ \E e \in Extensions, f \in FileSet : Writes(r, e, f)
<1> USE DEF Go
<1>1. CASE Claim(r)
  BY <1>1 DEF Claim, Takes, Moves, BeforeClaim, Holding, Gone, Steps, Over
<1>2. CASE ClaimNext(r)
  BY <1>2 DEF ClaimNext, Skips
<1>3. CASE FinishChallenges(r) \/ ClaimThrows(r)
  BY <1>3 DEF FinishChallenges, ClaimThrows, Leaves, Moves, BeforeClaim, Gone
<1>4. CASE OpenDatabase(r) \/ TakeLock(r) \/ AppendThrows(r) \/ CloseChannel(r)
  BY <1>4 DEF OpenDatabase, TakeLock, AppendThrows, CloseChannel, Leaves, Moves,
              Holding, Gone, Steps, Over, BeforeClaim
<1>5. CASE AppendPiece(r)
  <2>1. pc' = [pc EXCEPT ![r] = "write"]
    BY <1>5 DEF AppendPiece, Typed
  <2> QED
    BY <1>5, <2>1 DEF AppendPiece, Leaves, Moves, Holding, Gone, Steps, Over, BeforeClaim
<1>6. CASE Crash(r)
  <2>1. pc[r] \in BeforeClaim \/ pc[r] \in Holding
    BY <1>6 DEF Crash, Typed, Holding, Gone, Over
  <2> QED BY <1>6, <2>1 DEF Crash, Leaves, Moves, Gone
<1>7. ASSUME NEW e \in Extensions, NEW f \in FileSet,
             files' = Put(name[r], e, f), name' = name,
             f.by = r \/ (f = Absent /\ e # "md"),
             Moves(r, Holding, Holding \cup Gone)
      PROVE  \E d \in Extensions, g \in FileSet : Writes(r, d, g)
  <2>1. f = Absent => e # "md"
    BY <1>7, ReportsAssumption DEF Absent
  <2>2. Writes(r, e, f)
    BY <1>7, <2>1 DEF Writes
  <2> QED BY <2>2
<1>8. /\ "report" \in Holding /\ "log" \in Holding /\ "fillLog" \in Holding
      /\ "checkLog" \in Holding /\ "manifest" \in Holding
      /\ "fillManifest" \in Holding /\ "bundle" \in Holding
      /\ "tar" \in Holding /\ "append" \in Holding
  BY DEF Holding, Gone, Steps, Over, BeforeClaim
<1>9. /\ \A s \in {"empty", "cut", "whole"} :
           File(r, s) \in FileSet /\ File(r, s).by = r
      /\ Absent \in FileSet
  BY FileTypes
<1>10. CASE WriteReport(r)
  <2>1. Moves(r, Holding, Holding \cup Gone) /\ name' = name
    BY <1>8, <1>10 DEF WriteReport, Moves, Gone
  <2>2. PICK s \in {"empty", "cut", "whole"} :
          files' = Put(name[r], "md", File(r, s))
    BY <1>10 DEF WriteReport
  <2> QED BY <1>7, <1>9, <2>1, <2>2, ExtensionNames
<1>11. CASE CreateLog(r)
  <2>1. Moves(r, Holding, Holding \cup Gone) /\ name' = name
    BY <1>8, <1>11 DEF CreateLog, Fail, Moves
  <2>2. \/ files' = files
        \/ files' = Put(name[r], "private.log", File(r, "empty"))
    BY <1>11 DEF CreateLog
  <2> QED BY <1>7, <1>9, <2>1, <2>2, ExtensionNames DEF Leaves, Moves
<1>12. CASE FillLog(r)
  <2>1. Moves(r, Holding, Holding \cup Gone) /\ name' = name
    BY <1>8, <1>12 DEF FillLog, Moves
  <2>2. PICK s \in {"cut", "whole"} :
          files' = Put(name[r], "private.log", File(r, s))
    BY <1>12 DEF FillLog
  <2> QED BY <1>7, <1>9, <2>1, <2>2, ExtensionNames
<1>13. CASE CheckLog(r)
  <2>1. Moves(r, Holding, Holding \cup Gone) /\ name' = name
    BY <1>8, <1>13 DEF CheckLog, Fail, Moves
  <2>2. \/ files' = files
        \/ files' = Put(name[r], "private.log", Absent)
    BY <1>13 DEF CheckLog
  <2> QED BY <1>7, <1>9, <2>1, <2>2, ExtensionNames DEF Leaves, Moves
<1>14. CASE StartManifest(r)
  <2>1. Moves(r, Holding, Holding \cup Gone) /\ name' = name
    BY <1>8, <1>14 DEF StartManifest, Fail, Moves
  <2>2. \/ files' = files
        \/ files' = Put(name[r], "manifest.json", File(r, "cut"))
    BY <1>14 DEF StartManifest
  <2> QED BY <1>7, <1>9, <2>1, <2>2, ExtensionNames DEF Leaves, Moves
<1>15. CASE FillManifest(r)
  <2>1. Moves(r, Holding, Holding \cup Gone) /\ name' = name
    BY <1>8, <1>15 DEF FillManifest, Fail, Moves
  <2>2. \/ files' = files
        \/ files' = Put(name[r], "manifest.json", File(r, "whole"))
    BY <1>15 DEF FillManifest
  <2> QED BY <1>7, <1>9, <2>1, <2>2, ExtensionNames DEF Leaves, Moves
<1>16. CASE StartBundle(r)
  <2>1. Moves(r, Holding, Holding \cup Gone) /\ name' = name
    BY <1>8, <1>16 DEF StartBundle, Moves
  <2>2. \/ files' = files
        \/ files' = Put(name[r], "bundle.tar.gz", File(r, "cut"))
    BY <1>16 DEF StartBundle
  <2> QED BY <1>7, <1>9, <2>1, <2>2, ExtensionNames DEF Leaves, Moves
<1>17. CASE FinishBundle(r)
  <2>1. Moves(r, Holding, Holding \cup Gone) /\ name' = name
    BY <1>8, <1>17 DEF FinishBundle, Fail, Moves
  <2>2. \/ files' = Put(name[r], "bundle.tar.gz", File(r, "whole"))
        \/ files' = Put(name[r], "bundle.tar.gz", Absent)
    BY <1>17 DEF FinishBundle
  <2> QED BY <1>7, <1>9, <2>1, <2>2, ExtensionNames
<1> QED
  BY <1>1, <1>2, <1>3, <1>4, <1>5, <1>6, <1>10, <1>11, <1>12, <1>13, <1>14,
     <1>15, <1>16, <1>17 DEF Emit

-----------------------------------------------------------------------------
(* The invariant is inductive.                                             *)

(* The variables the names do not depend on.                               *)
RestTyped ==
  /\ pc \in [Runs -> Steps]
  /\ lock \in Runs \cup {NoRun}
  /\ db \in Seq(Runs)
  /\ written \in [Runs -> 0..Pieces]
  /\ failed \subseteq Runs

LEMMA RestStep ==
  ASSUME Typed, NEW r \in Runs, Emit(r) \/ Crash(r)
  PROVE  RestTyped'
<1> USE DEF Typed, RestTyped, Go, Steps, Over
<1>1. CASE \/ FinishChallenges(r) \/ Claim(r) \/ ClaimNext(r) \/ ClaimThrows(r)
           \/ WriteReport(r)
  BY <1>1 DEF FinishChallenges, Claim, ClaimNext, ClaimThrows, WriteReport
<1>2. CASE CreateLog(r) \/ FillLog(r) \/ CheckLog(r)
  BY <1>2 DEF CreateLog, FillLog, CheckLog, Fail
<1>3. CASE StartManifest(r) \/ FillManifest(r)
  BY <1>3 DEF StartManifest, FillManifest, Fail
<1>4. CASE StartBundle(r) \/ FinishBundle(r)
  BY <1>4 DEF StartBundle, FinishBundle, Fail
<1>5. CASE OpenDatabase(r) \/ TakeLock(r) \/ AppendThrows(r) \/ CloseChannel(r)
  BY <1>5 DEF OpenDatabase, TakeLock, AppendThrows, CloseChannel
<1>6. CASE AppendPiece(r)
  <2>1. written[r] + 1 \in 0..Pieces
    BY <1>6, ReportsAssumption DEF AppendPiece
  <2>2. db' \in Seq(Runs)
    BY <1>6 DEF AppendPiece
  <2>3. written' \in [Runs -> 0..Pieces]
    BY <1>6, <2>1 DEF AppendPiece
  <2> QED BY <1>6, <2>2, <2>3 DEF AppendPiece
<1>7. CASE Crash(r)
  BY <1>7 DEF Crash
<1> QED BY <1>1, <1>2, <1>3, <1>4, <1>5, <1>6, <1>7 DEF Emit

LEMMA InvStep == Inv /\ [Next]_vars => Inv'
<1> SUFFICES ASSUME Inv, [Next]_vars
             PROVE  Inv'
  OBVIOUS
<1>1. CASE UNCHANGED vars
  BY <1>1 DEF vars, Inv, Typed, OwnArtifacts, Claims, At, Exists
<1>2. ASSUME NEW r \in Runs, Emit(r) \/ Crash(r)
      PROVE  Inv'
  <2> USE DEF Exists
  <2>1. RestTyped' /\ Typed /\ OwnArtifacts /\ Claims
    BY <1>2, RestStep DEF Inv
  <2>2. /\ pc \in [Runs -> Steps]
        /\ name \in [Runs -> Names]
        /\ files \in [Names -> [Extensions -> FileSet]]
        /\ name[r] \in Names
    BY <2>1 DEF Typed
  <2>3. \A n \in Names, e \in Extensions :
          Exists(n, e) => At(n, e).by \in Runs
    BY <2>2 DEF At, FileSet
  <2>4. CASE Leaves(r)
    <3>1. /\ Typed'
          /\ \A n \in Names, e \in Extensions : At(n, e)' = At(n, e)
          /\ name' = name
      BY <2>1, <2>2, <2>4 DEF Leaves, Typed, RestTyped, At
    <3>2. OwnArtifacts'
      BY <2>1, <2>4 DEF OwnArtifacts, At, Leaves
    <3>3. \A q \in Runs : /\ pc'[q] \in Holding => pc[q] \in Holding
                          /\ pc'[q] \in BeforeClaim => pc[q] \in BeforeClaim
      BY <2>2, <2>4 DEF Leaves, Moves, Holding, Gone, BeforeClaim, Steps, Over
    <3>4. Claims'
      BY <2>1, <2>2, <3>1, <3>3, ExtensionNames DEF Claims
    <3> QED BY <3>1, <3>2, <3>4 DEF Inv
  <2>5. CASE Skips(r)
    <3>1. name[r] + 1 \in Names
      BY <2>5, NameLeft DEF Skips
    <3>2. /\ Typed'
          /\ \A n \in Names, e \in Extensions : At(n, e)' = At(n, e)
          /\ pc' = pc
          /\ name'[r] = name[r] + 1
          /\ \A q \in Runs \ {r} : name'[q] = name[q]
      BY <2>1, <2>2, <2>5, <3>1 DEF Skips, Typed, RestTyped, At
    <3>3. pc[r] \in BeforeClaim /\ pc[r] \notin Holding
      BY <2>5 DEF Skips, BeforeClaim, Holding
    <3>4. \A n \in Names, e \in Extensions : Exists(n, e) => At(n, e).by # r
      BY <2>1, <3>3, ExtensionNames DEF Claims, OwnArtifacts
    <3>5. OwnArtifacts'
      BY <2>1, <2>3, <3>2, <3>4, ExtensionNames DEF OwnArtifacts
    <3>6. \A n \in Names : n < name[r] + 1 => Exists(n, "md")
      <4>1. \A n \in Names : n < name[r] \/ n = name[r] \/ ~(n < name[r] + 1)
        BY <2>2 DEF Names
      <4> QED BY <2>1, <2>5, <4>1 DEF Claims, Skips
    <3>7. Claims'
      <4>1. \A q \in Runs : pc'[q] \in Holding =>
              /\ q # r
              /\ name'[q] = name[q]
              /\ Exists(name[q], "md")
              /\ At(name[q], "md").by = q
        BY <2>1, <3>2, <3>3 DEF Claims
      <4>2. \A q \in Runs, n \in Names : n < name'[q] => Exists(n, "md")
        BY <2>1, <3>2, <3>6 DEF Claims
      <4>3. \A n \in Names : At(n, "md")' = At(n, "md")
        BY <3>2, ExtensionNames
      <4>4. \A q \in Runs : pc'[q] \in BeforeClaim =>
              \A n \in Names : At(n, "md").by # q
        BY <2>1, <3>2 DEF Claims
      <4>5. \A q \in Runs : name'[q] \in Names
        BY <3>2 DEF Typed
      <4> QED BY <4>1, <4>2, <4>3, <4>4, <4>5 DEF Claims
    <3> QED BY <3>2, <3>5, <3>7 DEF Inv
  <2>6. CASE Takes(r)
    <3> DEFINE f == File(r, "empty")
    <3>1. f \in FileSet /\ f # Absent /\ f.by = r
      BY FileTypes
    <3>2. /\ files' \in [Names -> [Extensions -> FileSet]]
          /\ At(name[r], "md")' = f
          /\ \A n \in Names, e \in Extensions :
               n # name[r] \/ e # "md" => At(n, e)' = At(n, e)
          /\ name' = name
      BY <2>1, <2>2, <2>6, <3>1, PutAt, ExtensionNames DEF Takes
    <3> HIDE DEF f
    <3>3. Typed'
      BY <2>1, <2>2, <3>2 DEF Typed, RestTyped
    <3>4. \A e \in Extensions : ~Exists(name[r], e)
      BY <2>1, <2>2, <2>6 DEF Takes, OwnArtifacts
    <3>5. OwnArtifacts'
      BY <2>1, <2>2, <3>1, <3>2, <3>4, ExtensionNames DEF OwnArtifacts
    <3>6. /\ pc'[r] \in Holding /\ pc'[r] \notin BeforeClaim
          /\ \A q \in Runs \ {r} : pc'[q] = pc[q]
      BY <2>2, <2>6 DEF Takes, Moves, Holding
    <3>7. \A q \in Runs \ {r} : pc[q] \in Holding => name[q] # name[r]
      BY <2>1, <2>6 DEF Takes, Claims
    <3>8. Claims'
      <4>1. \A n \in Names : n # name[r] => At(n, "md")' = At(n, "md")
        BY <3>2, ExtensionNames
      <4>2. \A q \in Runs : pc'[q] \in Holding =>
              Exists(name[q], "md")' /\ At(name[q], "md")'.by = q
        BY <2>1, <2>2, <3>1, <3>2, <3>6, <3>7, <4>1 DEF Claims
      <4>3. \A q \in Runs : pc'[q] \in BeforeClaim =>
              \A n \in Names : At(n, "md")'.by # q
        BY <2>1, <2>2, <3>1, <3>2, <3>6, <4>1 DEF Claims
      <4>4. \A q \in Runs, n \in Names : n < name[q] => Exists(n, "md")'
        BY <2>1, <2>2, <3>1, <3>2, <4>1 DEF Claims
      <4> QED BY <3>2, <4>2, <4>3, <4>4 DEF Claims
    <3> QED BY <3>3, <3>5, <3>8 DEF Inv
  <2>7. ASSUME NEW e \in Extensions, NEW f \in FileSet, Writes(r, e, f)
        PROVE  Inv'
    <3>1. /\ files' \in [Names -> [Extensions -> FileSet]]
          /\ At(name[r], e)' = f
          /\ \A n \in Names, d \in Extensions :
               n # name[r] \/ d # e => At(n, d)' = At(n, d)
          /\ name' = name
      BY <2>1, <2>2, <2>7, PutAt DEF Writes
    <3>2. Typed'
      BY <2>1, <2>2, <3>1 DEF Typed, RestTyped
    <3>3. /\ Exists(name[r], "md") /\ At(name[r], "md").by = r
          /\ f = Absent \/ f.by = r
          /\ e = "md" => f # Absent /\ f.by = r
      BY <2>1, <2>7 DEF Writes, Moves, Claims
    <3>4. OwnArtifacts'
      BY <2>1, <2>2, <3>1, <3>3, ExtensionNames DEF OwnArtifacts
    <3>5. \A q \in Runs : /\ pc'[q] \in Holding => pc[q] \in Holding
                          /\ pc'[q] \in BeforeClaim => pc[q] \in BeforeClaim
                          /\ pc[q] \in BeforeClaim => q # r
      BY <2>2, <2>7 DEF Writes, Moves, Holding, Gone, BeforeClaim
    <3>6. \A q \in Runs \ {r} : pc[q] \in Holding => name[q] # name[r]
      BY <2>1, <3>3 DEF Claims
    <3>7. Claims'
      <4>1. /\ \A n \in Names : n # name[r] => At(n, "md")' = At(n, "md")
            /\ At(name[r], "md")' # Absent
            /\ At(name[r], "md")'.by = r
        BY <2>2, <3>1, <3>3, ExtensionNames
      <4>2. \A q \in Runs : pc'[q] \in Holding =>
              Exists(name[q], "md")' /\ At(name[q], "md")'.by = q
        BY <2>1, <2>2, <3>1, <3>5, <3>6, <4>1 DEF Claims
      <4>3. \A q \in Runs : pc'[q] \in BeforeClaim =>
              \A n \in Names : At(n, "md")'.by # q
        <5> SUFFICES ASSUME NEW q \in Runs, pc'[q] \in BeforeClaim, NEW n \in Names
                     PROVE  At(n, "md")'.by # q
          OBVIOUS
        <5>1. q # r /\ At(n, "md").by # q
          BY <2>1, <3>5 DEF Claims
        <5> QED BY <3>1, <4>1, <5>1 DEF At
      <4>4. \A q \in Runs, n \in Names : n < name[q] => Exists(n, "md")'
        <5> SUFFICES ASSUME NEW q \in Runs, NEW n \in Names, n < name[q]
                     PROVE  Exists(n, "md")'
          OBVIOUS
        <5>1. At(n, "md") # Absent
          BY <2>1 DEF Claims
        <5>2. At(n, "md")' # Absent
          BY <3>1, <4>1, <5>1 DEF At
        <5> QED BY <5>2 DEF Absent
      <4> QED BY <3>1, <4>2, <4>3, <4>4 DEF Claims
    <3> QED BY <3>2, <3>4, <3>7 DEF Inv
  <2> QED BY <1>2, <2>1, <2>4, <2>5, <2>6, <2>7, StepsOf
<1> QED BY <1>1, <1>2 DEF Next

LEMMA InitInv == Init => Inv
<1> SUFFICES ASSUME Init
             PROVE  Inv
  OBVIOUS
<1> USE DEF Init
<1>1. 1 \in Names \/ Runs = {}
  <2> DEFINE N == Cardinality(Runs)
  <2>1. N \in Nat /\ (N = 0 => Runs = {})
    BY ReportsAssumption, FS_CardinalityType, FS_EmptySet
  <2> HIDE DEF N
  <2>2. N = 0 \/ 1 \in 1..N
    BY <2>1
  <2> QED BY <2>1, <2>2 DEF Names, N
<1>2. Typed
  BY <1>1, ReportsAssumption DEF Typed, Steps, FileSet
<1>3. \A n \in Names, e \in Extensions : At(n, e) = Absent
  BY DEF At
<1>4. OwnArtifacts
  BY <1>3 DEF OwnArtifacts, Exists
<1>5. Absent.by \notin Runs
  BY ReportsAssumption DEF Absent
<1>6. Claims
  BY <1>2, <1>3, <1>5, ExtensionNames
     DEF Claims, Holding, BeforeClaim, Gone, Names
<1> QED BY <1>2, <1>4, <1>6 DEF Inv

LEMMA Invariant == Spec => []Inv
<1> QED BY InitInv, InvStep, PTL DEF Spec

(* The runner's state is always well typed.  The part that is not obvious: *)
(* claim-report-path!'s loop never needs more names than there are runs.   *)
THEOREM TypeCorrect == Spec => []TypeOK
<1>1. Inv => TypeOK
  <2> SUFFICES ASSUME Typed
               PROVE  TypeOK
    BY DEF Inv
  <2>1. FileSet \subseteq [by : Runs \cup {NoRun},
                          state : {"absent", "empty", "cut", "whole"}]
    BY DEF FileSet, Absent
  <2>2. files \in [Names -> [Extensions ->
                    [by : Runs \cup {NoRun},
                     state : {"absent", "empty", "cut", "whole"}]]]
    BY <2>1 DEF Typed
  <2> QED BY <2>2 DEF Typed, TypeOK
<1> QED BY <1>1, Invariant, PTL

(* No artifact is ever another run's, for any number of lanes that end in  *)
(* the same second (claim-report-path!'s atomic creation).                 *)
THEOREM ArtifactsOwned == Spec => []OwnArtifacts
<1>1. Inv => OwnArtifacts
  BY DEF Inv
<1> QED BY <1>1, Invariant, PTL

-----------------------------------------------------------------------------
(* What is whole stays.                                                    *)

(* What a runner has left of its own at each step.                         *)
ProgressOf(r) ==
  /\ pc[r] = "report" => files[name[r]]["md"] = File(r, "empty")
  /\ pc[r] = "fillLog" => files[name[r]]["private.log"] = File(r, "empty")
  /\ pc[r] = "fillManifest" => files[name[r]]["manifest.json"] = File(r, "cut")
  /\ pc[r] \in {"bundle", "tar"} =>
       files[name[r]]["manifest.json"] = File(r, "whole")
  /\ pc[r] = "tar" => files[name[r]]["bundle.tar.gz"] = File(r, "cut")

Progress == \A r \in Runs : ProgressOf(r)

(* ManifestVouches, of one name and its files.                             *)
VouchesAt(f) ==
  /\ f["manifest.json"] # Absent =>
       f["private.log"] = File(f["manifest.json"].by, "whole")
  /\ f["bundle.tar.gz"] # Absent =>
       f["manifest.json"] = File(f["bundle.tar.gz"].by, "whole")

Vouched ==
  /\ Inv
  /\ \A n \in Names : VouchesAt(files[n])
  /\ Progress

WholeStays == \A n \in Names, e \in Extensions :
                At(n, e).state = "whole" => files'[n][e] = At(n, e)

(* A step that writes no file leaves all of them, and no runner in the     *)
(* middle of one.                                                          *)
LEMMA NoFileStep ==
  ASSUME Vouched, NEW r \in Runs, files' = files,
         \A q \in Runs \ {r} : pc'[q] = pc[q] /\ name'[q] = name[q],
         pc'[r] \notin {"report", "fillLog", "fillManifest", "bundle", "tar"}
  PROVE  /\ \A n \in Names : VouchesAt(files'[n])
         /\ Progress'
         /\ WholeStays
<1>1. ASSUME NEW q \in Runs
      PROVE  ProgressOf(q)'
  <2>1. CASE q = r
    BY <2>1 DEF ProgressOf
  <2>2. CASE q # r
    <3>1. ProgressOf(q)
      BY DEF Vouched, Progress
    <3> QED BY <2>2, <3>1 DEF ProgressOf
  <2> QED BY <2>1, <2>2
<1> QED BY <1>1 DEF Vouched, Progress, WholeStays, At

(* A step that writes a file of the runner's own name disturbs no other    *)
(* name.                                                                   *)
LEMMA FileStep ==
  ASSUME Vouched, NEW r \in Runs, NEW e \in Extensions, NEW f \in FileSet,
         files' = Put(name[r], e, f), name' = name,
         NEW p \in Steps, pc' = [pc EXCEPT ![r] = p],
         pc[r] \in Holding \/ ~Exists(name[r], "md"),
         VouchesAt(files'[name[r]]),
         ProgressOf(r)',
         files[name[r]][e].state # "whole"
  PROVE  /\ \A n \in Names : VouchesAt(files'[n])
         /\ Progress'
         /\ WholeStays
<1>1. /\ Typed /\ Claims
      /\ pc \in [Runs -> Steps] /\ name \in [Runs -> Names]
  BY DEF Vouched, Inv, Typed
<1>2. /\ \A n \in Names \ {name[r]} : files'[n] = files[n]
      /\ \A d \in Extensions \ {e} : files'[name[r]][d] = files[name[r]][d]
  BY <1>1 DEF Typed, Put
<1>3. \A n \in Names : VouchesAt(files'[n])
  BY <1>2 DEF Vouched
<1>4. ASSUME NEW q \in Runs
      PROVE  ProgressOf(q)'
  <2>1. CASE q # r
    <3>1. ProgressOf(q) /\ pc'[q] = pc[q] /\ name'[q] = name[q]
      BY <1>1, <2>1 DEF Vouched, Progress
    <3>2. CASE pc[q] \in Holding
      <4>1. Exists(name[q], "md") /\ At(name[q], "md").by = q
        BY <1>1, <3>2 DEF Claims
      <4>2. pc[r] \in Holding => At(name[r], "md").by = r
        BY <1>1 DEF Claims
      <4>3. name[q] # name[r]
        BY <2>1, <4>1, <4>2
      <4>4. files'[name[q]] = files[name[q]]
        BY <1>1, <1>2, <4>3
      <4> QED BY <3>1, <4>4 DEF ProgressOf
    <3>3. CASE pc[q] \notin Holding
      <4>1. pc'[q] \notin {"report", "fillLog", "fillManifest", "bundle", "tar"}
        BY <3>1, <3>3 DEF Holding, Gone, Steps, Over, BeforeClaim
      <4> QED BY <4>1 DEF ProgressOf
    <3> QED BY <3>2, <3>3
  <2> QED BY <2>1
<1>5. WholeStays
  BY <1>1, <1>2 DEF WholeStays, At
<1> QED BY <1>3, <1>4, <1>5 DEF Progress

(* The files a holder finds under its name are its own.                    *)
LEMMA HolderFiles ==
  ASSUME Vouched, NEW r \in Runs, pc[r] \in Holding
  PROVE  /\ files[name[r]] \in [Extensions -> FileSet]
         /\ VouchesAt(files[name[r]])
         /\ \A e \in Extensions :
              files[name[r]][e] = Absent \/ files[name[r]][e].by = r
         /\ ProgressOf(r)
<1>1. name[r] \in Names /\ files \in [Names -> [Extensions -> FileSet]]
  BY DEF Vouched, Inv, Typed
<1>2. files[name[r]]["md"].by = r
  BY DEF Vouched, Inv, Claims, At
<1>3. \A e \in Extensions :
        files[name[r]][e] = Absent \/ files[name[r]][e].by = r
  BY <1>1, <1>2 DEF Vouched, Inv, OwnArtifacts, At, Exists
<1> QED BY <1>1, <1>3 DEF Vouched, Progress

LEMMA VouchedStep ==
  ASSUME Vouched, [Next]_vars
  PROVE  Vouched' /\ WholeStays
<1>1. Inv /\ Inv' /\ Typed /\ Claims /\ OwnArtifacts
  BY InvStep DEF Vouched, Inv
<1>2. CASE UNCHANGED vars
  BY <1>1, <1>2 DEF vars, Vouched, Progress, ProgressOf, WholeStays, At
<1>3. ASSUME NEW r \in Runs, Emit(r) \/ Crash(r)
      PROVE  /\ \A n \in Names : VouchesAt(files'[n])
             /\ Progress'
             /\ WholeStays
  <2> DEFINE m == name[r]
             F == files[m]
             Kept == /\ \A n \in Names : VouchesAt(files'[n])
                     /\ Progress'
                     /\ WholeStays
  <2> SUFFICES Kept
    OBVIOUS
  <2> USE DEF Go
  <2>1. /\ pc \in [Runs -> Steps] /\ m \in Names
        /\ name \in [Runs -> Names]
        /\ files \in [Names -> [Extensions -> FileSet]]
        /\ F \in [Extensions -> FileSet]
        /\ VouchesAt(F)
    BY <1>1 DEF Typed, Vouched
  <2>2. pc[r] \in Holding =>
          /\ \A e \in Extensions : F[e] = Absent \/ F[e].by = r
          /\ ProgressOf(r)
    BY HolderFiles
  <2>3. /\ \A q \in Runs, s \in {"empty", "cut", "whole"} :
             /\ File(q, s) \in FileSet
             /\ File(q, s) # Absent
             /\ File(q, s).by = q
             /\ File(q, s).state = s
        /\ Absent \in FileSet
        /\ Absent.state = "absent"
    BY FileTypes
  <2>4. \A f \in FileSet : f = Absent \/ (f.by \in Runs /\ f = File(f.by, f.state))
    BY DEF FileSet, File
  <2>5. /\ Steps \ {"report", "fillLog", "fillManifest", "bundle", "tar"} =
             {"running", "claim", "log", "checkLog", "manifest", "append",
              "lock", "write"} \cup Over
        /\ Holding = {"report", "log", "fillLog", "checkLog", "manifest",
                      "fillManifest", "bundle", "tar", "append", "lock", "write",
                      "done", "unappended"}
    BY DEF Steps, Holding, Gone, Over, BeforeClaim
  <2>6. ASSUME NEW e \in Extensions, NEW f \in FileSet, files' = Put(m, e, f)
        PROVE  /\ files'[m][e] = f
               /\ \A d \in Extensions \ {e} : files'[m][d] = F[d]
    BY <2>1, <2>6 DEF Put
  <2>7. ASSUME files' = files, name' = name,
               pc' = [pc EXCEPT ![r] = pc'[r]],
               pc'[r] \notin {"report", "fillLog", "fillManifest", "bundle", "tar"}
        PROVE  Kept
    <3>1. \A q \in Runs \ {r} : pc'[q] = pc[q] /\ name'[q] = name[q]
      BY <2>1, <2>7
    <3> QED BY <2>7, <3>1, NoFileStep
  <2>8. ASSUME NEW e \in Extensions, NEW f \in FileSet,
               files' = Put(m, e, f), name' = name,
               NEW p \in Steps, pc' = [pc EXCEPT ![r] = p],
               pc[r] \in Holding \/ ~Exists(m, "md"),
               VouchesAt(files'[m]),
               ProgressOf(r)',
               F[e].state # "whole"
        PROVE  Kept
    BY <2>8, FileStep
  <2> HIDE DEF m, F, Kept
  <2>9. CASE \/ FinishChallenges(r) \/ ClaimThrows(r) \/ OpenDatabase(r) \/ TakeLock(r)
             \/ AppendThrows(r) \/ CloseChannel(r) \/ Crash(r)
    <3>1. /\ files' = files /\ name' = name
          /\ \E p \in {"claim", "lock", "write"} \cup Over : pc' = [pc EXCEPT ![r] = p]
      BY <2>9 DEF FinishChallenges, ClaimThrows, OpenDatabase, TakeLock, AppendThrows,
                  CloseChannel, Crash, Over
    <3>2. /\ pc' = [pc EXCEPT ![r] = pc'[r]]
          /\ pc'[r] \notin {"report", "fillLog", "fillManifest", "bundle", "tar"}
      BY <2>1, <3>1 DEF Over
    <3> QED BY <2>7, <3>1, <3>2
  <2>10. CASE ClaimNext(r)
    <3>1. Skips(r) /\ pc[r] = "claim" /\ pc' = [pc EXCEPT ![r] = "claim"]
      BY <2>1, <2>10 DEF ClaimNext, Skips
    <3>2. /\ files' = files /\ pc'[r] = "claim"
          /\ \A q \in Runs \ {r} : pc'[q] = pc[q] /\ name'[q] = name[q]
      BY <2>1, <3>1 DEF Skips
    <3> QED BY <3>2, NoFileStep DEF Kept
  <2>11. CASE AppendPiece(r)
    <3>1. files' = files /\ name' = name /\ pc' = [pc EXCEPT ![r] = "write"]
      BY <2>1, <2>11 DEF AppendPiece
    <3>2. pc' = [pc EXCEPT ![r] = pc'[r]] /\ pc'[r] = "write"
      BY <2>1, <3>1
    <3> QED BY <2>7, <3>1, <3>2
  <2>12. CASE Claim(r)
    <3>1. /\ files' = Put(m, "md", File(r, "empty")) /\ name' = name
          /\ pc' = [pc EXCEPT ![r] = "report"]
          /\ ~Exists(m, "md") /\ F["md"] = Absent
      BY <2>12 DEF Claim, Exists, At, m, F
    <3>2. /\ files'[m]["md"] = File(r, "empty")
          /\ \A d \in Extensions \ {"md"} : files'[m][d] = F[d]
      BY <2>3, <2>6, <3>1, ExtensionNames
    <3>3. VouchesAt(files'[m])
      BY <2>1, <3>2 DEF VouchesAt, Extensions
    <3>4. ProgressOf(r)'
      BY <2>1, <3>1, <3>2 DEF ProgressOf, m
    <3> QED BY <2>3, <2>8, <3>1, <3>3, <3>4, ExtensionNames DEF Steps
  <2>13. CASE WriteReport(r)
    <3>1. PICK s \in {"empty", "cut", "whole"}, p \in {"log", "unreported"} :
            /\ files' = Put(m, "md", File(r, s))
            /\ pc' = [pc EXCEPT ![r] = p]
      BY <2>13 DEF WriteReport, m
    <3>2. name' = name /\ pc[r] \in Holding /\ F["md"].state # "whole"
      BY <2>2, <2>3, <2>5, <2>13 DEF WriteReport, ProgressOf, m, F
    <3>3. /\ files'[m]["md"] = File(r, s)
          /\ \A d \in Extensions \ {"md"} : files'[m][d] = F[d]
      BY <2>3, <2>6, <3>1, ExtensionNames
    <3>4. VouchesAt(files'[m])
      BY <2>1, <3>3 DEF VouchesAt, Extensions
    <3>5. ProgressOf(r)'
      BY <2>1, <3>1 DEF ProgressOf
    <3> QED BY <2>3, <2>8, <3>1, <3>2, <3>4, <3>5, ExtensionNames DEF Steps, Over
  <2>14. CASE CreateLog(r)
    <3>1. CASE files' = files
      <4>1. \/ pc' = [pc EXCEPT ![r] = "append"] /\ name' = name
            \/ files' = Put(m, "private.log", File(r, "empty")) /\ F["private.log"] = Absent
        BY <2>14 DEF CreateLog, Fail, Exists, At, m, F
      <4>2. files' # Put(m, "private.log", File(r, "empty")) \/ F["private.log"] # Absent
        BY <2>3, <2>6, <3>1, ExtensionNames DEF F
      <4>3. pc' = [pc EXCEPT ![r] = pc'[r]] /\ pc'[r] = "append"
        BY <2>1, <4>1, <4>2
      <4> QED BY <2>7, <3>1, <4>1, <4>2, <4>3
    <3>2. CASE files' # files
      <4>1. /\ files' = Put(m, "private.log", File(r, "empty")) /\ name' = name
            /\ pc' = [pc EXCEPT ![r] = "fillLog"]
            /\ pc[r] \in Holding /\ F["private.log"] = Absent
        BY <2>5, <2>14, <3>2 DEF CreateLog, Exists, At, m, F
      <4>2. /\ files'[m]["private.log"] = File(r, "empty")
            /\ \A d \in Extensions \ {"private.log"} : files'[m][d] = F[d]
        BY <2>3, <2>6, <4>1, ExtensionNames
      <4>3. F["manifest.json"] = Absent /\ F["bundle.tar.gz"] = Absent
        BY <2>1, <2>3, <2>4, <4>1, ExtensionNames DEF VouchesAt
      <4>4. VouchesAt(files'[m])
        BY <4>2, <4>3 DEF VouchesAt, Extensions
      <4>5. ProgressOf(r)'
        BY <2>1, <4>1, <4>2 DEF ProgressOf, m
      <4> QED BY <2>3, <2>8, <4>1, <4>4, <4>5, ExtensionNames DEF Steps
    <3> QED BY <3>1, <3>2
  <2>15. CASE FillLog(r)
    <3>1. PICK s \in {"cut", "whole"} :
            files' = Put(m, "private.log", File(r, s))
      BY <2>15 DEF FillLog, m
    <3>2. /\ name' = name
          /\ pc' = [pc EXCEPT ![r] = "checkLog"]
          /\ pc[r] \in Holding /\ F["private.log"] = File(r, "empty")
      BY <2>2, <2>5, <2>15 DEF FillLog, ProgressOf, m, F
    <3>3. /\ files'[m]["private.log"] = File(r, s)
          /\ \A d \in Extensions \ {"private.log"} : files'[m][d] = F[d]
      BY <2>3, <2>6, <3>1, ExtensionNames
    <3>4. F["manifest.json"] = Absent /\ F["bundle.tar.gz"] = Absent
      BY <2>1, <2>3, <2>4, <3>2, ExtensionNames DEF VouchesAt
    <3>5. VouchesAt(files'[m])
      BY <3>3, <3>4 DEF VouchesAt, Extensions
    <3>6. ProgressOf(r)'
      BY <2>1, <3>2 DEF ProgressOf
    <3> QED BY <2>3, <2>8, <3>1, <3>2, <3>5, <3>6, ExtensionNames DEF Steps
  <2>16. CASE CheckLog(r)
    <3>1. CASE F["private.log"] = File(r, "whole")
      <4>1. /\ files' = files /\ name' = name
            /\ pc' = [pc EXCEPT ![r] = "manifest"]
        BY <2>16, <3>1 DEF CheckLog, At, m, F
      <4>2. pc' = [pc EXCEPT ![r] = pc'[r]] /\ pc'[r] = "manifest"
        BY <2>1, <4>1
      <4> QED BY <2>7, <4>1, <4>2
    <3>2. CASE F["private.log"] # File(r, "whole")
      <4>1. /\ files' = Put(m, "private.log", Absent) /\ name' = name
            /\ pc' = [pc EXCEPT ![r] = "append"]
            /\ pc[r] \in Holding
        BY <2>5, <2>16, <3>2 DEF CheckLog, Fail, At, m, F
      <4>2. /\ files'[m]["private.log"] = Absent
            /\ \A d \in Extensions \ {"private.log"} : files'[m][d] = F[d]
        BY <2>3, <2>6, <4>1, ExtensionNames
      <4>3. F["private.log"].state # "whole"
        BY <2>1, <2>2, <2>3, <2>4, <3>2, <4>1, ExtensionNames
      <4>4. F["manifest.json"] = Absent /\ F["bundle.tar.gz"] = Absent
        BY <2>1, <2>3, <2>4, <4>3, ExtensionNames DEF VouchesAt
      <4>5. VouchesAt(files'[m])
        BY <4>2, <4>4 DEF VouchesAt, Extensions
      <4>6. ProgressOf(r)'
        BY <2>1, <4>1 DEF ProgressOf
      <4> QED BY <2>3, <2>8, <4>1, <4>3, <4>5, <4>6, ExtensionNames DEF Steps
    <3> QED BY <3>1, <3>2
  <2>17. CASE StartManifest(r)
    <3>1. CASE files' = files
      <4>1. /\ name' = name
            /\ \/ pc' = [pc EXCEPT ![r] = "append"]
               \/ files' = Put(m, "manifest.json", File(r, "cut"))
                  /\ ~Exists(m, "manifest.json")
        BY <2>17 DEF StartManifest, Fail, m
      <4>2. files' # Put(m, "manifest.json", File(r, "cut"))
              \/ Exists(m, "manifest.json")
        BY <2>3, <2>6, <3>1, ExtensionNames DEF Exists, At, F
      <4>3. pc' = [pc EXCEPT ![r] = pc'[r]] /\ pc'[r] = "append"
        BY <2>1, <4>1, <4>2
      <4> QED BY <2>7, <3>1, <4>1, <4>2, <4>3
    <3>2. CASE files' # files
      <4>1. /\ files' = Put(m, "manifest.json", File(r, "cut")) /\ name' = name
            /\ pc' = [pc EXCEPT ![r] = "fillManifest"]
            /\ pc[r] \in Holding
            /\ F["manifest.json"] = Absent
            /\ F["private.log"] = File(r, "whole")
        BY <2>5, <2>17, <3>2 DEF StartManifest, LogIntact, Exists, At, m, F
      <4>2. /\ files'[m]["manifest.json"] = File(r, "cut")
            /\ \A d \in Extensions \ {"manifest.json"} : files'[m][d] = F[d]
        BY <2>3, <2>6, <4>1, ExtensionNames
      <4>3. F["bundle.tar.gz"] = Absent
        BY <2>1, <2>3, <2>4, <4>1, ExtensionNames DEF VouchesAt
      <4>4. VouchesAt(files'[m])
        BY <2>3, <4>1, <4>2, <4>3 DEF VouchesAt, Extensions
      <4>5. ProgressOf(r)'
        BY <2>1, <4>1, <4>2 DEF ProgressOf, m
      <4> QED BY <2>3, <2>8, <4>1, <4>4, <4>5, ExtensionNames DEF Steps
    <3> QED BY <3>1, <3>2
  <2>18. CASE FillManifest(r)
    <3>1. CASE files' = Put(m, "manifest.json", File(r, "whole")) /\ Go(r, "bundle")
      <4>1. /\ name' = name
            /\ pc' = [pc EXCEPT ![r] = "bundle"]
            /\ pc[r] \in Holding /\ F["manifest.json"] = File(r, "cut")
        BY <2>2, <2>5, <2>18, <3>1 DEF FillManifest, Fail, ProgressOf, m, F
      <4>2. /\ files'[m]["manifest.json"] = File(r, "whole")
            /\ \A d \in Extensions \ {"manifest.json"} : files'[m][d] = F[d]
        BY <2>3, <2>6, <3>1, ExtensionNames
      <4>3. F["bundle.tar.gz"] = Absent /\ F["private.log"] = File(r, "whole")
        BY <2>1, <2>3, <2>4, <4>1, ExtensionNames DEF VouchesAt
      <4>4. VouchesAt(files'[m])
        BY <2>3, <4>2, <4>3 DEF VouchesAt, Extensions
      <4>5. ProgressOf(r)'
        BY <2>1, <4>1, <4>2 DEF ProgressOf, m
      <4>6. "bundle" \in Steps /\ F["manifest.json"].state # "whole"
        BY <2>3, <4>1 DEF Steps
      <4> QED BY <2>3, <2>8, <3>1, <4>1, <4>4, <4>5, <4>6, ExtensionNames
    <3>2. CASE Fail(r) /\ UNCHANGED files
      <4>1. name' = name /\ pc' = [pc EXCEPT ![r] = "append"]
        BY <3>2 DEF Fail
      <4>2. pc' = [pc EXCEPT ![r] = pc'[r]] /\ pc'[r] = "append"
        BY <2>1, <4>1
      <4> QED BY <2>7, <3>2, <4>1, <4>2
    <3> QED BY <2>18, <3>1, <3>2 DEF FillManifest, m
  <2>19. CASE StartBundle(r)
    <3>1. CASE F["bundle.tar.gz"] # Absent
      <4>1. /\ files' = files /\ name' = name
            /\ pc' = [pc EXCEPT ![r] = "append"]
        BY <2>19, <3>1 DEF StartBundle, Exists, At, m, F
      <4>2. pc' = [pc EXCEPT ![r] = pc'[r]] /\ pc'[r] = "append"
        BY <2>1, <4>1
      <4> QED BY <2>7, <4>1, <4>2
    <3>2. CASE F["bundle.tar.gz"] = Absent
      <4>1. /\ files' = Put(m, "bundle.tar.gz", File(r, "cut")) /\ name' = name
            /\ pc' = [pc EXCEPT ![r] = "tar"]
            /\ pc[r] \in Holding /\ F["manifest.json"] = File(r, "whole")
        BY <2>2, <2>5, <2>19, <3>2 DEF StartBundle, Exists, At, ProgressOf, m, F
      <4>2. /\ files'[m]["bundle.tar.gz"] = File(r, "cut")
            /\ \A d \in Extensions \ {"bundle.tar.gz"} : files'[m][d] = F[d]
        BY <2>3, <2>6, <4>1, ExtensionNames
      <4>3. VouchesAt(files'[m])
        BY <2>1, <2>3, <4>1, <4>2 DEF VouchesAt, Extensions
      <4>4. ProgressOf(r)'
        BY <2>1, <4>1, <4>2 DEF ProgressOf, m, Extensions
      <4> QED BY <2>3, <2>8, <3>2, <4>1, <4>3, <4>4, ExtensionNames DEF Steps
    <3> QED BY <3>1, <3>2
  <2>20. CASE FinishBundle(r)
    <3>1. /\ name' = name
          /\ pc' = [pc EXCEPT ![r] = "append"]
          /\ pc[r] \in Holding
          /\ F["manifest.json"] = File(r, "whole")
          /\ F["bundle.tar.gz"] = File(r, "cut")
      BY <2>2, <2>5, <2>20 DEF FinishBundle, Fail, ProgressOf, m, F
    <3>2. PICK f \in {File(r, "whole"), Absent} :
            files' = Put(m, "bundle.tar.gz", f)
      BY <2>20 DEF FinishBundle, m
    <3>3. f \in FileSet /\ (f = Absent \/ f.by = r)
      BY <2>3, <3>2
    <3>4. /\ files'[m]["bundle.tar.gz"] = f
          /\ \A d \in Extensions \ {"bundle.tar.gz"} : files'[m][d] = F[d]
      BY <2>6, <3>2, <3>3, ExtensionNames
    <3>5. VouchesAt(files'[m])
      BY <2>1, <3>1, <3>3, <3>4 DEF VouchesAt, Extensions
    <3>6. ProgressOf(r)'
      BY <2>1, <3>1 DEF ProgressOf
    <3> QED BY <2>3, <2>8, <3>1, <3>2, <3>3, <3>5, <3>6, ExtensionNames DEF Steps
  <2> QED
    BY <1>3, <2>9, <2>10, <2>11, <2>12, <2>13, <2>14, <2>15, <2>16, <2>17,
       <2>18, <2>19, <2>20 DEF Emit
<1> QED BY <1>1, <1>2, <1>3 DEF Next, Vouched

LEMMA InitVouched == Init => Vouched
<1> SUFFICES ASSUME Init
             PROVE  Vouched
  OBVIOUS
<1>1. \A n \in Names : VouchesAt(files[n])
  BY DEF Init, VouchesAt, Extensions
<1>2. Progress
  BY DEF Init, Progress, ProgressOf
<1> QED BY <1>1, <1>2, InitInv DEF Vouched

LEMMA VouchedInvariant == Spec => []Vouched
<1> QED BY InitVouched, VouchedStep, PTL DEF Spec

(* A manifest vouches only for a log that is there in full, and a bundle   *)
(* only stands beside its whole manifest, whoever was killed and when      *)
(* (write-evaluator-log!, write-run-manifest!, write-run-bundle!).         *)
THEOREM ManifestsVouch == Spec => []ManifestVouches
<1>1. Vouched => ManifestVouches
  BY DEF Vouched, VouchesAt, ManifestVouches, At, Exists
<1> QED BY <1>1, VouchedInvariant, PTL

(* A whole artifact is never written again, by any run.                    *)
THEOREM WholeArtifactsStay == Spec => ArtifactsStay
<1>1. Vouched /\ [Next]_vars => WholeStays
  BY VouchedStep
<1>2. WholeStays => [\A n \in Names, e \in Extensions :
                      At(n, e).state = "whole" => files'[n][e] = At(n, e)]_vars
  BY DEF WholeStays
<1> QED BY <1>1, <1>2, VouchedInvariant, PTL DEF Spec, ArtifactsStay

-----------------------------------------------------------------------------
(* The database.                                                           *)

(* A run appends only while it holds the lock, and its pieces are the last *)
(* ones as long as it does.                                                *)
MayHavePieces == {"write", "done", "unappended", "killed"}

Blocks ==
  /\ Inv
  /\ \A r \in Runs : pc[r] = "write" => lock = r
  /\ \A r \in Runs : pc[r] \notin MayHavePieces =>
       \A i \in DOMAIN db : db[i] # r
  /\ \A r \in Runs : pc[r] = "write" =>
       \A i \in DOMAIN db : db[i] = r => db[Len(db)] = r
  /\ NeverInterleaved

(* Steps that do not touch the database.                                   *)
LEMMA QuietStep ==
  ASSUME Blocks, NEW r \in Runs, Inv',
         db' = db, \A q \in Runs \ {r} : pc'[q] = pc[q],
         pc'[r] # "write" \/ (pc[r] \notin MayHavePieces /\ lock' = r),
         pc'[r] \in MayHavePieces \/ pc[r] \notin MayHavePieces,
         \A q \in Runs \ {r} : lock = q => lock' = q
  PROVE  Blocks'
<1>1. \A q \in Runs : pc'[q] = "write" => lock' = q
  BY DEF Blocks
<1>2. \A q \in Runs : pc'[q] \notin MayHavePieces =>
        \A i \in DOMAIN db : db[i] # q
  BY DEF Blocks
<1>3. \A q \in Runs : pc'[q] = "write" =>
        \A i \in DOMAIN db : db[i] = q => db[Len(db)] = q
  BY DEF Blocks
<1> QED BY <1>1, <1>2, <1>3 DEF Blocks, NeverInterleaved

LEMMA BlocksStep == Blocks /\ [Next]_vars => Blocks'
<1> SUFFICES ASSUME Blocks, [Next]_vars
             PROVE  Blocks'
  OBVIOUS
<1>1. Inv /\ Inv' /\ pc \in [Runs -> Steps] /\ db \in Seq(Runs)
  BY InvStep DEF Blocks, Inv, Typed
<1>2. CASE UNCHANGED vars
  BY <1>1, <1>2 DEF vars, Blocks, NeverInterleaved
<1>3. ASSUME NEW r \in Runs, Emit(r) \/ Crash(r)
      PROVE  Blocks'
  <2> USE DEF Go, MayHavePieces
  <2>1. CASE \/ FinishChallenges(r) \/ Claim(r) \/ ClaimNext(r) \/ ClaimThrows(r)
             \/ WriteReport(r) \/ OpenDatabase(r)
    BY <1>1, <2>1, QuietStep
       DEF FinishChallenges, Claim, ClaimNext, ClaimThrows, WriteReport, OpenDatabase
  <2>2. CASE CreateLog(r) \/ FillLog(r) \/ CheckLog(r)
    BY <1>1, <2>2, QuietStep DEF CreateLog, FillLog, CheckLog, Fail
  <2>3. CASE StartManifest(r) \/ FillManifest(r)
    BY <1>1, <2>3, QuietStep DEF StartManifest, FillManifest, Fail
  <2>4. CASE StartBundle(r) \/ FinishBundle(r)
    BY <1>1, <2>4, QuietStep DEF StartBundle, FinishBundle, Fail
  <2>5. CASE TakeLock(r)
    <3>1. \A q \in Runs : lock # q
      BY <2>5, ReportsAssumption DEF TakeLock
    <3> QED BY <1>1, <2>5, <3>1, QuietStep DEF TakeLock
  <2>6. CASE CloseChannel(r) \/ AppendThrows(r)
    <3>1. lock = r
      BY <2>6 DEF CloseChannel, AppendThrows, Blocks
    <3> QED BY <1>1, <2>6, <3>1, QuietStep DEF CloseChannel, AppendThrows
  <2>7. CASE Crash(r)
    BY <1>1, <2>7, QuietStep DEF Crash, Over
  <2>8. CASE AppendPiece(r)
    <3> DEFINE n == Len(db)
    <3>1. /\ pc[r] = "write" /\ lock = r
          /\ pc' = pc /\ lock' = lock /\ db' = Append(db, r)
      BY <2>8 DEF AppendPiece, Blocks
    <3>2. \A q \in Runs : pc[q] = "write" => q = r
      BY <3>1 DEF Blocks
    <3>3. /\ n \in Nat /\ DOMAIN db = 1..n
          /\ Len(db') = n + 1 /\ DOMAIN db' = 1..(n + 1)
          /\ \A i \in 1..n : db'[i] = db[i]
          /\ db'[n + 1] = r
      BY <1>1, <3>1
    <3>4. \A i \in 1..n : db[i] = r => db[n] = r
      BY <3>1, <3>3 DEF Blocks
    <3>5. \A i, j, k \in 1..n :
            (i < j /\ j < k /\ db[i] = db[k]) => db[j] = db[i]
      BY <3>3 DEF Blocks, NeverInterleaved
    <3> HIDE DEF n
    <3>6. ASSUME NEW i \in 1..(n + 1), NEW j \in 1..(n + 1), NEW k \in 1..(n + 1),
                 i < j, j < k, db'[i] = db'[k]
          PROVE  db'[j] = db'[i]
      <4>1. i \in 1..n /\ j \in 1..n
        BY <3>3, <3>6
      <4>2. CASE k \in 1..n
        BY <3>3, <3>5, <3>6, <4>1, <4>2
      <4>3. CASE k = n + 1
        <5>1. db[i] = r /\ db[n] = r
          BY <3>3, <3>4, <3>6, <4>1, <4>3
        <5>2. CASE j = n
          BY <3>3, <4>1, <5>1, <5>2
        <5>3. CASE j < n
          <6>1. n \in 1..n
            BY <3>3, <4>1
          <6> QED BY <3>3, <3>5, <3>6, <4>1, <5>1, <5>3, <6>1
        <5> QED BY <3>3, <4>1, <5>2, <5>3
      <4> QED BY <3>3, <4>2, <4>3
    <3>7. NeverInterleaved'
      BY <3>3, <3>6 DEF NeverInterleaved
    <3>8. \A q \in Runs : pc[q] \notin MayHavePieces =>
            \A i \in 1..(n + 1) : db'[i] # q
      <4> SUFFICES ASSUME NEW q \in Runs, pc[q] \notin MayHavePieces,
                          NEW i \in 1..(n + 1)
                   PROVE  db'[i] # q
        OBVIOUS
      <4>1. CASE i = n + 1
        BY <3>1, <3>3, <4>1
      <4>2. CASE i \in 1..n
        BY <3>3, <4>2 DEF Blocks
      <4> QED BY <3>3, <4>1, <4>2
    <3> QED BY <1>1, <3>1, <3>2, <3>3, <3>7, <3>8 DEF Blocks
  <2> QED
    BY <1>3, <2>1, <2>2, <2>3, <2>4, <2>5, <2>6, <2>7, <2>8 DEF Emit
<1> QED BY <1>2, <1>3 DEF Next

(* Concurrent runners never interleave records in results.edn              *)
(* (append-locked!), and a killed one spoils nobody else's.                *)
THEOREM RecordsStayTogether == Spec => []NeverInterleaved
<1>1. Init => Blocks
  <2>1. Init => db = <<>> /\ \A r \in Runs : pc[r] = "running"
    BY DEF Init
  <2> QED BY <2>1, InitInv DEF Blocks, NeverInterleaved
<1>2. Blocks => NeverInterleaved
  BY DEF Blocks
<1> QED BY <1>1, <1>2, BlocksStep, PTL DEF Spec

-----------------------------------------------------------------------------
(* What a run owes, and has kept, of its artifacts and its records.        *)

BeforeManifest == {"report", "log", "fillLog", "checkLog", "manifest"}
AfterBundle == {"append", "lock", "write", "done", "unappended"}

OwedBy(r) ==
  /\ pc[r] = "report" => files[name[r]]["private.log"] = Absent
  /\ pc[r] \in BeforeManifest => files[name[r]]["manifest.json"] = Absent
  /\ pc[r] = "bundle" => files[name[r]]["bundle.tar.gz"] = Absent
  /\ pc[r] \in Holding \ {"report"} => files[name[r]]["md"] = File(r, "whole")
  /\ pc[r] \in AfterBundle /\ r \notin failed =>
       files[name[r]]["bundle.tar.gz"] = File(r, "whole")

CountedOf(r) ==
  /\ Cardinality(PiecesOf(r)) = written[r]
  /\ pc[r] = "done" => written[r] = Pieces

(* Records stand beside their report.                                      *)
BackedOf(r) == PiecesOf(r) # {} => At(name[r], "md") = File(r, "whole")

(* All there is of a run that could not write its report.                  *)
UnreportedOf(r) ==
  pc[r] = "unreported" =>
    \A n \in Names, e \in Extensions :
      At(n, e).by = r => e = "md" /\ At(n, e).state # "whole"

Owed == \A r \in Runs : OwedBy(r)
Counted == \A r \in Runs : CountedOf(r)
Backed == \A r \in Runs : BackedOf(r)
Unreported == \A r \in Runs : UnreportedOf(r)

(* A step of one run leaves every other where it is, with its files.       *)
LEMMA OtherRuns ==
  ASSUME Vouched, NEW r \in Runs, Emit(r) \/ Crash(r), NEW q \in Runs \ {r}
  PROVE  /\ pc'[q] = pc[q] /\ name'[q] = name[q]
         /\ q \in failed' <=> q \in failed
         /\ pc[q] \in Holding => files'[name[q]] = files[name[q]]
         /\ \A n \in Names, e \in Extensions :
              At(n, e)'.by = q => At(n, e)' = At(n, e)
<1>1. /\ pc \in [Runs -> Steps] /\ name \in [Runs -> Names]
      /\ files \in [Names -> [Extensions -> FileSet]]
      /\ Typed /\ Claims
  BY DEF Vouched, Inv, Typed
<1>2. \/ Leaves(r) \/ Takes(r) \/ Skips(r)
      \/ \E e \in Extensions, f \in FileSet : Writes(r, e, f)
  BY <1>1, StepsOf
<1>3. pc'[q] = pc[q] /\ name'[q] = name[q]
  BY <1>1, <1>2 DEF Leaves, Takes, Skips, Writes, Moves
<1>4. q \in failed' <=> q \in failed
  BY DEF Emit, FinishChallenges, Claim, ClaimNext, ClaimThrows, WriteReport, CreateLog,
     FillLog, CheckLog, StartManifest, FillManifest, StartBundle, FinishBundle,
     OpenDatabase, TakeLock, AppendPiece, AppendThrows, CloseChannel, Crash, Fail
<1>5. ASSUME pc[q] \in Holding
      PROVE  files'[name[q]] = files[name[q]]
  <2>1. Exists(name[q], "md") /\ At(name[q], "md").by = q
    BY <1>1, <1>5 DEF Claims
  <2>2. pc[r] \in Holding => At(name[r], "md").by = r
    BY <1>1 DEF Claims
  <2>3. CASE files' = files
    BY <2>3
  <2>4. ASSUME NEW e \in Extensions, NEW f \in FileSet,
               files' = Put(name[r], e, f), name[q] # name[r]
        PROVE  files'[name[q]] = files[name[q]]
    BY <1>1, <2>4 DEF Put
  <2>5. CASE Takes(r)
    <3>1. name[q] # name[r] /\ files' = Put(name[r], "md", File(r, "empty"))
      BY <2>1, <2>5 DEF Takes
    <3> QED BY <2>4, <3>1, ExtensionNames, FileTypes
  <2>6. CASE \E e \in Extensions, f \in FileSet : Writes(r, e, f)
    <3>1. PICK e \in Extensions, f \in FileSet : Writes(r, e, f)
      BY <2>6
    <3>2. name[q] # name[r]
      BY <2>1, <2>2, <3>1 DEF Writes, Moves
    <3> QED BY <2>4, <3>1, <3>2 DEF Writes
  <2> QED BY <1>2, <2>3, <2>5, <2>6 DEF Leaves, Skips
<1>6. ASSUME NEW n \in Names, NEW e \in Extensions, At(n, e)'.by = q
      PROVE  At(n, e)' = At(n, e)
  <2>1. CASE files' = files
    BY <2>1 DEF At
  <2>2. ASSUME NEW d \in Extensions, NEW f \in FileSet,
               files' = Put(name[r], d, f), f.by # q
        PROVE  At(n, e)' = At(n, e)
    <3>1. name[r] \in Names
      BY <1>1
    <3>2. /\ files'[name[r]][d] = f
          /\ n # name[r] \/ e # d => files'[n][e] = files[n][e]
      BY <1>1, <2>2, <3>1 DEF Put
    <3>3. n # name[r] \/ e # d
      BY <1>6, <2>2, <3>2 DEF At
    <3> QED BY <3>2, <3>3 DEF At
  <2>3. CASE Takes(r)
    <3>1. /\ files' = Put(name[r], "md", File(r, "empty"))
          /\ File(r, "empty") \in FileSet /\ File(r, "empty").by # q
      BY <2>3, FileTypes DEF Takes
    <3> QED BY <2>2, <3>1, ExtensionNames
  <2>4. CASE \E d \in Extensions, f \in FileSet : Writes(r, d, f)
    <3>1. PICK d \in Extensions, f \in FileSet : Writes(r, d, f)
      BY <2>4
    <3>2. f.by # q
      BY <3>1, ReportsAssumption DEF Writes, Absent
    <3> QED BY <2>2, <3>1, <3>2 DEF Writes
  <2> QED BY <1>2, <2>1, <2>3, <2>4 DEF Leaves, Skips
<1> QED BY <1>3, <1>4, <1>5, <1>6

LEMMA OwedStep ==
  ASSUME Vouched, Owed, NEW r \in Runs, Emit(r) \/ Crash(r)
  PROVE  Owed'
<1> DEFINE m == name[r]
           F == files[m]
<1> USE DEF Go
<1>1. /\ pc \in [Runs -> Steps] /\ m \in Names /\ name \in [Runs -> Names]
      /\ files \in [Names -> [Extensions -> FileSet]]
      /\ F \in [Extensions -> FileSet]
      /\ VouchesAt(F) /\ OwnArtifacts
  BY DEF Vouched, Inv, Typed
<1>2. OwedBy(r)
  BY DEF Owed
<1>3. /\ Holding = {"report", "log", "fillLog", "checkLog", "manifest",
                    "fillManifest", "bundle", "tar", "append", "lock", "write",
                    "done", "unappended"}
  BY DEF Steps, Over, Gone, Holding, BeforeClaim
<1>4. /\ \A s \in {"empty", "cut", "whole"} :
           File(r, s) \in FileSet /\ File(r, s) # Absent /\ File(r, s).state = s
      /\ Absent \in FileSet
  BY FileTypes
<1>5. ASSUME NEW e \in Extensions, NEW f \in FileSet, files' = Put(m, e, f)
      PROVE  /\ files'[m][e] = f
             /\ \A d \in Extensions \ {e} : files'[m][d] = F[d]
  BY <1>1, <1>5 DEF Put
<1>6. pc[r] \in Holding => ProgressOf(r)
  BY DEF Vouched, Progress
<1> HIDE DEF m, F
<1>7. OwedBy(r)'
  <2> USE DEF OwedBy, BeforeManifest, AfterBundle
  <2>1. CASE FinishChallenges(r) \/ ClaimThrows(r)
    BY <1>1, <1>3, <2>1 DEF FinishChallenges, ClaimThrows
  <2>2. CASE Claim(r)
    <3>1. /\ files' = Put(m, "md", File(r, "empty")) /\ name' = name
          /\ pc'[r] = "report" /\ ~Exists(m, "md")
      BY <1>1, <2>2 DEF Claim, m
    <3>2. F["manifest.json"] = Absent /\ F["private.log"] = Absent
      BY <1>1, <3>1, ExtensionNames DEF OwnArtifacts, Exists, At, F
    <3>3. files'[m]["manifest.json"] = Absent /\ files'[m]["private.log"] = Absent
      BY <1>4, <1>5, <3>1, <3>2, ExtensionNames
    <3> QED BY <3>1, <3>3 DEF m
  <2>3. CASE ClaimNext(r)
    BY <1>3, <2>3 DEF ClaimNext
  <2>4. CASE WriteReport(r)
    <3>1. CASE pc'[r] = "unreported"
      BY <1>3, <3>1
    <3>2. CASE pc'[r] # "unreported"
      <4>1. /\ files' = Put(m, "md", File(r, "whole")) /\ name' = name
            /\ pc'[r] = "log" /\ pc[r] = "report"
        BY <1>1, <2>4, <3>2 DEF WriteReport, m
      <4>2. /\ files'[m]["md"] = File(r, "whole")
            /\ files'[m]["manifest.json"] = F["manifest.json"]
        BY <1>4, <1>5, <4>1, ExtensionNames
      <4> QED BY <1>2, <4>1, <4>2 DEF m, F
    <3> QED BY <3>1, <3>2
  <2>5. CASE CreateLog(r) \/ FillLog(r)
    <3>1. /\ name' = name /\ pc[r] \in {"log", "fillLog"}
          /\ pc'[r] \in {"fillLog", "checkLog"} \/ (pc'[r] = "append" /\ r \in failed')
      BY <1>1, <2>5 DEF CreateLog, FillLog, Fail
    <3>2. \/ files' = files
          \/ \E s \in {"empty", "cut", "whole"} : files' = Put(m, "private.log", File(r, s))
      BY <2>5 DEF CreateLog, FillLog, Fail, m
    <3>3. files'[m]["md"] = F["md"] /\ files'[m]["manifest.json"] = F["manifest.json"]
      BY <1>4, <1>5, <3>2, ExtensionNames DEF F
    <3> QED BY <1>2, <1>3, <3>1, <3>3 DEF m, F
  <2>6. CASE CheckLog(r)
    <3>1. /\ name' = name /\ pc[r] = "checkLog"
          /\ pc'[r] = "manifest" \/ (pc'[r] = "append" /\ r \in failed')
      BY <1>1, <2>6 DEF CheckLog, Fail
    <3>2. files' = files \/ files' = Put(m, "private.log", Absent)
      BY <2>6 DEF CheckLog, Fail, m
    <3>3. files'[m]["md"] = F["md"] /\ files'[m]["manifest.json"] = F["manifest.json"]
      BY <1>4, <1>5, <3>2, ExtensionNames DEF F
    <3> QED BY <1>2, <1>3, <3>1, <3>3 DEF m, F
  <2>7. CASE StartManifest(r)
    <3>1. pc[r] = "manifest" /\ F["manifest.json"] = Absent /\ F["md"] = File(r, "whole")
      BY <1>2, <1>3, <2>7 DEF StartManifest, m, F
    <3>2. /\ name' = name
          /\ \/ /\ files' = Put(m, "manifest.json", File(r, "cut"))
                /\ pc'[r] = "fillManifest"
             \/ files' = files /\ pc'[r] = "append" /\ r \in failed'
      BY <1>1, <2>7, <3>1 DEF StartManifest, Fail, Exists, At, m, F
    <3>3. files'[m]["md"] = F["md"]
      BY <1>4, <1>5, <3>2, ExtensionNames DEF F
    <3> QED BY <3>1, <3>2, <3>3 DEF m
  <2>8. CASE FillManifest(r)
    <3>1. /\ pc[r] = "fillManifest" /\ F["manifest.json"] = File(r, "cut")
          /\ F["md"] = File(r, "whole")
      BY <1>2, <1>3, <1>6, <2>8 DEF FillManifest, ProgressOf, m, F
    <3>2. F["bundle.tar.gz"] = Absent
      <4>1. ASSUME F["bundle.tar.gz"] # Absent PROVE FALSE
        <5>1. File(r, "cut") = File(F["bundle.tar.gz"].by, "whole")
          BY <1>1, <3>1, <4>1 DEF VouchesAt
        <5> QED BY <5>1 DEF File
      <4> QED BY <4>1
    <3>3. /\ name' = name
          /\ \/ /\ files' = Put(m, "manifest.json", File(r, "whole"))
                /\ pc'[r] = "bundle"
             \/ files' = files /\ pc'[r] = "append" /\ r \in failed'
      BY <1>1, <2>8 DEF FillManifest, Fail, m
    <3>4. files'[m]["md"] = F["md"] /\ files'[m]["bundle.tar.gz"] = F["bundle.tar.gz"]
      BY <1>4, <1>5, <3>3, ExtensionNames DEF F
    <3> QED BY <3>1, <3>2, <3>3, <3>4 DEF m
  <2>9. CASE StartBundle(r)
    <3>1. /\ pc[r] = "bundle" /\ F["bundle.tar.gz"] = Absent
          /\ F["md"] = File(r, "whole")
      BY <1>2, <1>3, <2>9 DEF StartBundle, m, F
    <3>2. /\ name' = name /\ pc'[r] = "tar"
          /\ files' = Put(m, "bundle.tar.gz", File(r, "cut"))
      BY <1>1, <2>9, <3>1 DEF StartBundle, Exists, At, m, F
    <3>3. files'[m]["md"] = F["md"]
      BY <1>4, <1>5, <3>2, ExtensionNames
    <3> QED BY <3>1, <3>2, <3>3 DEF m
  <2>10. CASE FinishBundle(r)
    <3>1. pc[r] = "tar" /\ F["md"] = File(r, "whole")
      BY <1>2, <1>3, <2>10 DEF FinishBundle, m, F
    <3>2. /\ name' = name /\ pc'[r] = "append"
          /\ \/ files' = Put(m, "bundle.tar.gz", File(r, "whole"))
             \/ files' = Put(m, "bundle.tar.gz", Absent) /\ r \in failed'
      BY <1>1, <2>10 DEF FinishBundle, Fail, m
    <3>3. /\ files'[m]["md"] = F["md"]
          /\ files'[m]["bundle.tar.gz"] = File(r, "whole") \/ r \in failed'
      BY <1>4, <1>5, <3>2, ExtensionNames
    <3> QED BY <3>1, <3>2, <3>3 DEF m
  <2>11. CASE \/ OpenDatabase(r) \/ TakeLock(r)
              \/ AppendPiece(r) \/ AppendThrows(r) \/ CloseChannel(r)
    BY <1>1, <1>2, <1>3, <2>11
       DEF OpenDatabase, TakeLock, AppendPiece, AppendThrows, CloseChannel
  <2>12. CASE Crash(r)
    BY <1>1, <1>3, <2>12 DEF Crash
  <2> QED BY <2>1, <2>2, <2>3, <2>4, <2>5, <2>6, <2>7, <2>8, <2>9, <2>10, <2>11,
             <2>12 DEF Emit
<1>8. ASSUME NEW q \in Runs \ {r}
      PROVE  OwedBy(q)'
  <2>1. /\ pc'[q] = pc[q] /\ name'[q] = name[q] /\ (q \in failed' <=> q \in failed)
        /\ pc[q] \in Holding => files'[name[q]] = files[name[q]]
    BY OtherRuns
  <2>2. OwedBy(q)
    BY DEF Owed
  <2>3. BeforeManifest \subseteq Holding /\ AfterBundle \subseteq Holding
        /\ "bundle" \in Holding
    BY <1>3 DEF BeforeManifest, AfterBundle
  <2>4. CASE pc[q] \in Holding
    <3>1. files'[name'[q]] = files[name[q]]
      BY <2>1, <2>4
    <3> QED BY <2>1, <2>2, <3>1 DEF OwedBy
  <2>5. CASE pc[q] \notin Holding
    <3>1. /\ pc'[q] \notin Holding /\ pc'[q] \notin BeforeManifest
          /\ pc'[q] \notin AfterBundle /\ pc'[q] # "bundle" /\ pc'[q] # "report"
      BY <1>3, <2>1, <2>3, <2>5
    <3> QED BY <3>1 DEF OwedBy
  <2> QED BY <2>4, <2>5
<1> QED BY <1>7, <1>8 DEF Owed

(* Nothing else writes to the database.                                   *)
LEMMA OnlyAppends ==
  ASSUME NEW r \in Runs, Emit(r) \/ Crash(r), ~AppendPiece(r)
  PROVE  db' = db /\ written' = written
BY DEF Emit, FinishChallenges, Claim, ClaimNext, ClaimThrows, WriteReport, CreateLog,
   FillLog, CheckLog, StartManifest, FillManifest, StartBundle, FinishBundle,
   OpenDatabase, TakeLock, AppendThrows, CloseChannel, Crash, Fail

(* One piece more for the run that holds the lock.                         *)
LEMMA CountedStep ==
  ASSUME Typed, Counted, NEW r \in Runs, Emit(r) \/ Crash(r)
  PROVE  Counted'
<1> USE DEF Go
<1>1. /\ pc \in [Runs -> Steps] /\ db \in Seq(Runs) /\ written \in [Runs -> 0..Pieces]
  BY DEF Typed
<1>2. CASE AppendPiece(r)
  <2> DEFINE n == Len(db)
  <2>1. /\ pc' = pc /\ pc[r] = "write" /\ db' = Append(db, r)
        /\ written' = [written EXCEPT ![r] = @ + 1]
    BY <1>2 DEF AppendPiece
  <2>2. /\ n \in Nat /\ DOMAIN db = 1..n /\ DOMAIN db' = 1..(n + 1)
        /\ \A i \in 1..n : db'[i] = db[i]
        /\ db'[n + 1] = r
    BY <1>1, <2>1
  <2> HIDE DEF n
  <2>3. ASSUME NEW q \in Runs \ {r} PROVE CountedOf(q)'
    <3>1. PiecesOf(q)' = PiecesOf(q)
      BY <2>2, <2>3 DEF PiecesOf
    <3> QED BY <1>1, <2>1, <2>3, <3>1 DEF Counted, CountedOf
  <2>4. CountedOf(r)'
    <3>1. PiecesOf(r)' = PiecesOf(r) \cup {n + 1} /\ n + 1 \notin PiecesOf(r)
      BY <2>2 DEF PiecesOf
    <3>2. IsFiniteSet(PiecesOf(r))
      <4>1. IsFiniteSet(1..n)
        BY <2>2, FS_Interval
      <4>2. PiecesOf(r) \subseteq 1..n
        BY <2>2 DEF PiecesOf
      <4> QED BY <4>1, <4>2, FS_Subset
    <3>3. Cardinality(PiecesOf(r)') = Cardinality(PiecesOf(r)) + 1
      BY <3>1, <3>2, FS_AddElement
    <3> QED BY <1>1, <2>1, <3>3 DEF Counted, CountedOf
  <2> QED BY <2>3, <2>4 DEF Counted
<1>3. CASE ~AppendPiece(r)
  <2>1. db' = db /\ written' = written
    BY <1>3, OnlyAppends
  <2>2. \A q \in Runs : pc'[q] = "done" => pc[q] = "done" \/ written[q] = Pieces
    BY <1>1, <1>3
       DEF Emit, FinishChallenges, Claim, ClaimNext, ClaimThrows, WriteReport, CreateLog,
       FillLog, CheckLog, StartManifest, FillManifest, StartBundle, FinishBundle,
       OpenDatabase, TakeLock, AppendThrows, CloseChannel, Crash, Fail
  <2> QED BY <2>1, <2>2 DEF Counted, CountedOf, PiecesOf
<1> QED BY <1>2, <1>3

(* A report is whole before the first record, and stays.                   *)
LEMMA BackedStep ==
  ASSUME Vouched, Blocks, Owed, Backed, WholeStays, NEW r \in Runs, Emit(r) \/ Crash(r)
  PROVE  Backed'
<1> SUFFICES ASSUME NEW q \in Runs, PiecesOf(q)' # {}
             PROVE  At(name[q], "md")' = File(q, "whole")
  BY DEF Backed, BackedOf
<1>1. /\ Typed /\ name \in [Runs -> Names] /\ db \in Seq(Runs)
  BY DEF Vouched, Inv, Typed
<1>2. pc[q] # "claim" => name'[q] = name[q]
  <2>1. CASE q = r
    BY <1>1, <2>1, StepsOf DEF Leaves, Takes, Skips, Writes
  <2>2. CASE q # r
    BY <2>2, OtherRuns
  <2> QED BY <2>1, <2>2
<1>3. CASE PiecesOf(q) # {}
  <2>1. pc[q] # "claim"
    BY <1>3 DEF Blocks, PiecesOf, MayHavePieces
  <2>2. At(name[q], "md") = File(q, "whole") /\ name'[q] = name[q]
    BY <1>2, <1>3, <2>1 DEF Backed, BackedOf
  <2>3. files'[name[q]]["md"] = At(name[q], "md")
    BY <1>1, <2>2, ExtensionNames, FileTypes DEF WholeStays
  <2> QED BY <2>2, <2>3 DEF At
<1>4. CASE PiecesOf(q) = {}
  <2>1. AppendPiece(r)
    <3>1. CASE db' = db
      BY <1>4, <3>1 DEF PiecesOf
    <3> QED BY <3>1, OnlyAppends
  <2>2. /\ files' = files /\ name' = name /\ pc[r] = "write"
        /\ db' = Append(db, r)
    BY <2>1 DEF AppendPiece
  <2>3. q = r
    BY <1>1, <1>4, <2>2 DEF PiecesOf
  <2>4. files[name[q]]["md"] = File(q, "whole")
    BY <2>2, <2>3 DEF Owed, OwedBy, Holding, Gone, Steps, Over, BeforeClaim
  <2> QED BY <2>2, <2>4 DEF At
<1> QED BY <1>3, <1>4

(* Whoever cannot write its report has written nothing else.               *)
LEMMA UnreportedStep ==
  ASSUME Vouched, Owed, Unreported, NEW r \in Runs, Emit(r) \/ Crash(r)
  PROVE  Unreported'
<1> DEFINE m == name[r]
<1> SUFFICES ASSUME NEW q \in Runs, pc'[q] = "unreported",
                    NEW n \in Names, NEW e \in Extensions, At(n, e)'.by = q
             PROVE  e = "md" /\ At(n, e)'.state # "whole"
  BY DEF Unreported, UnreportedOf
<1>1. /\ Typed /\ OwnArtifacts /\ Claims
      /\ pc \in [Runs -> Steps] /\ m \in Names
      /\ files \in [Names -> [Extensions -> FileSet]]
  BY DEF Vouched, Inv, Typed
<1>2. CASE q # r
  <2>1. pc[q] = "unreported" /\ At(n, e)' = At(n, e)
    BY <1>2, OtherRuns
  <2> QED BY <2>1 DEF Unreported, UnreportedOf
<1>3. CASE q = r
  <2>1. ClaimThrows(r) \/ WriteReport(r)
    BY <1>1, <1>3 DEF Emit, Crash, FinishChallenges, Claim, ClaimNext, CreateLog, FillLog,
       CheckLog, StartManifest, FillManifest, StartBundle, FinishBundle, OpenDatabase,
       TakeLock, AppendPiece, AppendThrows, CloseChannel, Fail, Go
  <2>2. Absent.by # r
    BY ReportsAssumption DEF Absent
  <2>3. CASE ClaimThrows(r)
    <3>1. At(n, e).by = r /\ pc[r] \in BeforeClaim
      BY <1>3, <2>3 DEF ClaimThrows, At, BeforeClaim
    <3>2. At(n, "md").by = r
      BY <1>1, <2>2, <3>1 DEF OwnArtifacts, Exists
    <3> QED BY <1>1, <3>1, <3>2 DEF Claims
  <2>4. CASE WriteReport(r)
    <3>1. pc[r] = "report" /\ pc'[r] = "unreported"
      BY <1>3, <2>4 DEF WriteReport
    <3>2. PICK s \in {"empty", "cut"} : files' = Put(m, "md", File(r, s))
      BY <1>1, <2>4, <3>1 DEF WriteReport, Go
    <3>3. /\ File(r, s) \in FileSet /\ File(r, s).state # "whole"
      BY FileTypes
    <3>4. /\ files'[m]["md"] = File(r, s)
          /\ n # m \/ e # "md" => At(n, e)' = At(n, e)
      BY <1>1, <3>2, <3>3, ExtensionNames DEF Put, At
    <3>5. CASE n = m /\ e = "md"
      BY <3>3, <3>4, <3>5 DEF At
    <3>6. CASE n # m
      <4>1. At(n, e).by = r
        BY <1>3, <3>4, <3>6
      <4> QED BY <1>1, <2>2, <3>6, <4>1 DEF OwnArtifacts, Exists
    <3>7. CASE n = m /\ e # "md"
      <4>1. /\ files[m]["private.log"] = Absent
            /\ files[m]["manifest.json"] = Absent
        BY <3>1 DEF Owed, OwedBy, BeforeManifest
      <4>2. files[m]["bundle.tar.gz"] = Absent
        <5>1. VouchesAt(files[m])
          BY <1>1 DEF Vouched
        <5>2. File(files[m]["bundle.tar.gz"].by, "whole").state = "whole"
              /\ Absent.state = "absent"
          BY DEF File, Absent
        <5> QED BY <4>1, <5>1, <5>2 DEF VouchesAt
      <4>3. At(n, e) = Absent
        BY <3>7, <4>1, <4>2 DEF At, Extensions
      <4> QED BY <1>3, <2>2, <3>4, <3>7, <4>3
    <3> QED BY <3>5, <3>6, <3>7
  <2> QED BY <2>1, <2>3, <2>4
<1> QED BY <1>2, <1>3

(* A run that comes to its end has all its records in results.edn, and, if *)
(* it does not fail for it, all its artifacts: no killed or concurrent run *)
(* takes one away.  One whose report could not be written leaves nothing   *)
(* that looks like a result, and no record ever stands without its report  *)
(* (generate-report, emit-run-artifacts!, append-locked!).                 *)
THEOREM RunsRecorded == Spec => []RunsAreRecorded
<1> DEFINE AllKept == Vouched /\ Blocks /\ Owed /\ Counted /\ Backed /\ Unreported
<1>1. Init => AllKept
  <2> SUFFICES ASSUME Init PROVE Blocks /\ Owed /\ Counted /\ Backed /\ Unreported
    BY InitVouched
  <2>1. /\ \A r \in Runs : pc[r] = "running" /\ written[r] = 0
        /\ db = <<>>
    BY DEF Init
  <2>2. \A r \in Runs : PiecesOf(r) = {}
    BY <2>1 DEF PiecesOf
  <2>3. Blocks
    BY <2>1, InitInv DEF Blocks, NeverInterleaved
  <2>4. Owed /\ Backed /\ Unreported
    BY <2>1, <2>2
       DEF Owed, OwedBy, Backed, BackedOf, Unreported, UnreportedOf, Holding, BeforeClaim,
           BeforeManifest, AfterBundle
  <2>5. Counted
    BY <2>1, <2>2, FS_EmptySet DEF Counted, CountedOf
  <2> QED BY <2>3, <2>4, <2>5
<1>2. AllKept /\ [Next]_vars => AllKept'
  <2> SUFFICES ASSUME AllKept, [Next]_vars PROVE AllKept'
    OBVIOUS
  <2>1. Vouched' /\ Typed /\ WholeStays
    BY VouchedStep DEF Vouched, Inv
  <2>2. Blocks'
    BY BlocksStep
  <2>3. CASE UNCHANGED vars
    <3>1. Owed' /\ Counted'
      BY <2>3 DEF vars, Owed, OwedBy, Counted, CountedOf, PiecesOf
    <3>2. Backed' /\ Unreported'
      BY <2>3 DEF vars, Backed, BackedOf, Unreported, UnreportedOf, PiecesOf, At
    <3> QED BY <2>1, <2>2, <3>1, <3>2
  <2>4. ASSUME NEW r \in Runs, Emit(r) \/ Crash(r)
        PROVE  AllKept'
    <3>1. Owed' /\ Counted'
      BY <2>1, <2>4, OwedStep, CountedStep
    <3>2. Backed'
      BY <2>1, <2>4, BackedStep
    <3>3. Unreported'
      BY <2>4, UnreportedStep
    <3> QED BY <2>1, <2>2, <3>1, <3>2, <3>3
  <2> QED BY <2>3, <2>4 DEF Next
<1>3. AllKept => RunsAreRecorded
  <2> SUFFICES ASSUME AllKept, NEW r \in Runs
               PROVE  /\ pc[r] = "done" => Cardinality(PiecesOf(r)) = Pieces
                      /\ pc[r] \in {"done", "unappended"} /\ r \notin failed =>
                           \A e \in Extensions : At(name[r], e) = File(r, "whole")
                      /\ PiecesOf(r) # {} => At(name[r], "md") = File(r, "whole")
                      /\ pc[r] = "unreported" => PiecesOf(r) = {} /\ UnreportedOf(r)
    BY DEF RunsAreRecorded, UnreportedOf
  <2>1. pc[r] = "done" => Cardinality(PiecesOf(r)) = Pieces
    BY DEF Counted, CountedOf
  <2>2. ASSUME pc[r] \in {"done", "unappended"}, r \notin failed, NEW e \in Extensions
        PROVE  files[name[r]][e] = File(r, "whole")
    <3>1. /\ files[name[r]]["md"] = File(r, "whole")
          /\ files[name[r]]["bundle.tar.gz"] = File(r, "whole")
      BY <2>2 DEF Owed, OwedBy, Holding, Gone, Steps, Over, BeforeClaim, AfterBundle
    <3>2. VouchesAt(files[name[r]])
      BY DEF Vouched, Inv, Typed
    <3>3. File(r, "whole") # Absent /\ File(r, "whole").by = r
      BY FileTypes
    <3>4. files[name[r]]["manifest.json"] = File(r, "whole")
      BY <3>1, <3>2, <3>3 DEF VouchesAt
    <3>5. files[name[r]]["private.log"] = File(r, "whole")
      BY <3>2, <3>3, <3>4 DEF VouchesAt
    <3> QED BY <2>2, <3>1, <3>4, <3>5 DEF Extensions
  <2>3. PiecesOf(r) # {} => At(name[r], "md") = File(r, "whole")
    BY DEF Backed, BackedOf
  <2>4. pc[r] = "unreported" => PiecesOf(r) = {}
    BY DEF Blocks, PiecesOf, MayHavePieces
  <2>5. UnreportedOf(r)
    BY DEF Unreported
  <2> QED BY <2>1, <2>2, <2>3, <2>4, <2>5 DEF At
<1> QED BY <1>1, <1>2, <1>3, PTL DEF Spec
=============================================================================
