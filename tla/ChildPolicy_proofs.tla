------------------------- MODULE ChildPolicy_proofs -------------------------
(***************************************************************************)
(* Proofs about the children's policy, for any set of devices, windows and *)
(* bounds: its types, that no copy of it ever lifts every restriction, and *)
(* that no device is let through further than a parent opened it. The same *)
(* holds of the portal's device changes, which take no other step; and     *)
(* with one trouble at most, "created" is said of what is enforced.        *)
(***************************************************************************)
EXTENDS ChildDevices, TLAPS

\* A policy that restricts some device and opens no more than g allows.
Good(s, g) ==
  /\ s \in Policy /\ Devices(s) # {}
  /\ \A d \in Devices(s) : Opening(s[d]) \subseteq g[d]

PlainOK ==
  /\ clock \in Time /\ up \in BOOLEAN /\ behind \in BOOLEAN /\ missed \in BOOLEAN
  /\ missed => trouble # 0
  /\ clients \subseteq Device /\ changes \in Nat /\ trouble \in Nat
  /\ granted \in [Device -> SUBSET (Target \X Time)]
BookOK == Good(book, granted)
KeptOK ==
  /\ kept \in [Device -> [row : Row, at : Time] \cup {Absent}]
  /\ \A d \in Device : kept[d] # Absent => Opening(kept[d].row) \subseteq granted[d]
FilesOK ==
  /\ file = Broken \/ Good(file, granted)
  /\ lastGood = Broken \/ Good(lastGood, granted)
RunsOK ==
  /\ run \in [Runs -> [pc : {"idle", "wait", "rules", "clients"}, now : Time,
                       snap : Policy \cup {Broken}]]
  /\ \A r \in Runs : run[r].pc \in {"rules", "clients"} => Good(run[r].snap, granted)
BlockOK == block \in [snap : Policy, at : Time] /\ Good(block.snap, granted)

IInv == PlainOK /\ BookOK /\ KeptOK /\ FilesOK /\ RunsOK /\ BlockOK

---------------------------------------------------------------------------
(* Rows and policies *)

LEMMA TimeFacts ==
  ASSUME NEW m \in Time
  PROVE  m \in Int /\ 0 <= m /\ m <= EndTime /\ EndTime \in Nat /\ 0 \in Time
BY TimeAssumption, SMT DEF Time

\* What an opening holds.
LEMMA OpeningFacts ==
  ASSUME NEW row \in Row
  PROVE  /\ Opening(row) \subseteq Target \X Time
         /\ \A t \in Target, m \in Time : m < row.exc[t] => <<t, m>> \in Opening(row)
         /\ \A m \in row.win : <<"gated", m>> \in Opening(row)
<1>1. row.win \subseteq Time /\ row.exc \in [Target -> Time]
  BY WindowAssumption DEF Row
<1>2. QED
  BY <1>1 DEF Opening, Target

\* Dropping the exceptions that have ended opens nothing new.
LEMMA LastingFacts ==
  ASSUME NEW row \in Row, clock \in Time
  PROVE  /\ Lasting(row) \in Row
         /\ Opening(Lasting(row)) \subseteq Opening(row)
<1>. DEFINE e == [t \in Target |-> IF row.exc[t] > clock THEN row.exc[t] ELSE 0]
<1>1. row.win \in Window /\ row.exc \in [Target -> Time] /\ row = [win |-> row.win, exc |-> row.exc]
  BY DEF Row
<1>2. 0 \in Time
  BY TimeAssumption, SMT DEF Time
<1>3. e \in [Target -> Time]
  BY <1>1, <1>2
<1>4. Lasting(row) = [win |-> row.win, exc |-> e]
  BY <1>1 DEF Lasting
<1>5. \A t \in Target, m \in Time : m < e[t] => m < row.exc[t]
  <2>. SUFFICES ASSUME NEW t \in Target, NEW m \in Time, m < e[t] PROVE m < row.exc[t]
    OBVIOUS
  <2>1. CASE row.exc[t] > clock
    BY <2>1
  <2>2. CASE ~(row.exc[t] > clock)
    BY <2>2, TimeFacts, SMT
  <2>. QED BY <2>1, <2>2
<1>. HIDE DEF e
<1>6. Lasting(row) \in Row
  BY <1>1, <1>3, <1>4 DEF Row
<1>7. UNION {{t} \X {m \in Time : m < e[t]} : t \in Target}
        \subseteq UNION {{t} \X {m \in Time : m < row.exc[t]} : t \in Target}
  BY <1>5
<1>8. Opening(Lasting(row)) \subseteq Opening(row)
  BY <1>4, <1>7 DEF Opening
<1>. QED BY <1>6, <1>8

\* A published snapshot restricts the same devices and opens no more.
LEMMA SnapshotFacts ==
  ASSUME NEW p \in Policy, clock \in Time
  PROVE  /\ Snapshot(p) \in Policy
         /\ Devices(Snapshot(p)) = Devices(p)
         /\ \A d \in Devices(p) : Opening(Snapshot(p)[d]) \subseteq Opening(p[d])
<1>1. \A d \in Devices(p) : d \in Device /\ p[d] \in Row
  BY DEF Policy, Devices
<1>2. \A d \in Devices(p) : Lasting(p[d]) \in Row /\ Opening(Lasting(p[d])) \subseteq Opening(p[d])
  BY <1>1, LastingFacts
<1>3. \A d \in Device : Snapshot(p)[d] = IF p[d] = Absent THEN Absent ELSE Lasting(p[d])
  BY DEF Snapshot
<1>4. Snapshot(p) \in Policy
  BY <1>2 DEF Snapshot, Policy, Devices
<1>5. Devices(Snapshot(p)) = Devices(p)
  BY <1>2, <1>3, PolicyAssumption DEF Devices
<1>6. \A d \in Devices(p) : Opening(Snapshot(p)[d]) \subseteq Opening(p[d])
  BY <1>2, <1>3 DEF Devices
<1>. QED BY <1>4, <1>5, <1>6

LEMMA GoodGrows ==
  ASSUME NEW s, NEW g, NEW h, Good(s, g), \A d \in Device : g[d] \subseteq h[d]
  PROVE  Good(s, h)
BY DEF Good, Devices

LEMMA GoodSnapshot ==
  ASSUME NEW p, NEW g, Good(p, g), clock \in Time
  PROVE  Good(Snapshot(p), g)
BY SnapshotFacts DEF Good

LEMMA GivenFacts ==
  ASSUME NEW p \in Policy
  PROVE  /\ Given(p) \in [Device -> SUBSET (Target \X Time)]
         /\ \A d \in Devices(p) : Given(p)[d] = Opening(p[d])
<1>1. \A d \in Device : p[d] # Absent => p[d] \in Row
  BY DEF Policy
<1>2. \A d \in Device : p[d] # Absent => Opening(p[d]) \subseteq Target \X Time
  BY <1>1, OpeningFacts
<1>. QED BY <1>2 DEF Given, Devices

---------------------------------------------------------------------------
(* What a write keeps *)

\* Whatever is good stays good when more is granted and nothing else changes.
LEMMA MoreGranted ==
  ASSUME IInv, \A d \in Device : granted[d] \subseteq granted'[d],
         UNCHANGED <<lastGood, run, block>>
  PROVE  /\ lastGood' = Broken \/ Good(lastGood', granted')
         /\ RunsOK' /\ BlockOK'
         /\ file = Broken \/ Good(file, granted')
         /\ \A d \in Device : kept[d] # Absent => Opening(kept[d].row) \subseteq granted'[d]
<1>1. lastGood' = Broken \/ Good(lastGood', granted')
  BY GoodGrows DEF IInv, FilesOK
<1>2. RunsOK'
  <2>1. \A r \in Runs : run[r].pc \in {"rules", "clients"} => Good(run[r].snap, granted')
    BY GoodGrows DEF IInv, RunsOK
  <2>. QED BY <2>1 DEF IInv, RunsOK
<1>3. BlockOK'
  BY GoodGrows DEF IInv, BlockOK
<1>4. file = Broken \/ Good(file, granted')
  BY GoodGrows DEF IInv, FilesOK
<1>5. \A d \in Device : kept[d] # Absent => Opening(kept[d].row) \subseteq granted'[d]
  BY DEF IInv, KeptOK
<1>. QED BY <1>1, <1>2, <1>3, <1>4, <1>5

LEMMA TroubleNat ==
  ASSUME trouble \in Nat, Trouble \/ UNCHANGED trouble
  PROVE  /\ trouble' \in Nat
         /\ trouble # 0 => trouble' # 0
         /\ Trouble => trouble' # 0
BY DEF Trouble

LEMMA ChangeNat ==
  ASSUME changes \in Nat, Change \/ UNCHANGED changes
  PROVE  changes' \in Nat
BY DEF Change

\* A publication leaves a good file, or the file as it was.
LEMMA PublishFacts ==
  ASSUME NEW p, NEW g, Good(p, g), file = Broken \/ Good(file, g),
         clock \in Time, {up, behind, missed} \subseteq BOOLEAN, trouble \in Nat,
         missed => trouble # 0, Publish(p)
  PROVE  /\ file' = Broken \/ Good(file', g)
         /\ up' \in BOOLEAN /\ behind' \in BOOLEAN /\ missed' \in BOOLEAN /\ trouble' \in Nat
         /\ missed' => trouble' # 0
<1>1. Good(Snapshot(p), g)
  BY GoodSnapshot
<1>2. Devices(p) # {}
  BY DEF Good
<1>3. trouble' \in Nat /\ (trouble # 0 => trouble' # 0) /\ (Trouble => trouble' # 0)
  BY TroubleNat DEF Publish
<1>4. file' = Broken \/ Good(file', g)
  BY <1>1, <1>2 DEF Publish
<1>5. up' \in BOOLEAN /\ behind' \in BOOLEAN /\ missed' \in BOOLEAN
  BY DEF Publish
<1>6. missed' => trouble' # 0
  BY <1>3 DEF Publish
<1>. QED BY <1>3, <1>4, <1>5, <1>6

LEMMA StoreKeeps ==
  ASSUME IInv, NEW p \in Policy, Devices(p) # {}, Store(p), Change \/ UNCHANGED changes
  PROVE  /\ PlainOK' /\ BookOK' /\ FilesOK' /\ RunsOK' /\ BlockOK'
         /\ \A d \in Device : granted[d] \subseteq granted'[d]
         /\ \A d \in Device : kept[d] # Absent => Opening(kept[d].row) \subseteq granted'[d]
<1>1. granted \in [Device -> SUBSET (Target \X Time)]
  BY DEF IInv, PlainOK
<1>2. granted' = [d \in Device |-> granted[d] \cup Given(p)[d]]
  BY DEF Store
<1>3. \A d \in Device : granted[d] \subseteq granted'[d]
  BY <1>2
<1>4. granted' \in [Device -> SUBSET (Target \X Time)]
  <2>1. \A d \in Device : Given(p)[d] \subseteq Target \X Time
    BY GivenFacts
  <2>. QED BY <1>1, <1>2, <2>1
<1>5. Good(p, granted')
  <2>1. \A d \in Devices(p) : d \in Device /\ Opening(p[d]) \subseteq granted'[d]
    BY <1>2, GivenFacts DEF Devices
  <2>. QED BY <2>1 DEF Good
<1>6. book' = p /\ Publish(p) /\ UNCHANGED <<clock, lastGood, run, block, clients>>
  BY DEF Store, job, adguard
<1>7. file = Broken \/ Good(file, granted')
  BY <1>3, <1>6, MoreGranted
<1>8. /\ file' = Broken \/ Good(file', granted')
      /\ up' \in BOOLEAN /\ behind' \in BOOLEAN /\ missed' \in BOOLEAN /\ trouble' \in Nat
      /\ missed' => trouble' # 0
  BY <1>5, <1>6, <1>7, PublishFacts DEF IInv, PlainOK
<1>9. changes' \in Nat
  BY ChangeNat DEF IInv, PlainOK
<1>10. PlainOK'
  BY <1>4, <1>6, <1>8, <1>9 DEF IInv, PlainOK
<1>11. BookOK'
  BY <1>5, <1>6 DEF BookOK
<1>12. FilesOK'
  BY <1>3, <1>6, <1>8, MoreGranted DEF FilesOK
<1>13. /\ RunsOK' /\ BlockOK'
       /\ \A d \in Device : kept[d] # Absent => Opening(kept[d].row) \subseteq granted'[d]
  BY <1>3, <1>6, MoreGranted
<1>. QED BY <1>3, <1>10, <1>11, <1>12, <1>13

\* The same, when the table of removed definitions is left alone.
LEMMA StoreOnly ==
  ASSUME IInv, NEW p \in Policy, Devices(p) # {}, Store(p), Change \/ UNCHANGED changes,
         UNCHANGED kept
  PROVE  IInv'
<1>1. KeptOK'
  BY StoreKeeps DEF IInv, KeptOK
<1>. QED BY <1>1, StoreKeeps DEF IInv

---------------------------------------------------------------------------
(* The service's actions *)

LEMMA BookFacts ==
  ASSUME IInv
  PROVE  /\ book \in Policy /\ Devices(book) # {} /\ clock \in Time
         /\ \A d \in Devices(book) : d \in Device /\ book[d] \in Row
BY DEF IInv, BookOK, Good, PlainOK, Policy, Devices

\* A new row of a device that is there, or was not.
LEMMA PutRow ==
  ASSUME NEW p \in Policy, NEW d \in Device, NEW row \in Row
  PROVE  /\ [p EXCEPT ![d] = row] \in Policy
         /\ Devices([p EXCEPT ![d] = row]) # {}
<1>1. [p EXCEPT ![d] = row] \in Policy
  BY DEF Policy
<1>2. d \in Devices([p EXCEPT ![d] = row])
  BY PolicyAssumption DEF Policy, Devices
<1>. QED BY <1>1, <1>2

LEMMA AddExceptionStep ==
  ASSUME IInv, NEW d \in Device, NEW t \in Target, NEW until \in Time,
         AddChildException(d, t, until)
  PROVE  IInv'
<1>. DEFINE row == [book[d] EXCEPT !.exc[t] = until]
<1>1. book[d] \in Row
  BY BookFacts DEF AddChildException, Devices
<1>2. row \in Row
  BY <1>1 DEF Row
<1>3. [book EXCEPT ![d].exc[t] = until] = [book EXCEPT ![d] = row]
  OBVIOUS
<1>. HIDE DEF row
<1>4. [book EXCEPT ![d] = row] \in Policy /\ Devices([book EXCEPT ![d] = row]) # {}
  BY <1>2, BookFacts, PutRow
<1>. QED BY <1>3, <1>4, StoreOnly DEF AddChildException

LEMMA CancelExceptionStep ==
  ASSUME IInv, NEW d \in Device, NEW t \in Target, CancelChildException(d, t)
  PROVE  IInv'
<1>. DEFINE row == [book[d] EXCEPT !.exc[t] = 0]
<1>1. book[d] \in Row
  BY BookFacts DEF CancelChildException, Devices
<1>2. 0 \in Time
  BY TimeAssumption, SMT DEF Time
<1>3. row \in Row
  BY <1>1, <1>2 DEF Row
<1>4. [book EXCEPT ![d].exc[t] = 0] = [book EXCEPT ![d] = row]
  OBVIOUS
<1>. HIDE DEF row
<1>5. [book EXCEPT ![d] = row] \in Policy /\ Devices([book EXCEPT ![d] = row]) # {}
  BY <1>3, BookFacts, PutRow
<1>. QED BY <1>4, <1>5, StoreOnly DEF CancelChildException

LEMMA PutWindowsStep ==
  ASSUME IInv, NEW d \in Device, NEW w \in Window, PutWindows(d, w)
  PROVE  IInv'
<1>. DEFINE row == [book[d] EXCEPT !.win = w]
<1>1. book[d] \in Row
  BY BookFacts DEF PutWindows, Devices
<1>2. row \in Row
  BY <1>1 DEF Row
<1>3. [book EXCEPT ![d].win = w] = [book EXCEPT ![d] = row]
  OBVIOUS
<1>. HIDE DEF row
<1>4. [book EXCEPT ![d] = row] \in Policy /\ Devices([book EXCEPT ![d] = row]) # {}
  BY <1>2, BookFacts, PutRow
<1>. QED BY <1>3, <1>4, StoreOnly DEF PutWindows

LEMMA ExpireStep ==
  ASSUME IInv, ExpireChildExceptions
  PROVE  IInv'
<1>. DEFINE row(d) == [book[d] EXCEPT !.exc =
                          [t \in Target |-> IF Ended(book[d], t) THEN 0 ELSE book[d].exc[t]]]
            p == [d \in Device |-> IF book[d] = Absent THEN Absent ELSE row(d)]
<1>1. 0 \in Time
  BY TimeAssumption, SMT DEF Time
<1>2. \A d \in Devices(book) : d \in Device /\ row(d) \in Row
  <2>. TAKE d \in Devices(book)
  <2>1. d \in Device /\ book[d].exc \in [Target -> Time] /\ book[d] \in Row
    BY BookFacts DEF Row
  <2>2. [t \in Target |-> IF Ended(book[d], t) THEN 0 ELSE book[d].exc[t]] \in [Target -> Time]
    BY <1>1, <2>1
  <2>. QED BY <2>1, <2>2 DEF Row
<1>. HIDE DEF row
<1>3. p \in Policy
  BY <1>2 DEF Policy, Devices
<1>4. Devices(p) = Devices(book)
  BY <1>2, PolicyAssumption DEF Devices
<1>5. Store(p) /\ UNCHANGED <<kept, changes>>
  BY DEF ExpireChildExceptions, row
<1>. HIDE DEF p
<1>. QED BY <1>3, <1>4, <1>5, BookFacts, StoreOnly

LEMMA AddDeviceStep ==
  ASSUME IInv, NEW d \in Device, NEW w \in Window, AddChildDevice(d, w)
  PROVE  IInv'
<1>1. 0 \in Time
  BY TimeAssumption, SMT DEF Time
<1>2. [win |-> w, exc |-> NoException] \in Row
  BY <1>1 DEF Row, NoException
<1>3. /\ [book EXCEPT ![d] = [win |-> w, exc |-> NoException]] \in Policy
      /\ Devices([book EXCEPT ![d] = [win |-> w, exc |-> NoException]]) # {}
  BY <1>2, BookFacts, PutRow
<1>. QED BY <1>3, StoreOnly DEF AddChildDevice

LEMMA RemoveDeviceStep ==
  ASSUME IInv, NEW d \in Device, NEW keep \in BOOLEAN, RemoveChildDevice(d, keep),
         Change \/ UNCHANGED changes
  PROVE  IInv'
<1>. DEFINE p == [book EXCEPT ![d] = Absent]
            def == [row |-> Lasting(book[d]), at |-> clock]
<1>1. book[d] \in Row /\ clock \in Time /\ d \in Devices(book)
  BY BookFacts DEF RemoveChildDevice, Devices
<1>2. p \in Policy
  BY BookFacts DEF Policy
<1>3. Devices(p) # {}
  <2>1. PICK k \in Devices(book) : k # d
    BY <1>1 DEF RemoveChildDevice
  <2>2. k \in Devices(p)
    BY <2>1, BookFacts DEF Devices, Policy
  <2>. QED BY <2>2
<1>4. Store(p) /\ (kept' = IF keep THEN [kept EXCEPT ![d] = def] ELSE kept)
  BY DEF RemoveChildDevice
<1>. HIDE DEF p
<1>5. /\ PlainOK' /\ BookOK' /\ FilesOK' /\ RunsOK' /\ BlockOK'
      /\ \A k \in Device : granted[k] \subseteq granted'[k]
      /\ \A k \in Device : kept[k] # Absent => Opening(kept[k].row) \subseteq granted'[k]
  BY <1>2, <1>3, <1>4, StoreKeeps
<1>6. def \in [row : Row, at : Time] /\ Opening(def.row) \subseteq granted'[d]
  <2>1. Lasting(book[d]) \in Row /\ Opening(Lasting(book[d])) \subseteq Opening(book[d])
    BY <1>1, LastingFacts
  <2>2. Opening(book[d]) \subseteq granted[d]
    BY <1>1 DEF IInv, BookOK, Good
  <2>. QED BY <1>1, <1>5, <2>1, <2>2
<1>7. KeptOK'
  <2>1. kept \in [Device -> [row : Row, at : Time] \cup {Absent}]
    BY DEF IInv, KeptOK
  <2>2. CASE keep
    <3>. HIDE DEF def
    <3>1. kept' = [kept EXCEPT ![d] = def]
      BY <1>4, <2>2
    <3>2. kept' \in [Device -> [row : Row, at : Time] \cup {Absent}]
      BY <1>6, <2>1, <3>1
    <3>3. \A k \in Device : kept'[k] = IF k = d THEN def ELSE kept[k]
      BY <2>1, <3>1
    <3>. QED BY <1>5, <1>6, <3>2, <3>3 DEF KeptOK
  <2>3. CASE ~keep
    BY <1>4, <1>5, <2>1, <2>3 DEF KeptOK
  <2>. QED BY <2>2, <2>3
<1>. QED BY <1>5, <1>7 DEF IInv

LEMMA RestoreDeviceStep ==
  ASSUME IInv, NEW d \in Device, RestoreChildDevice(d)
  PROVE  IInv'
<1>. DEFINE row == Lasting(kept[d].row)
<1>1. kept \in [Device -> [row : Row, at : Time] \cup {Absent}]
  BY DEF IInv, KeptOK
<1>2. kept[d].row \in Row /\ clock \in Time
  BY <1>1, BookFacts DEF RestoreChildDevice
<1>3. row \in Row
  BY <1>2, LastingFacts
<1>4. Store([book EXCEPT ![d] = row]) /\ kept' = [kept EXCEPT ![d] = Absent] /\ Change
  BY DEF RestoreChildDevice
<1>. HIDE DEF row
<1>5. [book EXCEPT ![d] = row] \in Policy /\ Devices([book EXCEPT ![d] = row]) # {}
  BY <1>3, BookFacts, PutRow
<1>6. /\ PlainOK' /\ BookOK' /\ FilesOK' /\ RunsOK' /\ BlockOK'
      /\ \A k \in Device : kept[k] # Absent => Opening(kept[k].row) \subseteq granted'[k]
  BY <1>4, <1>5, StoreKeeps
<1>7. KeptOK'
  BY <1>1, <1>4, <1>6 DEF KeptOK
<1>. QED BY <1>6, <1>7 DEF IInv

---------------------------------------------------------------------------
(* The other actions *)

\* Steps that touch neither the policy's copies nor what was granted.
LEMMA PlainStep ==
  ASSUME IInv, PlainOK', UNCHANGED <<book, kept, file, lastGood, run, block, granted>>
  PROVE  IInv'
BY DEF IInv, BookOK, KeptOK, FilesOK, RunsOK, BlockOK

LEMMA RepublishStep ==
  ASSUME IInv, Republish
  PROVE  IInv'
<1>1. Publish(book) /\ UNCHANGED <<clock, book, kept, lastGood, run, block, clients, granted, changes>>
  BY DEF Republish, job, adguard
<1>2. /\ file' = Broken \/ Good(file', granted)
      /\ up' \in BOOLEAN /\ behind' \in BOOLEAN /\ missed' \in BOOLEAN /\ trouble' \in Nat
      /\ missed' => trouble' # 0
  BY <1>1, PublishFacts DEF IInv, PlainOK, BookOK, FilesOK
<1>3. PlainOK' /\ FilesOK'
  BY <1>1, <1>2 DEF IInv, PlainOK, FilesOK
<1>. QED BY <1>1, <1>3 DEF IInv, BookOK, KeptOK, RunsOK, BlockOK

LEMMA StopServiceStep ==
  ASSUME IInv, StopService
  PROVE  IInv'
<1>1. trouble' \in Nat /\ (trouble # 0 => trouble' # 0)
  BY TroubleNat DEF StopService, IInv, PlainOK
<1>. QED BY <1>1, PlainStep DEF StopService, IInv, PlainOK, job, adguard

LEMMA StartServiceStep ==
  ASSUME IInv, StartService
  PROVE  IInv'
<1>1. trouble' \in Nat /\ (trouble # 0 => trouble' # 0) /\ (Trouble => trouble' # 0)
  BY TroubleNat DEF StartService, IInv, PlainOK
<1>2. Good(Snapshot(book), granted)
  BY GoodSnapshot DEF IInv, BookOK, PlainOK
<1>3. UNCHANGED <<clock, book, kept, lastGood, run, block, clients, granted, changes>>
  BY DEF StartService, job, adguard
<1>4. up' = TRUE /\ behind' \in BOOLEAN /\ missed' \in BOOLEAN /\ (file' = Snapshot(book) \/ file' = file)
  BY DEF StartService
<1>5. PlainOK'
  <2>1. missed' => trouble' # 0
    BY <1>1 DEF StartService, IInv, PlainOK
  <2> QED
    BY <1>1, <1>3, <1>4, <2>1 DEF IInv, PlainOK
<1>6. FilesOK'
  BY <1>2, <1>3, <1>4 DEF IInv, FilesOK
<1>. QED BY <1>3, <1>5, <1>6 DEF IInv, BookOK, KeptOK, RunsOK, BlockOK

LEMMA SpoilFileStep ==
  ASSUME IInv, SpoilFile
  PROVE  IInv'
<1>1. trouble' \in Nat /\ (trouble # 0 => trouble' # 0)
  BY TroubleNat DEF SpoilFile, IInv, PlainOK
<1>2. file' = Broken
  BY DEF SpoilFile
<1>3. UNCHANGED <<clock, book, kept, up, behind, missed, lastGood, run, block, clients, granted, changes>>
  BY DEF SpoilFile, service, job, adguard
<1>4. PlainOK' /\ FilesOK'
  BY <1>1, <1>2, <1>3 DEF IInv, PlainOK, FilesOK
<1>. QED BY <1>3, <1>4 DEF IInv, BookOK, KeptOK, RunsOK, BlockOK

\* A run that begins or ends holds no snapshot.
LEMMA ClearedRun ==
  ASSUME IInv, NEW r \in Runs, NEW now \in Time, NEW pc \in {"idle", "wait"},
         run' = [run EXCEPT ![r] = [pc |-> pc, now |-> now, snap |-> Broken]],
         UNCHANGED granted
  PROVE  RunsOK'
<1>. DEFINE new == [pc |-> pc, now |-> now, snap |-> Broken]
<1>1. new \in [pc : {"idle", "wait", "rules", "clients"}, now : Time, snap : Policy \cup {Broken}]
  OBVIOUS
<1>2. new.pc \notin {"rules", "clients"}
  OBVIOUS
<1>. HIDE DEF new
<1>3. run' = [run EXCEPT ![r] = new]
  BY DEF new
<1>. QED BY <1>1, <1>2, <1>3 DEF IInv, RunsOK

LEMMA StartRunStep ==
  ASSUME IInv, NEW r \in Runs, StartRun(r)
  PROVE  IInv'
<1>1. run' = [run EXCEPT ![r] = [pc |-> "wait", now |-> clock, snap |-> Broken]]
  <2>1. [NoRun(clock) EXCEPT !.pc = "wait"] = [pc |-> "wait", now |-> clock, snap |-> Broken]
    BY DEF NoRun
  <2>. QED BY <2>1 DEF StartRun
<1>2. UNCHANGED <<clock, book, kept, up, behind, missed, file, lastGood, block, clients, granted, trouble>>
  BY DEF StartRun, service, adguard
<1>3. changes' \in Nat
  BY ChangeNat DEF StartRun, IInv, PlainOK
<1>4. RunsOK'
  BY <1>1, <1>2, ClearedRun DEF IInv, PlainOK
<1>5. PlainOK'
  BY <1>2, <1>3 DEF IInv, PlainOK
<1>. QED BY <1>2, <1>4, <1>5 DEF IInv, BookOK, KeptOK, FilesOK, BlockOK

\* What is loaded is the file, or its last good copy, and usable.
LEMMA LoadSnapshotStep ==
  ASSUME IInv, NEW r \in Runs, LoadSnapshot(r)
  PROVE  IInv'
<1>. DEFINE s == IF Usable(file) THEN file ELSE lastGood
<1>1. UNCHANGED <<clock, book, kept, up, behind, missed, file, block, clients, granted, changes>>
  BY DEF LoadSnapshot, service, adguard
<1>2. trouble' \in Nat /\ (trouble # 0 => trouble' # 0)
  BY TroubleNat DEF LoadSnapshot, IInv, PlainOK
<1>3. CASE Usable(s)
  <2>1. Good(s, granted)
    BY <1>3 DEF IInv, FilesOK, Usable
  <2>2. (lastGood' = s \/ lastGood' = lastGood) /\ run' = [run EXCEPT ![r].pc = "rules", ![r].snap = s]
    BY <1>3 DEF LoadSnapshot
  <2>. HIDE DEF s
  <2>3. s \in Policy
    BY <2>1 DEF Good
  <2>4. RunsOK'
    <3>1. run' \in [Runs -> [pc : {"idle", "wait", "rules", "clients"}, now : Time,
                               snap : Policy \cup {Broken}]]
      BY <2>2, <2>3 DEF IInv, RunsOK
    <3>2. \A q \in Runs : run'[q].pc \in {"rules", "clients"} => Good(run'[q].snap, granted')
      BY <1>1, <2>1, <2>2 DEF IInv, RunsOK
    <3>. QED BY <3>1, <3>2 DEF RunsOK
  <2>5. FilesOK'
    BY <1>1, <2>1, <2>2 DEF IInv, FilesOK
  <2>. QED BY <1>2, <1>1, <2>4, <2>5 DEF IInv, PlainOK, BookOK, KeptOK, BlockOK
<1>4. CASE ~Usable(s)
  <2>1. lastGood' = lastGood /\ run' = [run EXCEPT ![r] = [pc |-> "idle", now |-> run[r].now, snap |-> Broken]]
    BY <1>4 DEF LoadSnapshot, NoRun
  <2>2. run[r].now \in Time
    BY DEF IInv, RunsOK
  <2>3. RunsOK'
    BY <1>1, <2>1, <2>2, ClearedRun
  <2>. QED BY <1>2, <1>1, <2>1, <2>3 DEF IInv, PlainOK, BookOK, KeptOK, FilesOK, BlockOK
<1>. QED BY <1>3, <1>4

LEMMA SetRulesStep ==
  ASSUME IInv, NEW r \in Runs, SetRules(r)
  PROVE  IInv'
<1>1. UNCHANGED <<clock, book, kept, up, behind, missed, file, lastGood, clients, granted, changes, trouble>>
  BY DEF SetRules, service
<1>2. Good(run[r].snap, granted) /\ run[r].now \in Time
  BY DEF SetRules, IInv, RunsOK
<1>3. BlockOK'
  <2>1. block' = [snap |-> run[r].snap, at |-> run[r].now]
    BY DEF SetRules
  <2>. QED BY <1>1, <1>2, <2>1 DEF BlockOK, Good
<1>4. RunsOK'
  <2>1. run' = [run EXCEPT ![r].pc = "clients"]
    BY DEF SetRules
  <2>2. \A q \in Runs : run'[q].pc \in {"rules", "clients"} => Good(run'[q].snap, granted')
    BY <1>1, <1>2, <2>1 DEF IInv, RunsOK
  <2>. QED BY <2>1, <2>2 DEF IInv, RunsOK
<1>. QED BY <1>1, <1>3, <1>4 DEF IInv, PlainOK, BookOK, KeptOK, FilesOK

LEMMA EnsureClientsStep ==
  ASSUME IInv, NEW r \in Runs, EnsureClients(r)
  PROVE  IInv'
<1>1. UNCHANGED <<clock, book, kept, up, behind, missed, file, lastGood, block, granted, changes, trouble>>
  BY DEF EnsureClients, service
<1>2. clients' \subseteq Device
  BY DEF EnsureClients, IInv, PlainOK, Devices
<1>3. RunsOK'
  <2>1. run' = [run EXCEPT ![r] = [pc |-> "idle", now |-> run[r].now, snap |-> Broken]]
    BY DEF EnsureClients, NoRun
  <2>2. run[r].now \in Time
    BY DEF IInv, RunsOK
  <2>. QED BY <1>1, <2>1, <2>2, ClearedRun
<1>4. PlainOK'
  BY <1>1, <1>2 DEF IInv, PlainOK
<1>. QED BY <1>1, <1>3, <1>4 DEF IInv, BookOK, KeptOK, FilesOK, BlockOK

LEMMA FailRunStep ==
  ASSUME IInv, NEW r \in Runs, FailRun(r)
  PROVE  IInv'
<1>1. UNCHANGED <<clock, book, kept, up, behind, missed, file, lastGood, block, granted, changes>>
  BY DEF FailRun, service
<1>2. trouble' \in Nat /\ (trouble # 0 => trouble' # 0)
  BY TroubleNat DEF FailRun, IInv, PlainOK
<1>3. RunsOK'
  <2>1. run' = [run EXCEPT ![r] = [pc |-> "idle", now |-> run[r].now, snap |-> Broken]]
    BY DEF FailRun, NoRun
  <2>2. run[r].now \in Time
    BY DEF IInv, RunsOK
  <2>. QED BY <1>1, <2>1, <2>2, ClearedRun
<1>4. clients' \subseteq Device
  BY DEF FailRun, IInv, PlainOK, Devices
<1>5. PlainOK'
  BY <1>1, <1>2, <1>4 DEF IInv, PlainOK
<1>. QED BY <1>1, <1>3, <1>5 DEF IInv, BookOK, KeptOK, FilesOK, BlockOK

LEMMA TickStep ==
  ASSUME IInv, Tick
  PROVE  IInv'
<1>1. trouble' \in Nat /\ (trouble # 0 => trouble' # 0)
  BY TroubleNat DEF Tick, IInv, PlainOK
<1>2. clock' \in Time
  BY TimeAssumption, SMT DEF Tick, IInv, PlainOK, Time
<1>3. UNCHANGED <<book, kept, up, behind, missed, file, lastGood, run, block, clients, granted, changes>>
  BY DEF Tick, service, job, adguard
<1>4. PlainOK'
  BY <1>1, <1>2, <1>3 DEF IInv, PlainOK
<1>. QED BY <1>3, <1>4, PlainStep

LEMMA DeleteClientStep ==
  ASSUME IInv, NEW d \in Device, DeleteClient(d)
  PROVE  IInv'
<1>1. UNCHANGED <<clock, book, kept, up, behind, missed, file, lastGood, run, block, granted, changes, trouble>>
  BY DEF DeleteClient, service, job
<1>2. clients' \subseteq Device
  BY DEF DeleteClient, IInv, PlainOK
<1>3. PlainOK'
  BY <1>1, <1>2 DEF IInv, PlainOK
<1>. QED BY <1>1, <1>3, PlainStep

LEMMA FailureStep ==
  ASSUME IInv, Failure
  PROVE  IInv'
<1>1. trouble' \in Nat /\ (trouble # 0 => trouble' # 0)
  BY TroubleNat DEF Failure, IInv, PlainOK
<1>2. UNCHANGED <<clock, book, kept, up, behind, missed, file, lastGood, run, block, clients, granted, changes>>
  BY DEF Failure, service, job, adguard
<1>3. PlainOK'
  BY <1>1, <1>2 DEF IInv, PlainOK
<1>. QED BY <1>2, <1>3, PlainStep

---------------------------------------------------------------------------
(* The inductive invariant *)

LEMMA InitInv == CPInit => IInv
<1>. SUFFICES ASSUME CPInit PROVE IInv
  OBVIOUS
<1>1. 0 \in Time /\ clock = 0
  BY TimeAssumption, SMT DEF Time, CPInit
<1>2. book \in Policy /\ Devices(book) # {} /\ granted = Given(book)
  BY PolicyAssumption DEF CPInit
<1>3. /\ granted \in [Device -> SUBSET (Target \X Time)]
      /\ \A d \in Devices(book) : granted[d] = Opening(book[d])
  BY <1>2, GivenFacts
<1>4. Good(book, granted)
  BY <1>2, <1>3 DEF Good
<1>5. Good(Snapshot(book), granted)
  BY <1>1, <1>4, GoodSnapshot
<1>6. PlainOK
  BY <1>1, <1>3 DEF PlainOK, CPInit, Devices
<1>7. KeptOK
  <2>1. kept = [d \in Device |-> Absent]
    BY DEF CPInit
  <2>. QED BY <2>1 DEF KeptOK
<1>8. FilesOK
  BY <1>5 DEF FilesOK, CPInit
<1>9. RunsOK
  <2>1. run = [r \in Runs |-> [pc |-> "idle", now |-> 0, snap |-> Broken]]
    BY DEF CPInit, NoRun
  <2>. QED BY <1>1, <2>1 DEF RunsOK
<1>10. BlockOK
  <2>1. block = [snap |-> Snapshot(book), at |-> 0]
    BY DEF CPInit
  <2>. QED BY <1>1, <1>5, <2>1 DEF BlockOK, Good
<1>. QED BY <1>4, <1>6, <1>7, <1>8, <1>9, <1>10 DEF IInv, BookOK

LEMMA PolicyNextInv == IInv /\ PolicyNext => IInv'
<1>. SUFFICES ASSUME IInv, PolicyNext PROVE IInv'
  OBVIOUS
<1>1. CASE \E d \in Device, t \in Target :
             CancelChildException(d, t) \/ \E until \in Time : AddChildException(d, t, until)
  BY <1>1, CancelExceptionStep, AddExceptionStep
<1>2. CASE \E d \in Device, w \in Window : PutWindows(d, w)
  BY <1>2, PutWindowsStep
<1>3. CASE ExpireChildExceptions \/ Republish \/ StopService \/ StartService \/ SpoilFile
  BY <1>3, ExpireStep, RepublishStep, StopServiceStep, StartServiceStep, SpoilFileStep
<1>4. CASE \E r \in Runs : StartRun(r) \/ RunStep(r) \/ FailRun(r)
  BY <1>4, StartRunStep, LoadSnapshotStep, SetRulesStep, EnsureClientsStep, FailRunStep
     DEF RunStep
<1>5. CASE Tick
  BY <1>5, TickStep
<1>. QED BY <1>1, <1>2, <1>3, <1>4, <1>5 DEF PolicyNext

LEMMA NextInv == IInv /\ [CPNext]_cpVars => IInv'
<1>. SUFFICES ASSUME IInv, [CPNext]_cpVars PROVE IInv'
  OBVIOUS
<1>1. CASE PolicyNext
  BY <1>1, PolicyNextInv
<1>2. CASE Failure
  BY <1>2, FailureStep
<1>3. ASSUME NEW d \in Device, NEW w \in Window, AddChildDevice(d, w) PROVE IInv'
  BY <1>3, AddDeviceStep
<1>4. ASSUME NEW d \in Device, NEW keep \in BOOLEAN, RemoveChildDevice(d, keep),
             Change \/ UNCHANGED changes
      PROVE  IInv'
  BY <1>4, RemoveDeviceStep
<1>5. ASSUME NEW d \in Device, RestoreChildDevice(d) \/ DeleteClient(d) PROVE IInv'
  BY <1>5, RestoreDeviceStep, DeleteClientStep
<1>6. CASE UNCHANGED cpVars
  <2>1. UNCHANGED <<clock, book, kept, up, behind, missed, file, lastGood, run, block, clients,
                    granted, changes, trouble>>
    BY <1>6 DEF cpVars, service, job, adguard
  <2>. QED BY <2>1 DEF IInv, PlainOK, BookOK, KeptOK, FilesOK, RunsOK, BlockOK
<1>. QED BY <1>1, <1>2, <1>3, <1>4, <1>5, <1>6 DEF CPNext

LEMMA InvTypes == IInv => CPTypeOK
BY DEF IInv, PlainOK, BookOK, KeptOK, FilesOK, RunsOK, BlockOK, Good, CPTypeOK

LEMMA InvRestricts == IInv => NeverUnrestricted
BY DEF IInv, BookOK, FilesOK, BlockOK, Good, NeverUnrestricted

LEMMA InvOpen == IInv => OpenIsGranted
<1>. SUFFICES ASSUME IInv, NEW d \in Devices(block.snap)
     PROVE  /\ LineOf(d) = "free" => <<"all", block.at>> \in granted[d]
            /\ LineOf(d) = "open" => <<"gated", block.at>> \in granted[d]
  BY DEF OpenIsGranted
<1>. DEFINE row == block.snap[d]
<1>1. row \in Row /\ row # Absent /\ block.at \in Time /\ Opening(row) \subseteq granted[d]
  BY DEF IInv, BlockOK, Good, Devices, Policy
<1>2. row.exc \in [Target -> Time]
  BY <1>1 DEF Row
<1>3. LineOf(d) = IF row.exc["all"] > block.at THEN "free"
                  ELSE IF block.at \in row.win \/ row.exc["gated"] > block.at THEN "open"
                  ELSE "closed"
  BY <1>1 DEF LineOf, Line
<1>. HIDE DEF row
<1>4. \A t \in Target : row.exc[t] > block.at => <<t, block.at>> \in Opening(row)
  <2>. SUFFICES ASSUME NEW t \in Target, row.exc[t] > block.at PROVE <<t, block.at>> \in Opening(row)
    OBVIOUS
  <2>1. block.at < row.exc[t]
    BY <1>1, <1>2, TimeFacts, SMT
  <2>. QED BY <1>1, <2>1, OpeningFacts
<1>5. block.at \in row.win => <<"gated", block.at>> \in Opening(row)
  BY <1>1, OpeningFacts
<1>6. "all" \in Target /\ "gated" \in Target
  BY DEF Target
<1>. QED BY <1>1, <1>3, <1>4, <1>5, <1>6

LEMMA Invariance == CPSpec => []IInv
BY InitInv, NextInv, PTL DEF CPSpec

---------------------------------------------------------------------------
(* Theorems *)

(* Type correctness: every copy of the policy is a policy or unusable, every *)
(* time a minute of the clock (child_store.py, childpolicy.py).              *)
THEOREM PolicyTypeCorrect == CPSpec => []CPTypeOK
BY Invariance, InvTypes, PTL

(* Whatever is written, spoilt, stopped, restarted or fails, and in whatever  *)
(* order the job's runs load and write: no copy of the policy, and no rules   *)
(* in AdGuard, restrict no device (remove_child_device, verify_snapshot).     *)
THEOREM NeverLifted == CPSpec => []NeverUnrestricted
BY Invariance, InvRestricts, PTL

(* No device is let through further than a parent opened it for the minute    *)
(* the rules were made for, by whichever copy (active_overrides, open_targets).*)
THEOREM OnlyGrantedOpen == CPSpec => []OpenIsGranted
BY Invariance, InvOpen, PTL

---------------------------------------------------------------------------
(* The portal's device changes *)

Answers == {"none", "created", "reverted", "removed", "removal_incomplete", "error"}
FlowOK ==
  /\ flow \in Flow \cup {Idle} /\ answer \in Answers

LEMMA FlowInit == CDInit => FlowOK
BY DEF CDInit, FlowOK, Answers

\* How a change that is running goes on, or ends.
LEMMA GotoKeeps ==
  ASSUME flow \in Flow,
         NEW pc \in {"job", "verify", "rules", "parity", "undo", "release",
                      "leave", "client", "others"},
         Goto(pc)
  PROVE  flow' \in Flow
BY DEF Flow, Goto

LEMMA Running ==
  ASSUME FlowOK, flow # Idle
  PROVE  flow \in Flow /\ flow.dev \in Device
BY DEF FlowOK, Flow

LEMMA AtRunning ==
  ASSUME FlowOK, NEW pc, pc # "idle", At(pc)
  PROVE  flow \in Flow /\ flow.dev \in Device
BY Running DEF At, Idle

\* How a change ends.
LEMMA FinishKeeps ==
  ASSUME FlowOK, NEW result \in Answers, Finish(result)
  PROVE  FlowOK'
<1>1. flow' = Idle /\ answer' = result
  BY DEF Finish
<1>. QED BY <1>1 DEF FlowOK

LEMMA BeginKeeps ==
  ASSUME FlowOK, NEW kind \in Kinds, NEW d \in Device, NEW pc \in {"job", "leave"},
         clock \in Time, Begin(kind, d, pc)
  PROVE  flow' \in Flow \cup {Idle} /\ answer' \in Answers
<1>1. CASE flow' = Idle /\ answer' = "error"
  BY <1>1 DEF Answers
<1>2. CASE /\ flow' = [pc |-> pc, kind |-> kind, dev |-> d, since |-> clock, ok |-> TRUE,
                       held |-> HasRules(d)]
           /\ answer' = answer
  <2>1. HasRules(d) \in BOOLEAN
    BY Zenon DEF HasRules
  <2>2. flow' \in Flow
    BY <1>2, <2>1, Zenon DEF Flow
  <2>. QED BY <1>2, <2>2 DEF FlowOK
<1>. QED BY <1>1, <1>2 DEF Begin, Finish

LEMMA AddMaps ==
  ASSUME IInv, FlowOK, NEW d \in Device, Add(d)
  PROVE  CPNext /\ FlowOK'
<1>1. PICK w \in {{}} \cup {book[k].win : k \in Devices(book)} : AddChildDevice(d, w)
  BY DEF Add
<1>2. w \in Window
  BY PatienceAssumption, BookFacts DEF Row
<1>3. flow' \in Flow \cup {Idle} /\ answer' \in Answers
  BY BeginKeeps, BookFacts DEF Add, Kinds
<1>. QED BY <1>1, <1>2, <1>3 DEF CPNext, FlowOK, Add

LEMMA RemoveMaps ==
  ASSUME IInv, FlowOK, NEW d \in Device, Remove(d)
  PROVE  CPNext /\ FlowOK'
<1>1. flow' \in Flow \cup {Idle} /\ answer' \in Answers
  BY BeginKeeps, BookFacts DEF Remove, Kinds
<1>2. CPNext
  BY DEF Remove, CPNext
<1>. QED BY <1>1, <1>2 DEF FlowOK

LEMMA RestoreMaps ==
  ASSUME IInv, FlowOK, NEW d \in Device, Restore(d)
  PROVE  CPNext /\ FlowOK'
<1>1. flow' \in Flow \cup {Idle} /\ answer' \in Answers
  BY BeginKeeps, BookFacts DEF Restore, Kinds
<1>. QED BY <1>1 DEF Restore, CPNext, FlowOK

\* The steps that only look.
LEMMA LookMaps ==
  ASSUME FlowOK,
         JobApplied \/ JobLate \/ VerifyClient \/ VerifyRules \/ ParityMatches
           \/ RollbackRefused \/ Left \/ CheckOthers
  PROVE  UNCHANGED cpVars /\ FlowOK'
<1>1. UNCHANGED cpVars
  BY DEF JobApplied, JobLate, VerifyClient, VerifyRules, ParityMatches, RollbackRefused,
         Left, CheckOthers
<1>2. CASE JobApplied \/ JobLate
  BY <1>1, <1>2, AtRunning, GotoKeeps DEF JobApplied, JobLate, GiveUp, FlowOK
<1>3. CASE VerifyClient \/ VerifyRules
  BY <1>1, <1>3, AtRunning, GotoKeeps DEF VerifyClient, VerifyRules, GiveUp, FlowOK
<1>4. CASE ParityMatches \/ RollbackRefused
  BY <1>1, <1>4 DEF ParityMatches, RollbackRefused, Finish, FlowOK, Answers
<1>5. CASE Left
  <2>1. flow \in Flow
    BY <1>5, AtRunning DEF Left
  <2>2. flow' = [flow EXCEPT !.pc = "client", !.ok = LineOf(flow.dev) = "free"]
    BY <1>5 DEF Left
  <2>3. (LineOf(flow.dev) = "free") \in BOOLEAN
    OBVIOUS
  <2>4. flow' \in Flow
    BY <2>1, <2>2, <2>3, Zenon DEF Flow
  <2>. QED BY <1>1, <1>5, <2>4 DEF Left, FlowOK
<1>6. CASE CheckOthers
  BY <1>1, <1>6, AtRunning, GotoKeeps DEF CheckOthers, Finish, FlowOK, Answers
<1>. QED BY <1>1, <1>2, <1>3, <1>4, <1>5, <1>6

\* The steps in which a call to AdGuard fails.
LEMMA FailureMaps ==
  ASSUME FlowOK, VerifyFails \/ ParityDiffers \/ CrashGateway
  PROVE  CPNext /\ FlowOK'
<1>1. CPNext
  BY DEF VerifyFails, ParityDiffers, CrashGateway, CPNext
<1>2. CASE VerifyFails
  <2>1. Goto("undo") /\ answer' = answer
    BY <1>2 DEF VerifyFails, GiveUp
  <2>2. flow \in Flow
    BY <1>2, AtRunning DEF VerifyFails
  <2>. QED BY <1>1, <2>1, <2>2, GotoKeeps DEF FlowOK
<1>3. CASE ParityDiffers
  <2>1. Finish("removal_incomplete") \/ (Goto("undo") /\ answer' = answer)
    BY <1>3 DEF ParityDiffers, GiveUp
  <2>2. flow \in Flow
    BY <1>3, AtRunning DEF ParityDiffers
  <2>3. "removal_incomplete" \in Answers
    BY DEF Answers
  <2>4. CASE Finish("removal_incomplete")
    BY <1>1, <2>2, <2>3, <2>4, FinishKeeps
  <2>5. CASE Goto("undo") /\ answer' = answer
    BY <1>1, <2>2, <2>5, GotoKeeps DEF FlowOK
  <2>. QED BY <2>1, <2>4, <2>5
<1>4. CASE CrashGateway
  <2>1. Finish("error") /\ "error" \in Answers
    BY <1>4 DEF CrashGateway, Answers
  <2>. QED BY <1>1, <2>1, FinishKeeps
<1>. QED BY <1>1, <1>2, <1>3, <1>4

LEMMA RollbackMaps ==
  ASSUME IInv, FlowOK, Rollback
  PROVE  CPNext /\ FlowOK'
<1>1. flow \in Flow /\ flow.dev \in Device /\ clock \in Time
  BY AtRunning, BookFacts DEF Rollback
<1>2. CPNext
  BY <1>1 DEF Rollback, CPNext
<1>3. \/ flow' = [flow EXCEPT !.pc = "release", !.since = clock] /\ answer' = answer
      \/ flow' = Idle /\ answer' = "reverted"
  BY DEF Rollback, Finish
<1>. QED BY <1>1, <1>2, <1>3 DEF FlowOK, Flow, Answers

\* The steps that delete the device's entry, or try to.
LEMMA DropMaps ==
  ASSUME FlowOK, Released \/ DropClient
  PROVE  CPNext /\ FlowOK'
<1>1. flow \in Flow /\ flow.dev \in Device
  BY AtRunning DEF Released, DropClient
<1>2. DeleteClient(flow.dev) \/ Failure
  BY DEF Released, DropClient
<1>3. CPNext
  BY <1>1, <1>2 DEF CPNext
<1>4. CASE Released
  <2>1. (Finish("reverted") \/ Finish("error"))
    BY <1>4 DEF Released
  <2>2. {"reverted", "error"} \subseteq Answers
    BY DEF Answers
  <2>. QED BY <1>3, <2>1, <2>2, FinishKeeps
<1>5. CASE DropClient
  <2>1. \/ Goto("others") /\ answer' = answer
        \/ flow' = [flow EXCEPT !.pc = "others", !.ok = FALSE] /\ answer' = answer
        \/ flow' = Idle /\ answer' = "error"
    BY <1>5 DEF DropClient, Finish
  <2>2. flow' \in Flow \cup {Idle}
    BY <1>1, <2>1 DEF Flow, Goto
  <2>3. answer' \in Answers
    BY <2>1 DEF FlowOK, Answers
  <2>. QED BY <1>3, <2>2, <2>3 DEF FlowOK
<1>. QED BY <1>3, <1>4, <1>5

LEMMA FlowMaps == IInv /\ FlowOK /\ [CDNext]_cdVars => [CPNext]_cpVars /\ FlowOK'
<1>. SUFFICES ASSUME IInv, FlowOK, [CDNext]_cdVars PROVE [CPNext]_cpVars /\ FlowOK'
  OBVIOUS
<1>1. CASE PolicyNext /\ UNCHANGED <<flow, answer>>
  BY <1>1 DEF CPNext, FlowOK
<1>2. CASE \E d \in Device : Add(d) \/ Remove(d) \/ Restore(d)
  BY <1>2, AddMaps, RemoveMaps, RestoreMaps
<1>3. CASE JobApplied \/ JobLate \/ VerifyClient \/ VerifyRules \/ ParityMatches
             \/ RollbackRefused \/ Left \/ CheckOthers
  BY <1>3, LookMaps
<1>4. CASE VerifyFails \/ ParityDiffers \/ CrashGateway
  BY <1>4, FailureMaps
<1>5. CASE Rollback
  BY <1>5, RollbackMaps
<1>6. CASE Released \/ DropClient
  BY <1>6, DropMaps
<1>7. CASE UNCHANGED cdVars
  BY <1>7 DEF cdVars, FlowOK
<1>. QED BY <1>1, <1>2, <1>3, <1>4, <1>5, <1>6, <1>7 DEF CDNext, FlowStep

LEMMA DevicesInv == CDSpec => [](IInv /\ FlowOK)
<1>1. CDInit => IInv /\ FlowOK
  BY InitInv, FlowInit DEF CDInit
<1>2. IInv /\ FlowOK /\ [CDNext]_cdVars => IInv' /\ FlowOK'
  BY FlowMaps, NextInv
<1>. QED BY <1>1, <1>2, PTL DEF CDSpec

(* Type correctness of the device changes (childdevices.py).                 *)
THEOREM DevicesTypeCorrect == CDSpec => []CDTypeOK
<1>1. IInv /\ FlowOK => CDTypeOK
  BY InvTypes DEF FlowOK, Answers, CDTypeOK
<1>. QED BY <1>1, DevicesInv, PTL

(* The portal's device changes implement the policy's specification: whatever *)
(* they do, verified or rolled back, crashed or timed out, is a step of the   *)
(* service, the job or AdGuard that the policy allows (childdevices.py).      *)
THEOREM DevicesImplementPolicy == CDSpec => CPSpec
<1>1. CDInit => CPInit
  BY DEF CDInit
<1>. QED BY <1>1, FlowMaps, DevicesInv, PTL DEF CDSpec, CPSpec

(* So device changes never lift every restriction either.                     *)
THEOREM DevicesNeverLifted == CDSpec => []NeverUnrestricted
BY DevicesImplementPolicy, NeverLifted, PTL

(* And what they leave open was opened by a parent.                           *)
THEOREM DevicesOnlyGranted == CDSpec => []OpenIsGranted
BY DevicesImplementPolicy, OnlyGrantedOpen, PTL

(* Both of them, and types: what the run of ChildDevices checks in each state. *)
THEOREM DevicesSafe == CDSpec => []PolicySafe
<1>1. CDTypeOK /\ NeverUnrestricted /\ OpenIsGranted => PolicySafe
  BY DEF PolicySafe
<1>. QED BY <1>1, DevicesTypeCorrect, DevicesNeverLifted, DevicesOnlyGranted, PTL

---------------------------------------------------------------------------
(* "created" is said of what is enforced                                   *)

Has(s, d) == s # Broken /\ s[d] # Absent

\* What a run would load.
Upstream == IF Usable(file) THEN file ELSE lastGood

\* While a device is added or restored: the service knows it, the file too unless the trouble has been; and once
\* rules for it are made or about to be, every run, also one that has still to load, has it in its snapshot.
AddedOK(d) ==
  /\ book[d] # Absent
  /\ trouble = 0 => Has(file, d)
  /\ HasRules(d) =>
       /\ Has(Upstream, d)
       /\ trouble = 0 => Has(lastGood, d)
       /\ \A r \in Runs : run[r].pc = "rules" => run[r].snap[d] # Absent

\* The lock file: one run at a time writes to AdGuard.
OneRun ==
  \A r, s \in Runs : run[r].pc \in {"rules", "clients"} /\ run[s].pc \in {"rules", "clients"} => r = s

Adding == flow.pc \in {"job", "verify", "rules", "parity"} /\ flow.kind # "remove" /\ ~flow.held

AddingOK ==
  /\ flow.pc \in {"leave", "client", "others"} => flow.kind = "remove"
  /\ Adding => /\ AddedOK(flow.dev)
               /\ flow.pc # "job" => block.snap[flow.dev] # Absent
               /\ flow.pc \in {"rules", "parity"} => flow.dev \in clients

LEMMA OneTrouble ==
  ASSUME MaxTrouble <= 1, trouble \in Nat, Trouble
  PROVE  trouble = 0 /\ trouble' = 1
  BY BoundAssumption DEF Trouble

LEMMA OneRunStays ==
  ASSUME IInv, OneRun, [CPNext]_cpVars PROVE OneRun'
<1>1. run \in [Runs -> [pc : {"idle", "wait", "rules", "clients"}, now : Time, snap : Policy \cup {Broken}]]
  BY DEF IInv, RunsOK
<1>2. CASE run' = run
  BY <1>2 DEF OneRun
<1>3. ASSUME NEW r \in Runs, StartRun(r) \/ LoadSnapshot(r) \/ SetRules(r) \/ EnsureClients(r) \/ FailRun(r) PROVE OneRun'
  <2>1. \A s \in Runs \ {r} : run'[s] = run[s]
    BY <1>1, <1>3 DEF StartRun, LoadSnapshot, SetRules, EnsureClients, FailRun
  <2>2. run'[r].pc \in {"rules", "clients"} => run[r].pc \in {"rules", "clients"} \/ LockFree
    BY <1>1, <1>3 DEF StartRun, LoadSnapshot, SetRules, EnsureClients, FailRun, NoRun
  <2> QED
    BY <2>1, <2>2 DEF OneRun, LockFree
<1>4. CASE PolicyNext
  BY <1>2, <1>3, <1>4 DEF PolicyNext, CancelChildException, AddChildException, PutWindows, ExpireChildExceptions,
       Republish, StopService, StartService, SpoilFile, Store, RunStep, Tick, job
<1>5. CASE ~PolicyNext
  BY <1>2, <1>5 DEF CPNext, Failure, AddChildDevice, RemoveChildDevice, RestoreChildDevice, DeleteClient, Store, job, cpVars
<1> QED
  BY <1>4, <1>5

\* A publication of what has the device.
LEMMA PublishAdded ==
  ASSUME IInv, MaxTrouble <= 1, NEW d \in Device, NEW p \in Policy, p[d] # Absent, Publish(p),
         HasRules(d) => Has(Upstream, d), trouble = 0 /\ HasRules(d) => Has(lastGood, d),
         UNCHANGED <<lastGood, run, block>>
  PROVE  /\ trouble' = 0 => Has(file', d)
         /\ HasRules(d) => Has(Upstream', d)
<1>1. clock \in Time /\ trouble \in Nat
  BY DEF IInv, PlainOK
<1>2. Snapshot(p) \in Policy /\ Devices(Snapshot(p)) = Devices(p) /\ d \in Devices(p)
  BY <1>1, SnapshotFacts DEF Devices
<1>3. Has(Snapshot(p), d) /\ Usable(Snapshot(p))
  BY <1>2, PolicyAssumption DEF Has, Usable, Devices
<1>4. CASE file' = Snapshot(p)
  BY <1>3, <1>4 DEF Upstream
<1>5. CASE file' = file /\ (Trouble \/ (missed /\ UNCHANGED trouble))
  <2>1. trouble' # 0
    BY <1>1, <1>5, OneTrouble DEF IInv, PlainOK
  <2>2. Upstream' = Upstream
    BY <1>5 DEF Upstream
  <2> QED
    BY <2>1, <2>2
<1> QED
  BY <1>2, <1>4, <1>5 DEF Publish

LEMMA HasRulesSame == ASSUME UNCHANGED <<run, block>>, NEW d PROVE HasRules(d)' <=> HasRules(d)
  BY DEF HasRules

\* A step of the service that leaves the device in the book.
LEMMA StoreAdded ==
  ASSUME IInv, MaxTrouble <= 1, NEW d \in Device, AddedOK(d), NEW p \in Policy, p[d] # Absent, Publish(p),
         book' = p, UNCHANGED <<lastGood, run, block>>
  PROVE  AddedOK(d)'
<1>1. trouble' = 0 => trouble = 0
  BY TroubleNat DEF Publish, IInv, PlainOK
<1>2. /\ trouble' = 0 => Has(file', d)
      /\ HasRules(d) => Has(Upstream', d)
  BY PublishAdded DEF AddedOK
<1> QED
  BY <1>1, <1>2, HasRulesSame DEF AddedOK

\* What rules and clients the device has stays as long as the runs go on and nobody deletes.
Kept(d) ==
  /\ AddedOK(d)'
  /\ block.snap[d] # Absent => block'.snap[d] # Absent
  /\ d \in clients => d \in clients'

LEMMA StoreKept ==
  ASSUME IInv, MaxTrouble <= 1, NEW d \in Device, AddedOK(d), NEW p \in Policy, p[d] # Absent, Store(p)
  PROVE  Kept(d)
<1>1. book' = p /\ Publish(p) /\ UNCHANGED <<lastGood, run, block, clients>>
  BY DEF Store, job, adguard
<1> QED
  BY <1>1, StoreAdded DEF Kept

LEMMA EditKept ==
  ASSUME IInv, MaxTrouble <= 1, NEW d \in Device, AddedOK(d),
         \/ ExpireChildExceptions
         \/ \E k \in Device, t \in Target :
              CancelChildException(k, t) \/ \E until \in Time : AddChildException(k, t, until)
         \/ \E k \in Device, w \in Window : PutWindows(k, w)
  PROVE  Kept(d)
<1>1. book \in Policy /\ book[d] # Absent /\ 0 \in Time
  BY TimeAssumption DEF IInv, BookOK, Good, AddedOK, Time
<1>2. ASSUME NEW k \in Device, NEW row \in Row, Store([book EXCEPT ![k] = row]) PROVE Kept(d)
  <2>1. [book EXCEPT ![k] = row] \in Policy /\ [book EXCEPT ![k] = row][d] # Absent
    BY <1>1, PolicyAssumption DEF Policy
  <2> QED
    BY <1>2, <2>1, StoreKept
<1>3. ASSUME NEW k \in Device, NEW t \in Target,
             CancelChildException(k, t) \/ \E until \in Time : AddChildException(k, t, until)
      PROVE  Kept(d)
  <2>1. PICK e \in Time : Store([book EXCEPT ![k].exc[t] = e]) /\ book[k] # Absent
    BY <1>1, <1>3 DEF CancelChildException, AddChildException
  <2>2. book[k] \in Row /\ [book EXCEPT ![k].exc[t] = e] = [book EXCEPT ![k] = [book[k] EXCEPT !.exc[t] = e]]
    BY <1>1, <2>1 DEF Policy
  <2>3. [book[k] EXCEPT !.exc[t] = e] \in Row
    BY <2>2 DEF Row
  <2> QED
    BY <1>2, <2>1, <2>2, <2>3
<1>4. ASSUME NEW k \in Device, NEW w \in Window, PutWindows(k, w) PROVE Kept(d)
  <2>1. Store([book EXCEPT ![k].win = w]) /\ book[k] # Absent
    BY <1>4 DEF PutWindows
  <2>2. book[k] \in Row /\ [book EXCEPT ![k].win = w] = [book EXCEPT ![k] = [book[k] EXCEPT !.win = w]]
    BY <1>1, <2>1 DEF Policy
  <2>3. [book[k] EXCEPT !.win = w] \in Row
    BY <2>2 DEF Row
  <2> QED
    BY <1>2, <2>1, <2>2, <2>3
<1>5. CASE ExpireChildExceptions
  <2> DEFINE row(k) == [book[k] EXCEPT !.exc =
                          [t \in Target |-> IF Ended(book[k], t) THEN 0 ELSE book[k].exc[t]]]
             p == [k \in Device |-> IF book[k] = Absent THEN Absent ELSE row(k)]
  <2>1. \A k \in Devices(book) : row(k) \in Row
    <3> TAKE k \in Devices(book)
    <3>1. book[k].exc \in [Target -> Time] /\ book[k] \in Row
      BY BookFacts DEF Row
    <3>2. [t \in Target |-> IF Ended(book[k], t) THEN 0 ELSE book[k].exc[t]] \in [Target -> Time]
      BY <1>1, <3>1
    <3> QED
      BY <3>1, <3>2 DEF Row
  <2>2. Store(p)
    BY <1>5 DEF ExpireChildExceptions
  <2> HIDE DEF row
  <2>3. p \in Policy /\ p[d] # Absent
    BY <1>1, <2>1, PolicyAssumption DEF Policy, Devices
  <2> HIDE DEF p
  <2> QED
    BY <2>2, <2>3, StoreKept
<1> QED
  BY <1>3, <1>4, <1>5

LEMMA ServiceKept ==
  ASSUME IInv, MaxTrouble <= 1, NEW d \in Device, AddedOK(d),
         Republish \/ StopService \/ StartService \/ SpoilFile \/ Tick \/ Failure
  PROVE  Kept(d)
<1>1. book \in Policy /\ book[d] # Absent /\ trouble \in Nat /\ clock \in Time
  BY DEF IInv, BookOK, Good, AddedOK, PlainOK
<1>2. UNCHANGED <<book, lastGood, run, block, clients>>
  BY DEF Republish, StopService, StartService, SpoilFile, Tick, Failure, service, job, adguard
<1>3. CASE Republish
  <2>1. Publish(book)
    BY <1>3 DEF Republish
  <2> QED
    BY <1>1, <1>2, <2>1, StoreAdded DEF Kept
<1>4. CASE file' = file /\ (trouble' = trouble \/ Trouble)
  <2>1. trouble' = 0 => trouble = 0
    BY <1>1, <1>4 DEF Trouble
  <2>2. Upstream' = Upstream
    BY <1>2, <1>4 DEF Upstream
  <2> QED
    BY <1>2, <1>4, <2>1, <2>2, HasRulesSame DEF Kept, AddedOK
<1>5. CASE file' = Snapshot(book) /\ trouble' = trouble
  <2>1. Snapshot(book) \in Policy /\ Devices(Snapshot(book)) = Devices(book) /\ d \in Devices(book)
    BY <1>1, SnapshotFacts DEF Devices
  <2>2. Has(Snapshot(book), d) /\ Usable(Snapshot(book))
    BY <2>1, PolicyAssumption DEF Has, Usable, Devices
  <2>3. Has(Upstream', d)
    BY <1>5, <2>2 DEF Upstream
  <2> QED
    BY <1>2, <1>5, <2>2, <2>3, HasRulesSame DEF Kept, AddedOK
<1>6. CASE SpoilFile
  <2>1. trouble = 0 /\ trouble' = 1 /\ file' = Broken
    BY <1>1, <1>6, OneTrouble DEF SpoilFile
  <2>2. Upstream' = lastGood
    BY <1>2, <2>1 DEF Upstream, Usable
  <2> QED
    BY <1>2, <2>1, <2>2, HasRulesSame DEF Kept, AddedOK
<1> QED
  BY <1>3, <1>4, <1>5, <1>6 DEF StopService, StartService, Tick, Failure

LEMMA RunKept ==
  ASSUME IInv, OneRun, MaxTrouble <= 1, NEW d \in Device, AddedOK(d), NEW r \in Runs,
         StartRun(r) \/ RunStep(r) \/ FailRun(r)
  PROVE  Kept(d)
<1>1. /\ run \in [Runs -> [pc : {"idle", "wait", "rules", "clients"}, now : Time, snap : Policy \cup {Broken}]]
      /\ trouble \in Nat
  BY DEF IInv, RunsOK, PlainOK
<1>2. UNCHANGED <<book, file>>
  BY DEF StartRun, RunStep, LoadSnapshot, SetRules, EnsureClients, FailRun, service
<1>3. trouble' = 0 => trouble = 0
  BY <1>1 DEF StartRun, RunStep, LoadSnapshot, SetRules, EnsureClients, FailRun, Trouble
<1>4. d \in clients => d \in clients'
  BY DEF StartRun, RunStep, LoadSnapshot, SetRules, EnsureClients, FailRun, adguard
\* A run begins, ends or does the clients.
<1>5. CASE StartRun(r) \/ EnsureClients(r) \/ FailRun(r)
  <2>1. UNCHANGED <<lastGood, block>>
    BY <1>5 DEF StartRun, EnsureClients, FailRun, adguard
  <2>2. /\ \A s \in Runs \ {r} : run'[s] = run[s]
        /\ run'[r].pc # "rules"
    BY <1>1, <1>5 DEF StartRun, EnsureClients, FailRun, NoRun
  <2>3. HasRules(d)' => HasRules(d)
    BY <2>1, <2>2 DEF HasRules
  <2>4. Upstream' = Upstream
    BY <1>2, <2>1 DEF Upstream
  <2>5. AddedOK(d)'
    BY <1>2, <1>3, <2>1, <2>2, <2>3, <2>4 DEF AddedOK
  <2> QED
    BY <1>4, <2>1, <2>5 DEF Kept
<1>6. CASE LoadSnapshot(r)
  <2>1. block' = block /\ (\A s \in Runs : run[s].pc # "rules")
    BY <1>6 DEF LoadSnapshot, LockFree, adguard
  <2>2. CASE Usable(Upstream)
    <3>1. /\ run' = [run EXCEPT ![r].pc = "rules", ![r].snap = Upstream]
          /\ \/ lastGood' = Upstream /\ UNCHANGED trouble
             \/ Trouble /\ UNCHANGED lastGood
      BY <1>6, <2>2 DEF LoadSnapshot, Upstream
    <3>2. /\ run'[r].pc = "rules" /\ run'[r].snap = Upstream
          /\ \A s \in Runs \ {r} : run'[s] = run[s]
      BY <1>1, <3>1
    <3>3. Upstream' = Upstream
      BY <1>2, <3>1 DEF Upstream
    <3>4. Trouble => trouble' = 1
      BY <1>1, OneTrouble
    <3>5. HasRules(d)' => Has(Upstream, d)
      BY <2>1, <2>2, <3>2 DEF HasRules, AddedOK, Has, Usable
    <3>6. trouble' = 0 => lastGood' = Upstream
      BY <3>1, <3>4
    <3>7. Has(Upstream, d) => \A s \in Runs : run'[s].pc = "rules" => run'[s].snap[d] # Absent
      BY <2>1, <3>2 DEF Has
    <3>8. book'[d] # Absent /\ (trouble' = 0 => Has(file', d))
      BY <1>2, <1>3 DEF AddedOK
    <3>9. AddedOK(d)'
      BY <3>3, <3>5, <3>6, <3>7, <3>8 DEF AddedOK
    <3> QED
      BY <1>4, <2>1, <3>9 DEF Kept
  <2>3. CASE ~Usable(Upstream)
    <3>1. UNCHANGED <<lastGood, trouble>> /\ run' = [run EXCEPT ![r] = NoRun(run[r].now)]
      BY <1>6, <2>3 DEF LoadSnapshot, Upstream
    <3>2. \A s \in Runs : run'[s].pc # "rules"
      BY <1>1, <2>1, <3>1 DEF NoRun
    <3>3. HasRules(d)' => HasRules(d)
      BY <2>1, <3>2 DEF HasRules
    <3>4. Upstream' = Upstream
      BY <1>2, <3>1 DEF Upstream
    <3>5. AddedOK(d)'
      BY <1>2, <3>1, <3>2, <3>3, <3>4 DEF AddedOK
    <3> QED
      BY <1>4, <2>1, <3>5 DEF Kept
  <2> QED
    BY <2>2, <2>3
<1>7. CASE SetRules(r)
  <2>1. /\ run[r].pc = "rules" /\ block'.snap = run[r].snap /\ lastGood' = lastGood
        /\ run' = [run EXCEPT ![r].pc = "clients"]
    BY <1>7 DEF SetRules
  <2>2. \A s \in Runs : run'[s].pc # "rules"
    BY <1>1, <2>1 DEF OneRun
  <2>3. HasRules(d)' => HasRules(d)
    BY <2>1, <2>2 DEF HasRules
  <2>4. Upstream' = Upstream
    BY <1>2, <2>1 DEF Upstream
  <2>5. AddedOK(d)'
    BY <1>2, <1>3, <2>1, <2>2, <2>3, <2>4 DEF AddedOK
  <2>6. block.snap[d] # Absent => block'.snap[d] # Absent
    BY <2>1 DEF AddedOK, HasRules
  <2> QED
    BY <1>4, <2>5, <2>6 DEF Kept
<1> QED
  BY <1>5, <1>6, <1>7 DEF RunStep

LEMMA PolicyKept ==
  ASSUME IInv, OneRun, MaxTrouble <= 1, NEW d \in Device, AddedOK(d), PolicyNext \/ Failure
  PROVE  Kept(d)
<1>1. CASE PolicyNext
  BY <1>1, EditKept, ServiceKept, RunKept DEF PolicyNext
<1>2. CASE Failure
  BY <1>2, ServiceKept
<1> QED
  BY <1>1, <1>2

LEMMA LookKept == ASSUME UNCHANGED cpVars, NEW d, AddedOK(d) PROVE Kept(d)
<1>1. UNCHANGED <<book, file, lastGood, run, block, clients, trouble>>
  BY DEF cpVars, service, job, adguard
<1>2. Upstream' = Upstream
  BY <1>1 DEF Upstream
<1> QED
  BY <1>1, <1>2, HasRulesSame DEF Kept, AddedOK

LEMMA GotoIs ==
  ASSUME flow \in Flow, NEW pc, Goto(pc)
  PROVE  flow'.pc = pc /\ flow'.kind = flow.kind /\ flow'.dev = flow.dev /\ flow'.held = flow.held
  BY DEF Goto, Flow

\* Nothing is being added.
LEMMA NotAdding ==
  ASSUME flow'.pc \notin {"job", "verify", "rules", "parity", "leave", "client", "others"} \/ flow' = Idle
  PROVE  AddingOK'
  BY DEF AddingOK, Adding, Idle

\* A device is added or restored.
LEMMA BeginAdded ==
  ASSUME IInv, MaxTrouble <= 1, NEW d \in Device, NEW kind \in {"add", "restore"}, NEW p \in Policy, p[d] # Absent,
         Store(p), Begin(kind, d, "job")
  PROVE  AddingOK'
<1>1. book' = p /\ Publish(p) /\ UNCHANGED <<lastGood, run, block, clients>>
  BY DEF Store, job, adguard
<1>2. CASE flow' = Idle
  BY <1>2, NotAdding
<1>3. CASE flow' = [pc |-> "job", kind |-> kind, dev |-> d, since |-> clock, ok |-> TRUE, held |-> HasRules(d)]
  <2>1. flow'.pc = "job" /\ flow'.dev = d /\ (flow'.held <=> HasRules(d))
    BY <1>3
  <2>2. ~HasRules(d) => AddedOK(d)'
    BY <1>1, PublishAdded, HasRulesSame DEF AddedOK
  <2> QED
    BY <2>1, <2>2 DEF AddingOK, Adding
<1> QED
  BY <1>2, <1>3 DEF Begin, Finish

LEMMA BeginsOK ==
  ASSUME IInv, MaxTrouble <= 1, NEW d \in Device, Add(d) \/ Remove(d) \/ Restore(d)
  PROVE  AddingOK'
<1>1. book \in Policy /\ 0 \in Time
  BY TimeAssumption DEF IInv, BookOK, Good, Time
<1>2. ASSUME NEW row \in Row PROVE [book EXCEPT ![d] = row] \in Policy /\ [book EXCEPT ![d] = row][d] # Absent
  BY <1>1, PolicyAssumption DEF Policy
<1>3. CASE Add(d)
  <2>1. PICK w \in {{}} \cup {book[k].win : k \in Devices(book)} : AddChildDevice(d, w)
    BY <1>3 DEF Add
  <2>2. w \in Window
    BY PatienceAssumption, BookFacts DEF Row
  <2> DEFINE row == [win |-> w, exc |-> NoException]
  <2>3. row \in Row
    BY <1>1, <2>2 DEF Row, NoException
  <2>4. Store([book EXCEPT ![d] = row])
    BY <2>1 DEF AddChildDevice
  <2> HIDE DEF row
  <2> QED
    BY <1>2, <1>3, <2>3, <2>4, BeginAdded DEF Add
<1>4. CASE Restore(d)
  <2> DEFINE row == Lasting(kept[d].row)
  <2>1. kept[d].row \in Row /\ clock \in Time
    BY <1>4, BookFacts DEF Restore, RestoreChildDevice, IInv, KeptOK
  <2>2. row \in Row
    BY <2>1, LastingFacts
  <2>3. Store([book EXCEPT ![d] = row])
    BY <1>4 DEF Restore, RestoreChildDevice
  <2> HIDE DEF row
  <2> QED
    BY <1>2, <1>4, <2>2, <2>3, BeginAdded DEF Restore
<1>5. CASE Remove(d)
  <2>1. \/ flow' = Idle
        \/ flow'.pc = "leave" /\ flow'.kind = "remove"
    BY <1>5 DEF Remove, Begin, Finish
  <2>2. CASE flow' = Idle
    BY <2>2, NotAdding
  <2>3. CASE flow'.pc = "leave" /\ flow'.kind = "remove"
    BY <2>3 DEF AddingOK, Adding
  <2> QED
    BY <2>1, <2>2, <2>3
<1> QED
  BY <1>3, <1>4, <1>5

LEMMA FlowStepsOK ==
  ASSUME FlowOK, AddingOK, FlowStep \/ CrashGateway
  PROVE  AddingOK'
<1>1. flow \in Flow
  <2>1. CASE FlowStep
    <3>1. flow.pc # "idle"
      BY <2>1 DEF FlowStep, JobApplied, JobLate, VerifyClient, VerifyRules, VerifyFails, ParityMatches, ParityDiffers,
         Rollback, RollbackRefused, Released, Left, DropClient, CheckOthers, At
    <3> QED
      BY <3>1, Running DEF Idle
  <2>2. CASE CrashGateway
    BY <2>2, Running DEF CrashGateway
  <2> QED
    BY <2>1, <2>2
<1>2. CASE JobApplied
  <2>1. flow.pc = "job" /\ LineOf(flow.dev) # "free" /\ Goto("verify") /\ UNCHANGED cpVars
    BY <1>2 DEF JobApplied, At
  <2>2. block.snap[flow.dev] # Absent
    BY <2>1 DEF LineOf, Line
  <2> QED
    BY <1>1, <2>1, <2>2, GotoIs, LookKept DEF AddingOK, Adding, Kept
<1>3. CASE VerifyClient \/ VerifyRules
  <2>1. /\ UNCHANGED cpVars
        /\ \/ flow.pc = "verify" /\ flow.dev \in clients /\ Goto("rules")
           \/ flow.pc = "rules" /\ Goto("parity")
           \/ Goto("undo")
    BY <1>3 DEF VerifyClient, VerifyRules, At, GiveUp
  <2>2. CASE Goto("undo")
    BY <1>1, <2>2, GotoIs, NotAdding
  <2>3. CASE ~Goto("undo")
    BY <1>1, <2>1, <2>3, GotoIs, LookKept DEF AddingOK, Adding, Kept
  <2> QED
    BY <2>2, <2>3
<1>4. CASE JobLate \/ VerifyFails \/ ParityMatches \/ ParityDiffers \/ RollbackRefused \/ Released \/ CrashGateway
  <2>1. Goto("undo") \/ flow' = Idle
    BY <1>4 DEF JobLate, VerifyFails, ParityMatches, ParityDiffers, RollbackRefused, Released, CrashGateway,
       GiveUp, Finish
  <2> QED
    BY <1>1, <2>1, GotoIs, NotAdding
<1>5. CASE Rollback
  <2>1. flow'.pc = "release" \/ flow' = Idle
    BY <1>1, <1>5 DEF Rollback, Finish, Flow
  <2> QED
    BY <2>1, NotAdding
<1>6. CASE Left \/ DropClient \/ CheckOthers
  <2>1. flow.kind = "remove"
    BY <1>6 DEF Left, DropClient, CheckOthers, At, AddingOK
  <2>2. flow' = Idle \/ flow'.kind = "remove"
    BY <1>1, <1>6, <2>1 DEF Left, DropClient, CheckOthers, Finish, Goto, Flow
  <2> QED
    BY <2>2, NotAdding DEF AddingOK, Adding
<1> QED
  BY <1>2, <1>3, <1>4, <1>5, <1>6 DEF FlowStep

LEMMA AddingStays ==
  MaxTrouble <= 1 /\ IInv /\ FlowOK /\ OneRun /\ AddingOK /\ [CDNext]_cdVars => OneRun' /\ AddingOK'
<1> SUFFICES ASSUME MaxTrouble <= 1, IInv, FlowOK, OneRun, AddingOK, [CDNext]_cdVars PROVE OneRun' /\ AddingOK'
  OBVIOUS
<1>1. OneRun'
  BY FlowMaps, OneRunStays
<1> SUFFICES AddingOK'
  BY <1>1
<1>2. CASE PolicyNext /\ UNCHANGED <<flow, answer>>
  <2>1. Adding => flow.dev \in Device
    BY DEF FlowOK, Adding, Flow, Idle
  <2> QED
    BY <1>2, <2>1, PolicyKept DEF AddingOK, Adding, Kept
<1>3. CASE \E d \in Device : Add(d) \/ Remove(d) \/ Restore(d)
  BY <1>3, BeginsOK
<1>4. CASE FlowStep \/ CrashGateway
  BY <1>4, FlowStepsOK
<1>5. CASE UNCHANGED cdVars
  BY <1>5, LookKept DEF cdVars, AddingOK, Adding, Kept
<1> QED
  BY <1>1, <1>2, <1>3, <1>4, <1>5 DEF CDNext

LEMMA CreatedStep ==
  ASSUME FlowOK, AddingOK, CDNext, flow # Idle, flow' = Idle, answer' = "created", ~flow.held
  PROVE  book[flow.dev] # Absent /\ block.snap[flow.dev] # Absent /\ flow.dev \in clients
<1>1. flow \in Flow
  BY Running
<1>2. ASSUME NEW pc \in {"verify", "rules", "parity", "undo", "release", "client", "others"}, flow'.pc = pc PROVE FALSE
  BY <1>2 DEF Idle
<1>3. ParityMatches
  <2>1. ~JobApplied /\ ~JobLate /\ ~VerifyClient /\ ~VerifyRules /\ ~VerifyFails /\ ~Left
    BY <1>1 DEF JobApplied, JobLate, VerifyClient, VerifyRules, VerifyFails, Left, GiveUp, Goto, Flow, Idle
  <2>2. ~RollbackRefused /\ ~Released /\ ~CrashGateway
    BY DEF RollbackRefused, Released, CrashGateway, Finish
  <2>3. ~ParityDiffers /\ ~Rollback /\ ~DropClient /\ ~CheckOthers
    BY <1>1 DEF ParityDiffers, Rollback, DropClient, CheckOthers, GiveUp, Goto, Finish, Flow, Idle
  <2>4. ~(PolicyNext /\ UNCHANGED <<flow, answer>>)
    OBVIOUS
  <2>5. \A d \in Device : ~(Add(d) \/ Remove(d) \/ Restore(d))
    BY DEF Add, Remove, Restore, Begin
  <2> QED
    BY <2>1, <2>2, <2>3, <2>4, <2>5 DEF CDNext, FlowStep
<1>4. flow.pc = "parity" /\ flow.kind # "remove"
  BY <1>3 DEF ParityMatches, At, Finish
<1> QED
  BY <1>4 DEF AddingOK, Adding, AddedOK

(* "created" is said of a device that the service knows, whose rules AdGuard   *)
(* has and whose entry is there, as long as there is at most one trouble       *)
(* (childdevices._verify_added, childpolicy.run): a publication that fails, a  *)
(* file that is spoilt, a good copy that cannot be written, a run that is cut. *)
THEOREM CreatedHolds == ASSUME MaxTrouble <= 1 PROVE CDSpec => CreatedIsEnforced
<1>1. CDInit => OneRun /\ AddingOK
  <2> SUFFICES ASSUME CDInit PROVE OneRun /\ AddingOK
    OBVIOUS
  <2>1. \A r \in Runs : run[r].pc = "idle"
    BY DEF CDInit, CPInit, NoRun
  <2> QED
    BY <2>1 DEF CDInit, OneRun, AddingOK, Adding, Idle
<1>2. IInv /\ FlowOK /\ OneRun /\ AddingOK /\ [CDNext]_cdVars => OneRun' /\ AddingOK'
  BY AddingStays
<1>3. FlowOK /\ AddingOK /\ [CDNext]_cdVars =>
        [flow # Idle /\ flow' = Idle /\ answer' = "created" /\ ~flow.held =>
           /\ book[flow.dev] # Absent
           /\ block.snap[flow.dev] # Absent
           /\ flow.dev \in clients]_cdVars
  BY CreatedStep
<1> QED
  BY <1>1, <1>2, <1>3, DevicesInv, PTL DEF CDSpec, CreatedIsEnforced
=============================================================================
