---------------------------- MODULE Portal_proofs ----------------------------
(***************************************************************************)
(* Proofs about the modules of the portal that share no state, for any     *)
(* people, changes, versions, operators, devices and bounds. Each has its  *)
(* inductive invariant; MCPortal, of which one of them moves, inherits it. *)
(***************************************************************************)
EXTENDS MCPortal, FiniteSetTheorems, SequenceTheorems, TLAPS

-----------------------------------------------------------------------------
(* One module moves, and it takes its own steps.                           *)

\* In a behaviour the module that moves stays the same, and its steps are those of its specification.
LEMMA PartStarts ==
  PortalInit =>
    /\ part = "requests" => ReqInit
    /\ part = "releases" => RelInit
    /\ part = "parental" => KidInit
    /\ part = "childLists" => ListInit
    /\ part = "haLink" => HlInit
    /\ part = "signIn" => SignInit
    /\ part = "schedules" => SchedInit
    /\ part = "access" => AccessInit
    /\ part = "vacuums" => VacInit
  BY Zenon DEF PortalInit

LEMMA PartMoves ==
  [PortalNext]_portalVars =>
    /\ part' = part
    /\ part = "requests" => [ReqNext]_reqVars
    /\ part = "releases" => [RelNext]_relVars
    /\ part = "parental" => [KidNext]_kidVars
    /\ part = "childLists" => [ListNext]_listVars
    /\ part = "haLink" => [HlNext]_hlVars
    /\ part = "signIn" => [SignNext]_signVars
    /\ part = "schedules" => [SchedNext]_schedVars
    /\ part = "access" => [AccessNext]_accessVars
    /\ part = "vacuums" => [VacNext]_vacVars
<1> SUFFICES ASSUME [PortalNext]_portalVars
             PROVE  /\ part' = part
                    /\ part = "requests" => [ReqNext]_reqVars
                    /\ part = "releases" => [RelNext]_relVars
                    /\ part = "parental" => [KidNext]_kidVars
                    /\ part = "childLists" => [ListNext]_listVars
                    /\ part = "haLink" => [HlNext]_hlVars
                    /\ part = "signIn" => [SignNext]_signVars
                    /\ part = "schedules" => [SchedNext]_schedVars
                    /\ part = "access" => [AccessNext]_accessVars
                    /\ part = "vacuums" => [VacNext]_vacVars
  OBVIOUS
<1>1. CASE UNCHANGED portalVars
  BY <1>1, Zenon DEF portalVars
<1>2. CASE PortalNext
  BY <1>2 DEF PortalNext
<1> QED
  BY <1>1, <1>2

-----------------------------------------------------------------------------
(* Releases: the update channel of the app.                                *)

ReleaseRow == [state : {"none", "pending", "published", "superseded"}, hash : Content \cup {NoFile},
        cert : Cert \cup {NoCert}, min : Nat]
Command == {NoCommand} \cup [at : {"pin"}, cert : Cert]
           \cup [at : {"copy", "insert"}, version : Version, content : Content, cert : Cert]

Manifest == {NoManifest} \cup
  [version : Version, hash : Content \cup {NoFile}, cert : Cert \cup {NoCert}, min : Nat]
Phone == [has : Manifest, runs : Version \cup {0}, content : Content \cup {NoFile}]
HasRow(v) == releases[v].state # "none"

\* The types of what the channel is made of.
RelTypes ==
  /\ releases \in [Version -> ReleaseRow] /\ files \in [Version -> Content \cup {NoFile}]
  /\ pinned \in Cert \cup {NoCert} /\ manifest \in Manifest
  /\ releaseCurrent \in Version \cup {0} /\ minSupported \in 0..releaseCurrent
  /\ gwctl \in [Operator -> Command] /\ adds \in [Operator -> 0..MaxAdds]
  /\ mishaps \in 0..MaxMishaps /\ (releaseCurrent = 0 <=> manifest = NoManifest)
  /\ handset \in [Handset -> Phone]

\* What a phone runs has a row.
RunsReleases ==
  \A h \in Handset : handset[h].runs # 0 =>
    HasRow(handset[h].runs) /\ handset[h].content = releases[handset[h].runs].hash

\* Where there are rows there is a highest one, which Top picks.
HighestRow ==
  (\E v \in Version : HasRow(v)) => \E v \in Version : HasRow(v) /\ \A u \in Version : HasRow(u) => u <= v

\* As long as nothing rots, dies or crosses, one command at most is under way, what it found still
\* holds, and every row has its file and the pinned certificate.
Undisturbed == mishaps = 0 /\ crossed = {}
OneCommand == \A o, p \in Operator : gwctl[o].at # "idle" /\ gwctl[p].at # "idle" => o = p
FoundStillHolds ==
  \A o \in Operator :
    /\ gwctl[o].at = "pin" => pinned \in {NoCert, gwctl[o].cert}
    /\ gwctl[o].at \in {"copy", "insert"} =>
         gwctl[o].cert = pinned /\ pinned # NoCert /\ ~HasRow(gwctl[o].version)
    /\ gwctl[o].at = "insert" => files[gwctl[o].version] = gwctl[o].content
RowsAreWhole ==
  \A v \in Version : HasRow(v) =>
    files[v] = releases[v].hash /\ releases[v].cert = pinned /\ pinned # NoCert
CalmChannel == Undisturbed => OneCommand /\ FoundStillHolds /\ RowsAreWhole

RelInv == RelTypes /\ ChannelAgrees /\ RunsReleases /\ HighestRow /\ CalmChannel

\* The rows that a step finds keep what was recorded of them.
LEMMA RowsStay ==
  ASSUME RelTypes, [RelNext]_relVars, NEW v \in Version, HasRow(v)
  PROVE  HasRow(v)' /\ releases'[v].hash = releases[v].hash /\ releases'[v].cert = releases[v].cert
<1>1. CASE UNCHANGED releases
  BY <1>1 DEF HasRow
<1>2. CASE \E o \in Operator : Inserted(o)
  BY <1>2 DEF Inserted, HasRow, RelTypes
<1>3. CASE \E u \in Version : \E asked \in {-1} \cup Version : Publish(u, asked)
  BY <1>3 DEF Publish, HasRow, RelTypes, ReleaseRow
<1> QED
  BY <1>1, <1>2, <1>3, Zenon DEF RelNext, relVars, Gateway, PinChecked, AddChecked, Begins, Pinned, Copied,
       CommandDies, FileRots, Stop, Fetches, Downloads, KeyTurns

\* The version of a command that was let through has no row yet.
LEMMA AboveTheTop ==
  ASSUME RelTypes, HighestRow, NEW v \in Version, v > Top
  PROVE  ~HasRow(v)
<1> SUFFICES ASSUME HasRow(v) PROVE FALSE
  OBVIOUS
<1> DEFINE Highest(u) == releases[u].state # "none" /\ \A w \in Version : releases[w].state # "none" => w <= u
<1>1. \E u \in Version : Highest(u)
  BY DEF HighestRow, HasRow
<1>2. Top = CHOOSE u \in Version : Highest(u)
  BY DEF Top, HasRow
<1>3. Top \in Version /\ Highest(Top)
  BY <1>1, <1>2
<1> HIDE DEF Highest
<1>4. v <= Top
  BY <1>3 DEF HasRow, Highest
<1>5. v \in Nat /\ Top \in Nat
  BY <1>3, ReleaseNumbers
<1> QED
  BY <1>4, <1>5

LEMMA RelStarts == RelInit => RelInv
<1> SUFFICES ASSUME RelInit PROVE RelInv
  OBVIOUS
<1>1. RelTypes
  BY ReleaseNumbers DEF RelInit, RelTypes, ReleaseRow, NoRow, Manifest, NoManifest, Command, NoCommand, Phone
<1>2. ChannelAgrees
  BY DEF RelInit, ChannelAgrees, NoRow
<1>3. RunsReleases /\ HighestRow
  BY DEF RelInit, RunsReleases, HighestRow, HasRow, NoRow
<1>4. CalmChannel
  BY DEF RelInit, CalmChannel, OneCommand, FoundStillHolds, RowsAreWhole, HasRow, NoRow, NoCommand
<1> QED
  BY <1>1, <1>2, <1>3, <1>4 DEF RelInv

LEMMA RelTypesStay == RelTypes /\ [RelNext]_relVars => RelTypes'
<1> SUFFICES ASSUME RelTypes, [RelNext]_relVars PROVE RelTypes'
  OBVIOUS
<1> USE ReleaseNumbers DEF RelTypes
<1>1. ASSUME NEW o \in Operator, NEW c \in Cert, PinChecked(o, c) PROVE RelTypes'
  BY <1>1 DEF PinChecked, Begins, Gateway, Command, NoCommand
<1>2. ASSUME NEW o \in Operator, NEW v \in Version, NEW x \in Content, NEW c \in Cert, AddChecked(o, v, x, c)
      PROVE  RelTypes'
  BY <1>2 DEF AddChecked, Begins, Gateway, Command, NoCommand
<1>3. ASSUME NEW o \in Operator, Pinned(o) PROVE RelTypes'
  BY <1>3 DEF Pinned, Ends, Gateway, Command, NoCommand
<1>4. ASSUME NEW o \in Operator, Copied(o) PROVE RelTypes'
  BY <1>4 DEF Copied, Gateway, Command, NoCommand
<1>5. ASSUME NEW o \in Operator, Inserted(o) PROVE RelTypes'
  BY <1>5 DEF Inserted, Ends, Gateway, Command, NoCommand, ReleaseRow
<1>6. ASSUME NEW o \in Operator, CommandDies(o) PROVE RelTypes'
  BY <1>6 DEF CommandDies, Ends, Gateway, Command, NoCommand
<1>7. ASSUME NEW v \in Version, FileRots(v) PROVE RelTypes'
  BY <1>7 DEF FileRots, Gateway
<1>8. ASSUME NEW v \in Version, NEW asked \in {-1} \cup Version, Publish(v, asked) PROVE RelTypes'
  <2>1. PICK m \in MinFor(v, asked) :
          /\ releases' = [u \in Version |->
               IF u = v THEN [releases[v] EXCEPT !.state = "published", !.min = m]
               ELSE IF releases[u].state = "published" THEN [releases[u] EXCEPT !.state = "superseded"] ELSE releases[u]]
          /\ releaseCurrent' = v /\ minSupported' = m
          /\ manifest' = [version |-> v, hash |-> releases[v].hash, cert |-> releases[v].cert, min |-> m]
    BY <1>8 DEF Publish
  <2>2. m \in 0..v /\ m \in Nat
    BY <1>8, <2>1 DEF MinFor, Publish
  <2>3. releases' \in [Version -> ReleaseRow]
    <3>1. releases \in [Version -> ReleaseRow] /\ v \in Version
      BY <1>8
    <3>2. [releases[v] EXCEPT !.state = "published", !.min = m] \in ReleaseRow
      BY <2>2, <3>1 DEF ReleaseRow
    <3>3. \A u \in Version : releases[u] \in ReleaseRow /\ [releases[u] EXCEPT !.state = "superseded"] \in ReleaseRow
      BY <3>1 DEF ReleaseRow
    <3> DEFINE row == [releases[v] EXCEPT !.state = "published", !.min = m]
               closed(u) == [releases[u] EXCEPT !.state = "superseded"]
    <3>4. releases' = [u \in Version |-> IF u = v THEN row
                                        ELSE IF releases[u].state = "published" THEN closed(u) ELSE releases[u]]
      BY <2>1, Zenon
    <3>5. row \in ReleaseRow /\ \A u \in Version : closed(u) \in ReleaseRow /\ releases[u] \in ReleaseRow
      BY <3>2, <3>3, Zenon
    <3> HIDE DEF row, closed
    <3> QED
      BY <3>4, <3>5
  <2>4. manifest' \in Manifest /\ manifest' # NoManifest /\ releaseCurrent' # 0
    <3>1. manifest' \in Manifest
      BY <2>1, <2>2 DEF Manifest, ReleaseRow
    <3>2. manifest'.version # NoManifest.version
      BY <2>1 DEF NoManifest
    <3> QED
      BY <2>1, <3>1, <3>2
  <2> QED
    BY <1>8, <2>1, <2>2, <2>3, <2>4 DEF Publish
<1>9. ASSUME NEW x \in BOOLEAN, Stop(x) PROVE RelTypes'
  BY <1>9 DEF Stop
<1>10. ASSUME NEW h \in Handset, Fetches(h) \/ Downloads(h) PROVE RelTypes'
  <2>1. CurrentManifest \in Manifest
    BY DEF CurrentManifest, Manifest
  <2>2. CASE Fetches(h)
    BY <2>1, <2>2 DEF Fetches, Phone
  <2>3. CASE Downloads(h)
    <3>1. handset[h].has.version \in Version
      BY <2>3 DEF Downloads, Phone, Manifest
    <3> QED
      BY <2>3, <3>1 DEF Downloads, Phone
  <2> QED
    BY <1>10, <2>2, <2>3
<1>11. CASE KeyTurns
  BY <1>11 DEF KeyTurns
<1>12. CASE UNCHANGED relVars
  BY <1>12 DEF relVars
<1> QED
  BY <1>1, <1>2, <1>3, <1>4, <1>5, <1>6, <1>7, <1>8, <1>9, <1>10, <1>11, <1>12 DEF RelNext

LEMMA ChannelAgreementStays == RelTypes /\ ChannelAgrees /\ [RelNext]_relVars => ChannelAgrees'
<1> SUFFICES ASSUME RelTypes, ChannelAgrees, [RelNext]_relVars PROVE ChannelAgrees'
  OBVIOUS
<1>1. CASE UNCHANGED <<releases, releaseCurrent, manifest, minSupported>>
  BY <1>1 DEF ChannelAgrees
<1>2. ASSUME NEW o \in Operator, Inserted(o) PROVE ChannelAgrees'
  <2>1. UNCHANGED <<releaseCurrent, manifest, minSupported>>
    BY <1>2 DEF Inserted, Gateway
  <2>2. \A v \in Version :
          \/ releases'[v] = releases[v]
          \/ releases[v].state = "none" /\ releases'[v].state = "pending"
    BY <1>2 DEF Inserted, RelTypes, ReleaseRow
  <2>3. releaseCurrent # 0 => releases'[releaseCurrent] = releases[releaseCurrent]
    BY <2>2 DEF ChannelAgrees, RelTypes
  <2> QED
    BY <2>1, <2>2, <2>3 DEF ChannelAgrees
<1>3. ASSUME NEW v \in Version, NEW asked \in {-1} \cup Version, Publish(v, asked) PROVE ChannelAgrees'
  <2>1. PICK m \in MinFor(v, asked) :
          /\ releases' = [u \in Version |->
               IF u = v THEN [releases[v] EXCEPT !.state = "published", !.min = m]
               ELSE IF releases[u].state = "published" THEN [releases[u] EXCEPT !.state = "superseded"] ELSE releases[u]]
          /\ releaseCurrent' = v /\ minSupported' = m
          /\ manifest' = [version |-> v, hash |-> releases[v].hash, cert |-> releases[v].cert, min |-> m]
    BY <1>3 DEF Publish
  <2>2. releases'[v].state = "published" /\ releases'[v].hash = releases[v].hash /\ releases'[v].cert = releases[v].cert
    BY <2>1 DEF RelTypes, ReleaseRow
  <2>3. \A u \in Version \ {v} : releases'[u].state # "published"
    BY <2>1 DEF RelTypes, ReleaseRow
  <2>4. \A u \in Version : releases'[u].state = "superseded" => releases[u].state \in {"superseded", "published"}
    BY <2>1 DEF RelTypes, ReleaseRow
  <2>5. \A u \in Version : releases[u].state \in {"superseded", "published"} => u <= releaseCurrent
    <3> SUFFICES ASSUME NEW u \in Version, releases[u].state \in {"superseded", "published"} PROVE u <= releaseCurrent
      OBVIOUS
    <3>1. CASE releases[u].state = "published"
      <4>1. u \in {w \in Version : releases[w].state = "published"}
        BY <3>1
      <4>2. u = releaseCurrent
        BY <4>1 DEF ChannelAgrees
      <4> QED
        BY <4>2, ReleaseNumbers
    <3>2. CASE releases[u].state = "superseded"
      BY <3>2, ReleaseNumbers DEF ChannelAgrees, RelTypes
    <3> QED
      BY <3>1, <3>2
  <2>6. v > releaseCurrent /\ v # 0
    BY <1>3, ReleaseNumbers DEF Publish
  <2>7. \A u \in Version : releases'[u].state = "superseded" => u < v
    BY <2>4, <2>5, <2>6, ReleaseNumbers DEF RelTypes
  <2> QED
    BY <2>1, <2>2, <2>3, <2>6, <2>7 DEF ChannelAgrees
<1> QED
  BY <1>1, <1>2, <1>3, Zenon DEF RelNext, relVars, Gateway, PinChecked, AddChecked, Begins, Pinned, Copied,
       CommandDies, FileRots, Stop, Fetches, Downloads, KeyTurns

LEMMA PhonesStay == RelTypes /\ RunsReleases /\ [RelNext]_relVars => RunsReleases'
<1> SUFFICES ASSUME RelTypes, RunsReleases, [RelNext]_relVars,
                    NEW h \in Handset, handset'[h].runs # 0
             PROVE  releases'[handset'[h].runs].state # "none" /\ handset'[h].content = releases'[handset'[h].runs].hash
  BY DEF RunsReleases, HasRow
<1>1. CASE handset'[h].runs = handset[h].runs /\ handset'[h].content = handset[h].content
  <2>1. handset[h].runs \in Version /\ HasRow(handset[h].runs)
    BY <1>1 DEF RunsReleases, RelTypes, Phone
  <2> QED
    BY <1>1, <2>1, RowsStay DEF RunsReleases, HasRow
<1>2. CASE Downloads(h)
  BY <1>2 DEF Downloads, ServedFile, FileOk, HasRow, RelTypes, Phone
<1>3. CASE UNCHANGED handset
  BY <1>1, <1>3
<1>4. ASSUME NEW g \in Handset, Fetches(g) \/ (Downloads(g) /\ g # h) 
      PROVE  handset'[h].runs = handset[h].runs /\ handset'[h].content = handset[h].content
  BY <1>4 DEF Fetches, Downloads, RelTypes, Phone
<1> QED
  BY <1>1, <1>2, <1>3, <1>4, Zenon DEF RelNext, relVars, Gateway, PinChecked, AddChecked, Begins, Pinned, Copied,
       Inserted, CommandDies, FileRots, Stop, Publish, KeyTurns

LEMMA HighestRowStays == RelTypes /\ HighestRow /\ [RelNext]_relVars => HighestRow'
<1> SUFFICES ASSUME RelTypes, HighestRow, [RelNext]_relVars PROVE HighestRow'
  OBVIOUS
<1>1. CASE \A v \in Version : HasRow(v)' <=> HasRow(v)
  BY <1>1, Zenon DEF HighestRow
<1>2. ASSUME NEW o \in Operator, Inserted(o) PROVE HighestRow'
  <2> DEFINE n == gwctl[o].version
  <2>1. n \in Version
    BY <1>2 DEF Inserted, RelTypes, Command, NoCommand
  <2>2. \A v \in Version : HasRow(v)' <=> HasRow(v) \/ v = n
    BY <1>2, <2>1 DEF Inserted, RelTypes, HasRow, ReleaseRow
  <2> HIDE DEF n
  <2>3. CASE \E v \in Version : HasRow(v)
    <3>1. PICK top \in Version : HasRow(top) /\ \A u \in Version : HasRow(u) => u <= top
      BY <2>3 DEF HighestRow
    <3>2. CASE n <= top
      BY <2>2, <3>1, <3>2 DEF HighestRow
    <3>3. CASE top < n
      <4>1. \A u \in Version : HasRow(u)' => u <= n
        BY <2>1, <2>2, <3>1, <3>3, ReleaseNumbers
      <4> QED
        BY <2>1, <2>2, <4>1 DEF HighestRow
    <3>4. n \in Nat /\ top \in Nat
      BY <2>1, ReleaseNumbers
    <3> QED
      BY <3>2, <3>3, <3>4
  <2>4. CASE ~\E v \in Version : HasRow(v)
    BY <2>1, <2>2, <2>4, ReleaseNumbers DEF HighestRow
  <2> QED
    BY <2>3, <2>4
<1>3. ASSUME NEW v \in Version, NEW asked \in {-1} \cup Version, Publish(v, asked) PROVE HighestRow'
  <2>1. \A u \in Version : HasRow(u)' <=> HasRow(u)
    BY <1>3 DEF Publish, HasRow, RelTypes, ReleaseRow
  <2> QED
    BY <1>1, <2>1
<1>4. CASE UNCHANGED releases
  BY <1>1, <1>4 DEF HasRow
<1> QED
  BY <1>2, <1>3, <1>4, Zenon DEF RelNext, relVars, Gateway, PinChecked, AddChecked, Begins, Pinned, Copied,
       CommandDies, FileRots, Stop, Fetches, Downloads, KeyTurns

\* What was undisturbed before a step stays calm: each command writes what it checked.
LEMMA CalmStays == RelTypes /\ HighestRow /\ CalmChannel /\ [RelNext]_relVars => CalmChannel'
<1> SUFFICES ASSUME RelTypes, HighestRow, CalmChannel, [RelNext]_relVars, Undisturbed' PROVE (OneCommand /\ FoundStillHolds /\ RowsAreWhole)'
  BY DEF CalmChannel
<1>0. Undisturbed
  <2>1. crossed \subseteq crossed'
    BY Zenon DEF RelNext, relVars, Gateway, PinChecked, AddChecked, Begins, Pinned, Copied, Inserted,
         CommandDies, FileRots, Stop, Publish, Fetches, Downloads, KeyTurns
  <2>2. mishaps' = mishaps \/ mishaps' = mishaps + 1
    BY Zenon DEF RelNext, relVars, Gateway, PinChecked, AddChecked, Begins, Pinned, Copied, Inserted,
         CommandDies, FileRots, Stop, Publish, Fetches, Downloads, KeyTurns
  <2> QED
    BY <2>1, <2>2 DEF Undisturbed, RelTypes
<1>01. OneCommand /\ FoundStillHolds /\ RowsAreWhole
  BY <1>0 DEF CalmChannel
<1> USE ReleaseNumbers
<1> DEFINE Same == UNCHANGED <<releases, files, pinned, gwctl>>
<1>1. ASSUME NEW o \in Operator, NEW command, Begins(o, command)
      PROVE  /\ \A p \in Operator \ {o} : gwctl[p].at = "idle" /\ gwctl'[p] = gwctl[p]
             /\ gwctl'[o] = command /\ UNCHANGED <<releases, files, pinned>>
  BY <1>1 DEF Begins, RelTypes, Undisturbed
<1>2. ASSUME NEW o \in Operator, NEW c \in Cert, PinChecked(o, c) PROVE (OneCommand /\ FoundStillHolds /\ RowsAreWhole)'
  <2>1. Begins(o, [at |-> "pin", cert |-> c]) /\ pinned \in {NoCert, c}
    BY <1>2 DEF PinChecked
  <2>2. /\ \A p \in Operator \ {o} : gwctl'[p].at = "idle"
        /\ gwctl'[o] = [at |-> "pin", cert |-> c] /\ UNCHANGED <<releases, files, pinned>>
    BY <1>1, <2>1
  <2>3. OneCommand'
    BY <2>2 DEF OneCommand
  <2>4. gwctl'[o].at = "pin" /\ gwctl'[o].cert = c
    BY <2>2
  <2>5. FoundStillHolds'
    BY <2>1, <2>2, <2>4 DEF FoundStillHolds
  <2> QED
    BY <1>01, <2>2, <2>3, <2>5 DEF RowsAreWhole, HasRow
<1>3. ASSUME NEW o \in Operator, NEW v \in Version, NEW x \in Content, NEW c \in Cert, AddChecked(o, v, x, c)
      PROVE  (OneCommand /\ FoundStillHolds /\ RowsAreWhole)'
  <2>1. Begins(o, [at |-> "copy", version |-> v, content |-> x, cert |-> c]) /\ pinned # NoCert /\ c = pinned /\ ~HasRow(v)
    BY <1>3, AboveTheTop DEF AddChecked
  <2>2. /\ \A p \in Operator \ {o} : gwctl'[p].at = "idle"
        /\ gwctl'[o] = [at |-> "copy", version |-> v, content |-> x, cert |-> c] /\ UNCHANGED <<releases, files, pinned>>
    BY <1>1, <2>1
  <2> QED
    BY <1>01, <2>1, <2>2 DEF OneCommand, FoundStillHolds, RowsAreWhole, HasRow
<1>4. ASSUME NEW o \in Operator, Ends(o), gwctl[o].at # "idle"
      PROVE  /\ \A p \in Operator : gwctl'[p].at = "idle"
             /\ OneCommand' /\ FoundStillHolds'
  BY <1>01, <1>4 DEF Ends, NoCommand, RelTypes, OneCommand, FoundStillHolds
<1>5. ASSUME NEW o \in Operator, Pinned(o) PROVE (OneCommand /\ FoundStillHolds /\ RowsAreWhole)'
  <2>1. UNCHANGED <<releases, files>> /\ pinned' = gwctl[o].cert /\ Ends(o) /\ gwctl[o].at = "pin"
    BY <1>5 DEF Pinned
  <2>2. pinned # NoCert => pinned' = pinned
    BY <1>01, <2>1 DEF FoundStillHolds
  <2> QED
    BY <1>01, <1>4, <2>1, <2>2 DEF RowsAreWhole, HasRow
<1>6. ASSUME NEW o \in Operator, Copied(o) PROVE (OneCommand /\ FoundStillHolds /\ RowsAreWhole)'
  <2>1. /\ gwctl[o].at = "copy" /\ files' = [files EXCEPT ![gwctl[o].version] = gwctl[o].content]
        /\ gwctl' = [gwctl EXCEPT ![o].at = "insert"] /\ UNCHANGED <<releases, pinned>>
    BY <1>6 DEF Copied
  <2>2. gwctl[o].version \in Version /\ gwctl[o] \in [at : {"copy", "insert"}, version : Version, content : Content, cert : Cert]
    BY <2>1 DEF RelTypes, Command, NoCommand
  <2>3. ~HasRow(gwctl[o].version) /\ gwctl[o].cert = pinned /\ pinned # NoCert
    BY <1>01, <2>1 DEF FoundStillHolds
  <2>4. \A p \in Operator \ {o} : gwctl[p].at = "idle" /\ gwctl'[p] = gwctl[p]
    BY <1>01, <2>1 DEF OneCommand, RelTypes
  <2>5. /\ gwctl'[o].at = "insert" /\ gwctl'[o].version = gwctl[o].version /\ gwctl'[o].content = gwctl[o].content
        /\ gwctl'[o].cert = gwctl[o].cert
    BY <2>1, <2>2 DEF RelTypes
  <2>6. files'[gwctl[o].version] = gwctl[o].content /\ \A v \in Version : v # gwctl[o].version => files'[v] = files[v]
    BY <2>1, <2>2 DEF RelTypes
  <2>7. OneCommand'
    BY <2>4 DEF OneCommand
  <2>8. FoundStillHolds'
    BY <2>1, <2>3, <2>4, <2>5, <2>6 DEF FoundStillHolds, HasRow
  <2>9. RowsAreWhole'
    BY <1>01, <2>1, <2>3, <2>6 DEF RowsAreWhole, HasRow
  <2> QED
    BY <2>7, <2>8, <2>9
<1>7. ASSUME NEW o \in Operator, Inserted(o) PROVE (OneCommand /\ FoundStillHolds /\ RowsAreWhole)'
  <2>1. gwctl[o].at = "insert" /\ Ends(o) /\ UNCHANGED <<files, pinned>>
    BY <1>7 DEF Inserted
  <2>2. gwctl[o].version \in Version
    BY <2>1 DEF RelTypes, Command, NoCommand
  <2>3. /\ ~HasRow(gwctl[o].version) /\ gwctl[o].cert = pinned /\ pinned # NoCert
        /\ files[gwctl[o].version] = gwctl[o].content
    BY <1>01, <2>1 DEF FoundStillHolds
  <2>4. releases' = [releases EXCEPT ![gwctl[o].version] =
                       [state |-> "pending", hash |-> gwctl[o].content, cert |-> gwctl[o].cert, min |-> 0]]
    BY <1>7, <2>3 DEF Inserted, HasRow
  <2>5. RowsAreWhole'
    BY <1>01, <2>1, <2>2, <2>3, <2>4 DEF RowsAreWhole, HasRow, RelTypes
  <2> QED
    BY <1>4, <2>1, <2>5
<1>8. ASSUME NEW v \in Version, NEW asked \in {-1} \cup Version, Publish(v, asked)
      PROVE  (OneCommand /\ FoundStillHolds /\ RowsAreWhole)'
  <2>1. UNCHANGED <<files, pinned, gwctl>>
    BY <1>8 DEF Publish
  <2>2. \A u \in Version : (HasRow(u)' <=> HasRow(u)) /\ releases'[u].hash = releases[u].hash /\ releases'[u].cert = releases[u].cert
    BY <1>8 DEF Publish, HasRow, RelTypes, ReleaseRow
  <2>3. \A o \in Operator : gwctl[o].at \in {"copy", "insert"} => gwctl[o].version \in Version
    BY DEF RelTypes, Command, NoCommand
  <2> QED
    BY <1>01, <2>1, <2>2, <2>3, ZenonT(60) DEF OneCommand, FoundStillHolds, RowsAreWhole
<1>9. CASE Same
  BY <1>01, <1>9 DEF OneCommand, FoundStillHolds, RowsAreWhole, HasRow
<1>10. (\E o \in Operator : CommandDies(o)) \/ (\E v \in Version : FileRots(v)) \/ KeyTurns => FALSE
  BY DEF CommandDies, FileRots, KeyTurns, Undisturbed, RelTypes
<1> QED
  BY <1>2, <1>3, <1>5, <1>6, <1>7, <1>8, <1>9, <1>10, Zenon DEF RelNext, relVars, Stop, Fetches, Downloads

LEMMA RelInvStays == RelInv /\ [RelNext]_relVars => RelInv'
  BY RelTypesStay, ChannelAgreementStays, PhonesStay, HighestRowStays, CalmStays DEF RelInv

\* What the administrator published is what phones run, and what is offered can be downloaded.
LEMMA RelInvIsSafe == RelInv => ReleasesSafe
<1> SUFFICES ASSUME RelInv PROVE ReleasesSafe
  OBVIOUS
<1> USE DEF RelInv
<1>1. RelTypeOK
  BY DEF RelTypes, RelTypeOK, ReleaseRow, Command, NoCommand
<1>2. DownloadsWhatWasPublished
  BY DEF RunsReleases, DownloadsWhatWasPublished
<1>3. OfferCanBeServed
  <2> SUFFICES ASSUME CurrentManifest # NoManifest, mishaps = 0, crossed = {}
               PROVE  ServedFile(manifest.version) /\ manifest.cert = pinned
    BY DEF OfferCanBeServed
  <2>1. ~stopped /\ manifest # NoManifest
    BY DEF CurrentManifest
  <2>2. releaseCurrent # 0 /\ releaseCurrent \in Version /\ manifest.version = releaseCurrent
        /\ manifest.cert = releases[releaseCurrent].cert
    BY <2>1 DEF RelTypes, ChannelAgrees
  <2>3. releases[releaseCurrent].state = "published"
    <3>1. releaseCurrent \in {v \in Version : releases[v].state = "published"}
      BY <2>2 DEF ChannelAgrees
    <3> QED
      BY <3>1
  <2>4. files[releaseCurrent] = releases[releaseCurrent].hash /\ releases[releaseCurrent].cert = pinned
    BY <2>2, <2>3 DEF CalmChannel, Undisturbed, RowsAreWhole, HasRow
  <2> QED
    BY <2>1, <2>2, <2>3, <2>4 DEF ServedFile, FileOk
<1> QED
  BY <1>1, <1>2, <1>3 DEF ReleasesSafe

LEMMA ForwardOnly == RelTypes /\ [RelNext]_relVars => RollForward
<1> SUFFICES ASSUME RelTypes, [RelNext]_relVars PROVE RollForward
  OBVIOUS
<1>0. releaseCurrent \in Nat /\ minSupported \in Nat
  BY ReleaseNumbers DEF RelTypes
<1>1. ASSUME NEW v \in Version, NEW asked \in {-1} \cup Version, Publish(v, asked) PROVE RollForward
  BY <1>0, <1>1, ReleaseNumbers DEF Publish, MinFor, RollForward
<1>2. CASE UNCHANGED <<releaseCurrent, minSupported>>
  BY <1>0, <1>2 DEF RollForward
<1> QED
  BY <1>1, <1>2, Zenon DEF RelNext, relVars, Gateway, PinChecked, AddChecked, Begins, Pinned, Copied, Inserted,
       CommandDies, FileRots, Stop, Fetches, Downloads, KeyTurns

\* The channel holds together, a phone gets from it what was published and nothing else, and what is
\* offered can be downloaded unless files rotted or commands crossed (gw/releases.py).
THEOREM ReleasesAreSound == PortalSpec => []ReleasesHold
<1> DEFINE Inv == part = "releases" => RelInv
<1>1. PortalInit => Inv
  BY PartStarts, RelStarts
<1>2. Inv /\ [PortalNext]_portalVars => Inv'
  BY PartMoves, RelInvStays
<1>3. Inv => ReleasesHold
  BY RelInvIsSafe DEF ReleasesHold
<1> QED
  BY <1>1, <1>2, <1>3, PTL DEF PortalSpec

\* "Roll-forward only" (releases.py): no step takes the version that is offered or the minimum back.
THEOREM ChannelRollsForward == PortalSpec => [][part = "releases" => RollForward]_portalVars
<1> DEFINE Inv == part = "releases" => RelInv
<1>1. PortalInit => Inv
  BY PartStarts, RelStarts
<1>2. Inv /\ [PortalNext]_portalVars => Inv'
  BY PartMoves, RelInvStays
<1>3. Inv /\ [PortalNext]_portalVars => [part = "releases" => RollForward]_portalVars
  BY PartMoves, ForwardOnly DEF RelInv
<1> QED
  BY <1>1, <1>2, <1>3, PTL DEF PortalSpec

-----------------------------------------------------------------------------
(* Requests: repeats of a change, its answers that get lost, its trace.    *)

Intent == [kind : Kinds, keyed : BOOLEAN, etag : Nat]
Of(w) == {a \in Attempt : a[1] = w}
Busy(a) == stage[a] \in {"calling", "served", "refused"}

ReqTypes ==
  /\ stage \in [Attempt -> Stages] /\ rivals \subseteq Wish /\ lost \subseteq Wish
  /\ intent \in [Wish -> {<<>>} \cup Intent] /\ current \in Nat \ {0}
  /\ \A w \in Wish : Sent(w) => intent[w].etag \in 1..current
  /\ reply \in [Attempt -> 0..current] /\ stored \in [Wish -> 0..current]
  /\ applied \in [Wish -> SUBSET (2..current)] /\ trail \in [Wish -> SUBSET {"ok", "failed"}]
  /\ restarts \in Nat

\* Of what no client has sent yet nothing is known.
UnsentIsUnknown ==
  \A w \in Wish : ~Sent(w) =>
    /\ applied[w] = {} /\ stored[w] = 0
    /\ \A a \in Of(w) : stage[a] = "unsent"

\* An answer is a version that the change made, and an attempt that waits has none.
RepliesAreVersions ==
  /\ \A a \in Attempt : reply[a] # 0 => reply[a] \in applied[a[1]] /\ stage[a] \in {"served", "answered"}
  /\ \A a \in Attempt : stage[a] = "served" => reply[a] # 0
  /\ \A w \in Wish : stored[w] \in {0} \cup applied[w]

\* What has an If-Match is applied when the version is the one it read, and the version moves on.
ReadVersionPasses ==
  \A w \in Wish : Sent(w) /\ Conditional(intent[w].kind) =>
    applied[w] = {} \/ (intent[w].etag < current /\ \E v \in 2..current : applied[w] = {v})

\* With a key, and as long as no answer is lost and no two attempts run at once: what is applied is
\* what is stored, or what the attempt that runs has to store.
FirstResult(w) ==
  /\ \A a \in Of(w) : stage[a] \notin {"orphan", "gone"}
  /\ \A a, b \in Of(w) : Busy(a) /\ Busy(b) => a = b
  /\ stored[w] # 0 => applied[w] = {stored[w]} /\ \A a \in Of(w) : ~Busy(a)
  /\ \A a \in Of(w) : reply[a] # 0 => applied[w] = {reply[a]}
  /\ stored[w] = 0 /\ (\A a \in Of(w) : stage[a] # "served") => applied[w] = {}
FirstResults == \A w \in Wish \ (rivals \cup lost) : Sent(w) /\ intent[w].keyed => FirstResult(w)

\* An attempt that was answered has left a row, or its kind leaves none and the answer got lost.
AnswersAreTraced ==
  /\ \A a \in Attempt : stage[a] = "answered" /\ (AuditsFailure(intent[a[1]].kind) \/ a[1] \notin lost)
       => trail[a[1]] # {}
  /\ \A w \in Wish : stored[w] # 0 => trail[w] # {}
  /\ \A a \in Attempt : stage[a] = "refused" => AuditsFailure(intent[a[1]].kind)

ReqInv ==
  /\ ReqTypes /\ UnsentIsUnknown /\ RepliesAreVersions /\ ReadVersionPasses
  /\ FirstResults /\ AnswersAreTraced

LEMMA AttemptsAreOfWishes == \A a \in Attempt : a[1] \in Wish /\ a \in Of(a[1])
  BY RequestsNumbers DEF Attempt, Of

LEMMA IntentsAreSent == ReqTypes => \A w \in Wish : (Sent(w) <=> intent[w] \in Intent) /\ (~Sent(w) <=> intent[w] = <<>>)
<1>1. DOMAIN << >> = {}
  BY SMT
<1>2. \A x \in Intent : DOMAIN x # {}
  <2>1. \A x \in Intent : DOMAIN x = {"kind", "keyed", "etag"}
    BY DEF Intent
  <2> QED
    BY <2>1
<1> QED
  BY <1>1, <1>2, Zenon DEF ReqTypes, Sent

LEMMA ReqStarts == ReqInit => ReqInv
<1> SUFFICES ASSUME ReqInit PROVE ReqInv
  OBVIOUS
<1>1. \A w \in Wish : ~Sent(w)
  BY DEF ReqInit, Sent
<1>2. ReqTypes
  BY <1>1 DEF ReqInit, ReqTypes, Stages
<1>3. UnsentIsUnknown /\ RepliesAreVersions /\ AnswersAreTraced
  BY AttemptsAreOfWishes DEF ReqInit, UnsentIsUnknown, RepliesAreVersions, AnswersAreTraced, Of
<1>4. ReadVersionPasses /\ FirstResults
  BY <1>1 DEF ReadVersionPasses, FirstResults
<1> QED
  BY <1>2, <1>3, <1>4 DEF ReqInv

LEMMA AdmittedKeeps ==
  ASSUME ReqInv, NEW a \in Attempt, NEW kind \in Kinds, NEW keyed \in BOOLEAN, Admitted(a, kind, keyed)
  PROVE  ReqInv'
<1> DEFINE w == a[1]
<1> USE DEF ReqInv
<1>1. w \in Wish /\ a \in Of(w)
  BY AttemptsAreOfWishes
<1>2. /\ stage[a] = "unsent" /\ stage' = [stage EXCEPT ![a] = "admitted"]
      /\ UNCHANGED <<reply, stored, current, applied, trail, rivals, lost, restarts>>
  BY DEF Admitted
<1>3. \/ Sent(w) /\ UNCHANGED intent
      \/ ~Sent(w) /\ intent' = [intent EXCEPT ![w] = [kind |-> kind, keyed |-> keyed, etag |-> current]]
  BY DEF Admitted
<1>4. /\ \A u \in Wish : u # w => intent'[u] = intent[u] /\ (Sent(u)' <=> Sent(u))
      /\ Sent(w)' /\ (Sent(w) => intent'[w] = intent[w])
      /\ ~Sent(w) => intent'[w] = [kind |-> kind, keyed |-> keyed, etag |-> current]
      /\ intent' \in [Wish -> {<<>>} \cup Intent]
  <2>1. CASE UNCHANGED intent /\ Sent(w)
    BY <2>1 DEF Sent, ReqTypes
  <2>2. CASE ~Sent(w) /\ intent' = [intent EXCEPT ![w] = [kind |-> kind, keyed |-> keyed, etag |-> current]]
    <3> DEFINE new == [kind |-> kind, keyed |-> keyed, etag |-> current]
    <3>1. new \in Intent
      BY DEF Intent, ReqTypes
    <3>2. DOMAIN new # {}
      BY SMT
    <3> HIDE DEF new
    <3>3. intent'[w] = new /\ \A u \in Wish : u # w => intent'[u] = intent[u]
      BY <1>1, <2>2 DEF ReqTypes, new
    <3>4. intent' \in [Wish -> {<<>>} \cup Intent]
      BY <1>1, <2>2, <3>1 DEF ReqTypes, new
    <3>5. Sent(w)' /\ \A u \in Wish : u # w => (Sent(u)' <=> Sent(u))
      BY <3>2, <3>3 DEF Sent
    <3> QED
      BY <2>2, <3>3, <3>4, <3>5 DEF new
  <2> QED
    BY <1>3, <2>1, <2>2
<1>5. \A b \in Attempt : b # a => stage'[b] = stage[b]
  BY <1>2 DEF ReqTypes
<1>6. stage'[a] = "admitted" /\ reply[a] = 0
  BY <1>2 DEF ReqTypes, RepliesAreVersions
<1> HIDE DEF w
<1>7. ReqTypes'
  <2>1. \A u \in Wish : Sent(u)' => intent'[u].etag \in 1..current'
    BY <1>1, <1>2, <1>4 DEF ReqTypes
  <2>2. stage' \in [Attempt -> Stages]
    BY <1>2 DEF ReqTypes, Stages
  <2> QED
    BY <1>2, <1>4, <2>1, <2>2 DEF ReqTypes
<1>8. UnsentIsUnknown'
  BY <1>1, <1>2, <1>4, <1>5 DEF UnsentIsUnknown, Of, w
<1>9. RepliesAreVersions'
  BY <1>2, <1>5, <1>6 DEF RepliesAreVersions
<1>10. ReadVersionPasses'
  BY <1>1, <1>2, <1>4 DEF ReadVersionPasses, UnsentIsUnknown
<1>11. FirstResults'
  <2> SUFFICES ASSUME NEW u \in Wish \ (rivals \cup lost), Sent(u)', intent'[u].keyed PROVE FirstResult(u)'
    BY <1>2 DEF FirstResults
  <2>1. CASE Sent(u)
    <3>1. FirstResult(u)
      BY <1>1, <1>4, <2>1 DEF FirstResults
    <3> QED
      BY <1>2, <1>5, <1>6, <3>1 DEF FirstResult, Busy, Of
  <2>2. CASE ~Sent(u)
    <3>1. applied[u] = {} /\ stored[u] = 0 /\ \A b \in Of(u) : stage[b] = "unsent" /\ reply[b] = 0
      BY <2>2 DEF UnsentIsUnknown, RepliesAreVersions, Of
    <3> QED
      BY <1>2, <1>5, <1>6, <3>1 DEF FirstResult, Busy, Of
  <2> QED
    BY <2>1, <2>2
<1>12. AnswersAreTraced'
  <2>1. \A b \in Attempt : b # a /\ stage[b] # "unsent" => intent'[b[1]] = intent[b[1]]
    BY <1>1, <1>4, AttemptsAreOfWishes DEF UnsentIsUnknown, Of
  <2> QED
    BY <1>2, <1>5, <1>6, <2>1 DEF AnswersAreTraced
<1> QED
  BY <1>7, <1>8, <1>9, <1>10, <1>11, <1>12

LEMMA LookupKeeps ==
  ASSUME ReqInv, NEW a \in Attempt, Lookup(a)
  PROVE  ReqInv'
<1> DEFINE w == a[1]
<1> USE DEF ReqInv
<1>1. w \in Wish /\ a \in Of(w)
  BY AttemptsAreOfWishes
<1>2. stage[a] = "admitted" /\ UNCHANGED <<intent, stored, current, applied, trail, lost, restarts>>
  BY DEF Lookup
<1>3. \/ /\ intent[w].keyed /\ stored[w] # 0 /\ UNCHANGED rivals
         /\ stage' = [stage EXCEPT ![a] = "answered"] /\ reply' = [reply EXCEPT ![a] = stored[w]]
      \/ /\ ~(intent[w].keyed /\ stored[w] # 0)
         /\ stage' = [stage EXCEPT ![a] = "calling"] /\ UNCHANGED reply
         /\ rivals' \subseteq rivals \cup {w} /\ rivals \subseteq rivals'
         /\ (\E b \in Of(w) : b # a /\ Busy(b)) => w \in rivals'
  BY DEF Lookup, Of, Busy
<1>4. \A b \in Attempt : b # a => stage'[b] = stage[b] /\ reply'[b] = reply[b]
  BY <1>3 DEF ReqTypes
<1>5. Sent(w) /\ \A u \in Wish : Sent(u)' <=> Sent(u)
  BY <1>1, <1>2 DEF UnsentIsUnknown, Sent
<1>6. \/ intent[w].keyed /\ stored[w] # 0 /\ stage'[a] = "answered" /\ reply'[a] = stored[w] /\ UNCHANGED rivals
      \/ /\ ~(intent[w].keyed /\ stored[w] # 0) /\ stage'[a] = "calling" /\ reply'[a] = 0
         /\ rivals \subseteq rivals'
         /\ (\E b \in Of(w) : b # a /\ Busy(b)) => w \in rivals'
  <2>1. reply[a] = 0
    BY <1>2 DEF RepliesAreVersions
  <2> QED
    BY <1>3, <2>1 DEF ReqTypes
<1>7. ReqTypes'
  <2>1. stored[w] \in 0..current
    BY <1>1 DEF ReqTypes
  <2>2. stage' \in [Attempt -> Stages] /\ reply' \in [Attempt -> 0..current]
    BY <1>3, <2>1 DEF ReqTypes, Stages
  <2>3. rivals' \subseteq Wish
    BY <1>1, <1>3 DEF ReqTypes
  <2> QED
    BY <1>2, <1>5, <2>2, <2>3 DEF ReqTypes
<1>8. UnsentIsUnknown'
  BY <1>2, <1>4, <1>5 DEF UnsentIsUnknown, Of, w
<1>9. RepliesAreVersions'
  <2>1. stored[w] # 0 => stored[w] \in applied[w]
    BY <1>1 DEF RepliesAreVersions
  <2> QED
    BY <1>2, <1>4, <1>6, <2>1 DEF RepliesAreVersions, w
<1>10. ReadVersionPasses'
  BY <1>2, <1>5 DEF ReadVersionPasses
<1>11. FirstResults'
  <2> SUFFICES ASSUME NEW u \in Wish \ (rivals' \cup lost), Sent(u), intent[u].keyed PROVE FirstResult(u)'
    BY <1>2, <1>5 DEF FirstResults
  <2>1. FirstResult(u)
    BY <1>3 DEF FirstResults
  <2>2. CASE u # w
    <3>1. a \notin Of(u)
      BY <2>2 DEF Of
    <3>2. \A b \in Of(u) : stage'[b] = stage[b] /\ reply'[b] = reply[b]
      BY <1>4, <3>1 DEF Of
    <3> QED
      BY <1>2, <2>1, <3>2 DEF FirstResult, Busy, Of
  <2>3. CASE u = w
    <3>1. \A b \in Of(u) : b # a => stage'[b] = stage[b] /\ reply'[b] = reply[b]
      BY <1>4 DEF Of
    <3>2. \A b \in Of(u) : b # a /\ Busy(b) => stage'[a] = "answered"
      BY <1>6, <2>3
    <3> HIDE DEF w
    <3> QED
      BY <1>1, <1>2, <1>6, <2>1, <2>3, <3>1, <3>2 DEF FirstResult, Busy
  <2> QED
    BY <2>2, <2>3
<1>12. AnswersAreTraced'
  BY <1>1, <1>2, <1>4, <1>6 DEF AnswersAreTraced
<1> QED
  BY <1>7, <1>8, <1>9, <1>10, <1>11, <1>12

LEMMA ServiceActsKeeps ==
  ASSUME ReqInv, NEW a \in Attempt, ServiceActs(a)
  PROVE  ReqInv'
<1> DEFINE w == a[1]
<1> USE DEF ReqInv
<1>1. w \in Wish /\ a \in Of(w)
  BY AttemptsAreOfWishes
<1>2. stage[a] \in {"calling", "orphan"} /\ UNCHANGED <<intent, stored, trail, rivals, lost, restarts>>
  BY DEF ServiceActs
<1>3. \/ /\ Refused(w) /\ UNCHANGED <<current, applied>>
         /\ stage' = [stage EXCEPT ![a] = IF stage[a] = "orphan" THEN "gone" ELSE "refused"]
         /\ reply' = [reply EXCEPT ![a] = 0]
      \/ /\ ~Refused(w) /\ current' = current + 1 /\ applied' = [applied EXCEPT ![w] = @ \cup {current + 1}]
         /\ stage' = [stage EXCEPT ![a] = IF stage[a] = "orphan" THEN "gone" ELSE "served"]
         /\ reply' = [reply EXCEPT ![a] = IF stage[a] = "orphan" THEN 0 ELSE current + 1]
  BY <1>2 DEF ServiceActs, ReqTypes
<1>4. \A b \in Attempt : b # a => stage'[b] = stage[b] /\ reply'[b] = reply[b]
  BY <1>3 DEF ReqTypes
<1>5. Sent(w) /\ \A u \in Wish : Sent(u)' <=> Sent(u)
  BY <1>1, <1>2 DEF UnsentIsUnknown, Sent
<1>6. stage[a] = "orphan" => stage'[a] = "gone" /\ reply'[a] = 0
  BY <1>3 DEF ReqTypes
<1>7. stage[a] = "calling" =>
        \/ Refused(w) /\ stage'[a] = "refused" /\ reply'[a] = 0
        \/ ~Refused(w) /\ stage'[a] = "served" /\ reply'[a] = current + 1
  BY <1>3 DEF ReqTypes
<1>8. \A u \in Wish : u # w => applied'[u] = applied[u]
  BY <1>3 DEF ReqTypes
<1>9. \/ Refused(w) /\ current' = current /\ applied'[w] = applied[w]
      \/ ~Refused(w) /\ current' = current + 1 /\ applied'[w] = applied[w] \cup {current + 1}
  BY <1>1, <1>3 DEF ReqTypes
<1>10. ReqTypes'
  <2>1. current' \in Nat \ {0} /\ current' >= current
    BY <1>9 DEF ReqTypes
  <2>2. stage' \in [Attempt -> Stages]
    BY <1>3 DEF ReqTypes, Stages
  <2>3. reply' \in [Attempt -> 0..current']
    BY <1>3, <2>1 DEF ReqTypes
  <2>4. stored' \in [Wish -> 0..current'] /\ \A u \in Wish : Sent(u)' => intent'[u].etag \in 1..current'
    BY <1>2, <1>5, <2>1 DEF ReqTypes
  <2>5. applied' \in [Wish -> SUBSET (2..current')]
    <3>1. \A u \in Wish : applied[u] \subseteq 2..current
      BY DEF ReqTypes
    <3>2. \A u \in Wish : applied'[u] \in SUBSET (2..current')
      <4> TAKE u \in Wish
      <4>1. applied'[u] \subseteq applied[u] \cup {current + 1} /\ (applied'[u] = applied[u] \/ current' = current + 1)
        BY <1>8, <1>9
      <4>2. 2..current \subseteq 2..current' /\ (current' = current + 1 => current + 1 \in 2..current')
        BY <2>1 DEF ReqTypes
      <4> QED
        BY <3>1, <4>1, <4>2
    <3>3. applied' = [u \in Wish |-> applied'[u]]
      BY <1>3 DEF ReqTypes
    <3> QED
      BY <3>2, <3>3
  <2> QED
    BY <1>2, <2>1, <2>2, <2>3, <2>4, <2>5 DEF ReqTypes
<1>11. UnsentIsUnknown'
  <2> SUFFICES ASSUME NEW u \in Wish, ~Sent(u)
               PROVE  applied'[u] = {} /\ stored'[u] = 0 /\ \A b \in Of(u) : stage'[b] = "unsent"
    BY <1>5 DEF UnsentIsUnknown, Of
  <2>1. u # w /\ a \notin Of(u)
    BY <1>5 DEF Of
  <2> QED
    BY <1>2, <1>4, <1>8, <2>1 DEF UnsentIsUnknown, Of
<1>12. RepliesAreVersions'
  <2>1. \A b \in Attempt : applied[b[1]] \subseteq applied'[b[1]]
    BY <1>8, <1>9, AttemptsAreOfWishes
  <2>2. \A u \in Wish : applied[u] \subseteq applied'[u]
    BY <1>8, <1>9
  <2>3. reply'[a] # 0 => stage'[a] = "served" /\ reply'[a] \in applied'[w]
    BY <1>2, <1>6, <1>7, <1>9
  <2>4. stage'[a] = "served" => reply'[a] # 0
    BY <1>2, <1>6, <1>7 DEF ReqTypes
  <2> QED
    BY <1>2, <1>4, <2>1, <2>2, <2>3, <2>4 DEF RepliesAreVersions
<1>13. ReadVersionPasses'
  <2> SUFFICES ASSUME NEW u \in Wish, Sent(u), Conditional(intent[u].kind), applied'[u] # {}
               PROVE  intent[u].etag < current' /\ \E v \in 2..current' : applied'[u] = {v}
    BY <1>2, <1>5 DEF ReadVersionPasses
  <2>1. CASE applied'[u] = applied[u]
    <3>1. intent[u].etag < current /\ \E v \in 2..current : applied[u] = {v}
      BY <2>1 DEF ReadVersionPasses
    <3>2. current \in Nat /\ intent[u].etag \in Nat /\ (current' = current \/ current' = current + 1)
      BY <1>9 DEF ReqTypes
    <3>3. intent[u].etag < current' /\ 2..current \subseteq 2..current'
      BY <3>1, <3>2
    <3> QED
      BY <2>1, <3>1, <3>3
  <2>2. CASE applied'[u] # applied[u]
    <3>1. u = w /\ ~Refused(w) /\ current' = current + 1 /\ applied'[u] = applied[u] \cup {current + 1}
      BY <1>8, <1>9, <2>2
    <3>2. intent[u].etag = current
      BY <3>1 DEF Refused
    <3>3. applied[u] = {}
      BY <3>2 DEF ReadVersionPasses, ReqTypes
    <3>4. current + 1 \in 2..current' /\ intent[u].etag < current'
      BY <3>1, <3>2 DEF ReqTypes
    <3> QED
      BY <3>1, <3>3, <3>4
  <2> QED
    BY <2>1, <2>2
<1>14. FirstResults'
  <2> SUFFICES ASSUME NEW u \in Wish \ (rivals \cup lost), Sent(u), intent[u].keyed PROVE FirstResult(u)'
    BY <1>2, <1>5 DEF FirstResults
  <2>1. FirstResult(u)
    BY DEF FirstResults
  <2>2. CASE u # w
    <3>1. a \notin Of(u)
      BY <2>2 DEF Of
    <3>2. \A b \in Of(u) : stage'[b] = stage[b] /\ reply'[b] = reply[b]
      BY <1>4, <3>1 DEF Of
    <3> QED
      BY <1>2, <1>8, <2>1, <2>2, <3>2 DEF FirstResult, Busy, Of
  <2>3. CASE u = w
    <3>1. \A b \in Of(u) : b # a => stage'[b] = stage[b] /\ reply'[b] = reply[b] /\ b \in Attempt
      BY <1>4 DEF Of
    <3>2. stage[a] = "calling" /\ Busy(a)
      BY <1>1, <1>2, <2>1, <2>3 DEF FirstResult, Busy
    <3>3. stored[u] = 0 /\ \A b \in Of(u) : b # a => ~Busy(b)
      BY <1>1, <2>1, <2>3, <3>2 DEF FirstResult
    <3>4. \A b \in Of(u) : stage[b] # "served"
      BY <3>2, <3>3 DEF Busy
    <3>5. applied[u] = {} /\ \A b \in Of(u) : reply[b] = 0
      BY <2>1, <3>3, <3>4 DEF FirstResult
    <3> HIDE DEF w
    <3>6. CASE Refused(w)
      <4>1. stage'[a] = "refused" /\ reply'[a] = 0 /\ applied'[u] = {}
        BY <1>7, <1>9, <2>3, <3>2, <3>5, <3>6
      <4> QED
        BY <1>1, <1>2, <2>1, <2>3, <3>1, <3>3, <3>5, <4>1 DEF FirstResult, Busy
    <3>7. CASE ~Refused(w)
      <4>1. stage'[a] = "served" /\ reply'[a] = current + 1 /\ applied'[u] = {current + 1}
        BY <1>7, <1>9, <2>3, <3>2, <3>5, <3>7
      <4> QED
        BY <1>1, <1>2, <2>1, <2>3, <3>1, <3>3, <3>5, <4>1 DEF FirstResult, Busy
    <3> QED
      BY <3>6, <3>7
  <2> QED
    BY <2>2, <2>3
<1>15. AnswersAreTraced'
  <2>1. stage'[a] # "answered" /\ (stage'[a] = "refused" => AuditsFailure(intent[w].kind))
    BY <1>2, <1>6, <1>7 DEF Refused, Conditional, AuditsFailure
  <2> QED
    BY <1>2, <1>4, <2>1 DEF AnswersAreTraced
<1> QED
  BY <1>10, <1>11, <1>12, <1>13, <1>14, <1>15

LEMMA PassedKeeps ==
  ASSUME ReqInv, NEW a \in Attempt, Passed(a)
  PROVE  ReqInv'
<1> DEFINE w == a[1]
<1> USE DEF ReqInv
<1>1. w \in Wish /\ a \in Of(w)
  BY AttemptsAreOfWishes
<1>2. /\ stage[a] \in {"served", "refused"} /\ stage' = [stage EXCEPT ![a] = "answered"]
      /\ trail' = Traced(w, stage[a] = "served")
      /\ stored' = IF stage[a] = "served" /\ intent[w].keyed THEN Keep(w, reply[a]) ELSE stored
      /\ UNCHANGED <<intent, reply, current, applied, rivals, lost, restarts>>
  BY DEF Passed
<1>3. stage'[a] = "answered" /\ \A b \in Attempt : b # a => stage'[b] = stage[b]
  BY <1>2 DEF ReqTypes
<1>4. Sent(w) /\ \A u \in Wish : Sent(u)' <=> Sent(u)
  BY <1>1, <1>2 DEF UnsentIsUnknown, Sent
<1>5. \A u \in Wish : u # w => stored'[u] = stored[u] /\ trail'[u] = trail[u]
  BY <1>2 DEF ReqTypes, Keep, Traced
<1>6. stored'[w] = IF stage[a] = "served" /\ intent[w].keyed /\ stored[w] = 0 THEN reply[a] ELSE stored[w]
  BY <1>1, <1>2 DEF ReqTypes, Keep
<1>7. trail'[w] # {}
  <2>1. stage[a] # "served" => AuditsFailure(intent[w].kind)
    BY <1>2 DEF AnswersAreTraced
  <2> QED
    BY <1>1, <1>2, <2>1 DEF ReqTypes, Traced
<1>8. ReqTypes'
  <2>1. stored' \in [Wish -> 0..current]
    BY <1>1, <1>2 DEF ReqTypes, Keep
  <2>2. trail' \in [Wish -> SUBSET {"ok", "failed"}]
    BY <1>1, <1>2 DEF ReqTypes, Traced
  <2>3. stage' \in [Attempt -> Stages]
    BY <1>2 DEF ReqTypes, Stages
  <2> QED
    BY <1>2, <1>4, <2>1, <2>2, <2>3 DEF ReqTypes
<1>9. UnsentIsUnknown'
  <2> SUFFICES ASSUME NEW u \in Wish, ~Sent(u)
               PROVE  applied'[u] = {} /\ stored'[u] = 0 /\ \A b \in Of(u) : stage'[b] = "unsent"
    BY <1>4 DEF UnsentIsUnknown, Of
  <2>1. u # w /\ a \notin Of(u)
    BY <1>4 DEF Of
  <2> QED
    BY <1>2, <1>3, <1>5, <2>1 DEF UnsentIsUnknown, Of
<1>10. RepliesAreVersions'
  <2>1. reply[a] # 0 => reply[a] \in applied[w]
    BY DEF RepliesAreVersions
  <2>2. \A u \in Wish : stored'[u] \in {0} \cup applied[u]
    BY <1>1, <1>5, <1>6, <2>1 DEF RepliesAreVersions
  <2> QED
    BY <1>2, <1>3, <2>2 DEF RepliesAreVersions
<1>11. ReadVersionPasses'
  BY <1>2, <1>4 DEF ReadVersionPasses
<1>12. FirstResults'
  <2> SUFFICES ASSUME NEW u \in Wish \ (rivals \cup lost), Sent(u), intent[u].keyed PROVE FirstResult(u)'
    BY <1>2, <1>4 DEF FirstResults
  <2>1. FirstResult(u)
    BY DEF FirstResults
  <2>2. CASE u # w
    <3>1. a \notin Of(u)
      BY <2>2 DEF Of
    <3>2. \A b \in Of(u) : stage'[b] = stage[b]
      BY <1>3, <3>1 DEF Of
    <3> QED
      BY <1>2, <1>5, <2>1, <2>2, <3>2 DEF FirstResult, Busy, Of
  <2>3. CASE u = w
    <3>1. \A b \in Of(u) : b # a => stage'[b] = stage[b]
      BY <1>3 DEF Of
    <3>2. Busy(a)
      BY <1>2 DEF Busy
    <3>3. stored[u] = 0 /\ \A b \in Of(u) : b # a => ~Busy(b)
      BY <1>1, <2>1, <2>3, <3>2 DEF FirstResult
    <3>4. stage[a] = "served" => reply[a] # 0 /\ stored'[u] = reply[a] /\ applied[u] = {reply[a]}
      BY <1>1, <1>6, <2>1, <2>3, <3>3 DEF FirstResult, RepliesAreVersions
    <3>5. stage[a] = "refused" => stored'[u] = 0 /\ applied[u] = {}
      <4> SUFFICES ASSUME stage[a] = "refused" PROVE stored'[u] = 0 /\ applied[u] = {}
        OBVIOUS
      <4>1. \A b \in Of(u) : stage[b] # "served"
        BY <3>3 DEF Busy
      <4> QED
        BY <1>6, <2>1, <2>3, <3>3, <4>1 DEF FirstResult
    <3> HIDE DEF w
    <3> QED
      BY <1>1, <1>2, <1>3, <2>1, <2>3, <3>1, <3>3, <3>4, <3>5 DEF FirstResult, Busy
  <2> QED
    BY <2>2, <2>3
<1>13. AnswersAreTraced'
  <2>1. \A b \in Attempt : trail[b[1]] # {} => trail'[b[1]] # {}
    BY <1>5, <1>7, AttemptsAreOfWishes
  <2>2. \A u \in Wish : stored'[u] # 0 => trail'[u] # {}
    BY <1>5, <1>7 DEF AnswersAreTraced
  <2> QED
    BY <1>2, <1>3, <1>7, <2>1, <2>2 DEF AnswersAreTraced
<1> QED
  BY <1>8, <1>9, <1>10, <1>11, <1>12, <1>13

LEMMA UnansweredKeeps ==
  ASSUME ReqInv, NEW a \in Attempt, Unanswered(a)
  PROVE  ReqInv'
<1> DEFINE w == a[1]
<1> USE DEF ReqInv
<1>1. w \in Wish /\ a \in Of(w)
  BY AttemptsAreOfWishes
<1>2. /\ stage[a] \in {"calling", "served", "refused"}
      /\ stage' = [stage EXCEPT ![a] = IF @ = "calling" THEN "orphan" ELSE "answered"]
      /\ reply' = [reply EXCEPT ![a] = 0] /\ trail' = Traced(w, FALSE) /\ lost' = lost \cup {w}
      /\ UNCHANGED <<intent, stored, current, applied, rivals, restarts>>
  BY DEF Unanswered
<1>3. /\ stage'[a] \in {"orphan", "answered"} /\ reply'[a] = 0
      /\ \A b \in Attempt : b # a => stage'[b] = stage[b] /\ reply'[b] = reply[b]
  BY <1>2 DEF ReqTypes
<1>4. Sent(w) /\ \A u \in Wish : Sent(u)' <=> Sent(u)
  BY <1>1, <1>2 DEF UnsentIsUnknown, Sent
<1>5. /\ \A u \in Wish : trail[u] \subseteq trail'[u]
      /\ AuditsFailure(intent[w].kind) => trail'[w] # {}
  BY <1>1, <1>2 DEF ReqTypes, Traced
<1>6. ReqTypes'
  <2>1. trail' \in [Wish -> SUBSET {"ok", "failed"}]
    BY <1>1, <1>2 DEF ReqTypes, Traced
  <2>2. stage' \in [Attempt -> Stages] /\ reply' \in [Attempt -> 0..current]
    BY <1>2 DEF ReqTypes, Stages
  <2> QED
    BY <1>1, <1>2, <1>4, <2>1, <2>2 DEF ReqTypes
<1>7. UnsentIsUnknown'
  <2> SUFFICES ASSUME NEW u \in Wish, ~Sent(u)
               PROVE  applied'[u] = {} /\ stored'[u] = 0 /\ \A b \in Of(u) : stage'[b] = "unsent"
    BY <1>4 DEF UnsentIsUnknown, Of
  <2>1. a \notin Of(u)
    BY <1>4 DEF Of
  <2> QED
    BY <1>2, <1>3, <2>1 DEF UnsentIsUnknown, Of
<1>8. RepliesAreVersions'
  BY <1>2, <1>3 DEF RepliesAreVersions
<1>9. ReadVersionPasses'
  BY <1>2, <1>4 DEF ReadVersionPasses
<1>10. FirstResults'
  <2> SUFFICES ASSUME NEW u \in Wish \ (rivals \cup lost'), Sent(u), intent[u].keyed PROVE FirstResult(u)'
    BY <1>2, <1>4 DEF FirstResults
  <2>1. FirstResult(u)
    BY <1>2 DEF FirstResults
  <2>2. a \notin Of(u)
    BY <1>2 DEF Of
  <2>3. \A b \in Of(u) : stage'[b] = stage[b] /\ reply'[b] = reply[b]
    BY <1>3, <2>2 DEF Of
  <2> QED
    BY <1>2, <2>1, <2>3 DEF FirstResult, Busy, Of
<1>11. AnswersAreTraced'
  <2>1. \A b \in Attempt : trail[b[1]] # {} => trail'[b[1]] # {}
    BY <1>5, AttemptsAreOfWishes
  <2>2. \A u \in Wish : stored'[u] # 0 => trail'[u] # {}
    BY <1>2, <1>5 DEF AnswersAreTraced
  <2>3. w \in lost' /\ lost \subseteq lost'
    BY <1>2
  <2> QED
    BY <1>2, <1>3, <1>5, <2>1, <2>2, <2>3 DEF AnswersAreTraced
<1> QED
  BY <1>6, <1>7, <1>8, <1>9, <1>10, <1>11

LEMMA GatewayRestartKeeps == ReqInv /\ GatewayRestart => ReqInv'
<1> SUFFICES ASSUME ReqInv, GatewayRestart PROVE ReqInv'
  OBVIOUS
<1> DEFINE hit == {a \in Attempt : stage[a] \in {"admitted", "calling", "served", "refused"}}
<1> USE DEF ReqInv
<1>1. /\ stage' = [a \in Attempt |-> IF a \in hit THEN (IF stage[a] = "calling" THEN "orphan" ELSE "gone") ELSE stage[a]]
      /\ reply' = [a \in Attempt |-> IF a \in hit THEN 0 ELSE reply[a]]
      /\ lost' = lost \cup {a[1] : a \in hit} /\ restarts' = restarts + 1
      /\ UNCHANGED <<intent, stored, current, applied, trail, rivals>>
  BY DEF GatewayRestart
<1>2. \A a \in Attempt : a \in hit => stage'[a] \in {"orphan", "gone"} /\ reply'[a] = 0 /\ stage[a] # "unsent" /\ a[1] \in lost'
  BY <1>1
<1>3. \A a \in Attempt : a \notin hit => stage'[a] = stage[a] /\ reply'[a] = reply[a]
                                   /\ stage[a] \notin {"admitted", "calling", "served", "refused"}
  BY <1>1
<1>4. \A u \in Wish : Sent(u)' <=> Sent(u)
  BY <1>1 DEF Sent
<1>5. ReqTypes'
  <2>1. stage' \in [Attempt -> Stages]
    BY <1>1 DEF ReqTypes, Stages
  <2>2. reply' \in [Attempt -> 0..current]
    BY <1>1 DEF ReqTypes
  <2>3. lost' \subseteq Wish
    BY <1>1, AttemptsAreOfWishes DEF ReqTypes
  <2> QED
    BY <1>1, <1>4, <2>1, <2>2, <2>3 DEF ReqTypes
<1> HIDE DEF hit
<1>6. UnsentIsUnknown'
  BY <1>1, <1>2, <1>3, <1>4 DEF UnsentIsUnknown, Of
<1>7. RepliesAreVersions'
  BY <1>1, <1>2, <1>3 DEF RepliesAreVersions
<1>8. ReadVersionPasses'
  BY <1>1, <1>4 DEF ReadVersionPasses
<1>9. FirstResults'
  <2> SUFFICES ASSUME NEW u \in Wish \ (rivals \cup lost'), Sent(u), intent[u].keyed PROVE FirstResult(u)'
    BY <1>1, <1>4 DEF FirstResults
  <2>1. FirstResult(u)
    BY <1>1 DEF FirstResults
  <2>2. \A b \in Of(u) : stage'[b] = stage[b] /\ reply'[b] = reply[b]
    BY <1>2, <1>3 DEF Of
  <2> QED
    BY <1>1, <2>1, <2>2 DEF FirstResult, Busy, Of
<1>10. AnswersAreTraced'
  <2>1. lost \subseteq lost'
    BY <1>1
  <2> QED
    BY <1>1, <1>2, <1>3, <2>1 DEF AnswersAreTraced
<1> QED
  BY <1>5, <1>6, <1>7, <1>8, <1>9, <1>10

LEMMA ReqInvStays == ReqInv /\ [ReqNext]_reqVars => ReqInv'
<1> SUFFICES ASSUME ReqInv, [ReqNext]_reqVars PROVE ReqInv'
  OBVIOUS
<1>1. CASE UNCHANGED reqVars
  <2>1. UNCHANGED <<intent, stage, reply, stored, current, applied, trail, rivals, lost, restarts>>
    BY <1>1, Zenon DEF reqVars
  <2>2. ReqTypes'
    BY <2>1 DEF ReqInv, ReqTypes, Sent
  <2>3. (UnsentIsUnknown /\ RepliesAreVersions /\ ReadVersionPasses)'
    BY <2>1 DEF ReqInv, UnsentIsUnknown, RepliesAreVersions, ReadVersionPasses, Sent, Of
  <2>4. (FirstResults /\ AnswersAreTraced)'
    BY <2>1 DEF ReqInv, FirstResults, FirstResult, AnswersAreTraced, Sent, Busy, Of
  <2> QED
    BY <2>2, <2>3, <2>4 DEF ReqInv
<1> QED
  BY <1>1, AdmittedKeeps, LookupKeeps, ServiceActsKeeps, PassedKeeps, UnansweredKeeps, GatewayRestartKeeps, Zenon
  DEF ReqNext

LEMMA ReqInvIsSafe == ReqInv => RequestsSafe
<1> SUFFICES ASSUME ReqInv PROVE RequestsSafe
  OBVIOUS
<1> USE DEF ReqInv
<1>1. \A v : Cardinality({}) <= 1 /\ Cardinality({v}) <= 1
  <2>1. Cardinality({}) = 0
    BY FS_EmptySet
  <2>2. \A v : Cardinality({v}) = 1
    BY FS_Singleton
  <2> QED
    BY <2>1, <2>2
<1>2. ReqTypeOK
  <2>1. \A w \in Wish : Sent(w) => intent[w] \in [kind : Kinds, keyed : BOOLEAN, etag : 1..current]
    BY IntentsAreSent DEF ReqTypes, Intent
  <2> QED
    BY <2>1 DEF ReqTypes, ReqTypeOK, RepliesAreVersions
<1>3. PutOnce
  BY <1>1 DEF ReadVersionPasses, PutOnce
<1>4. KeyedOnce
  <2> SUFFICES ASSUME NEW w \in Wish \ (rivals \cup lost), Sent(w), intent[w].keyed
               PROVE  /\ Cardinality(applied[w]) <= 1
                      /\ \A a, b \in Attempt : a[1] = w /\ b[1] = w /\ reply[a] # 0 /\ reply[b] # 0 => reply[a] = reply[b]
    BY DEF KeyedOnce
  <2>1. FirstResult(w)
    BY DEF FirstResults
  <2>2. applied[w] = {} \/ \E v : applied[w] = {v}
    <3>1. CASE \E a \in Of(w) : stage[a] = "served"
      BY <2>1, <3>1 DEF FirstResult, RepliesAreVersions, Of
    <3>2. CASE \A a \in Of(w) : stage[a] # "served"
      BY <2>1, <3>2 DEF FirstResult
    <3> QED
      BY <3>1, <3>2
  <2>3. \A a, b \in Of(w) : reply[a] # 0 /\ reply[b] # 0 => reply[a] = reply[b]
    BY <2>1 DEF FirstResult
  <2> QED
    BY <1>1, <2>2, <2>3 DEF Of
<1>5. ChangesLeaveTrace
  BY DEF AnswersAreTraced, ChangesLeaveTrace
<1> QED
  BY <1>2, <1>3, <1>4, <1>5 DEF RequestsSafe

\* A request that is repeated or loses its answer changes the service once and leaves its trace
\* (idem of gw/api.py): with an If-Match always, with a key alone while no answer is lost and no
\* two attempts run at once.
THEOREM RepeatsAreSafe == PortalSpec => []RequestsHold
<1> DEFINE Inv == part = "requests" => ReqInv
<1>1. PortalInit => Inv
  BY PartStarts, ReqStarts
<1>2. Inv /\ [PortalNext]_portalVars => Inv'
  BY PartMoves, ReqInvStays
<1>3. Inv => RequestsHold
  BY ReqInvIsSafe DEF RequestsHold
<1> QED
  BY <1>1, <1>2, <1>3, PTL DEF PortalSpec

-----------------------------------------------------------------------------
(* Parental: what a page shows of the rules of a child.                    *)

Line == Int \X Int \X Int
Block == [Kid -> Line]
Verdict == [at : Nat, from : Nat, known : BOOLEAN, kids : SUBSET Kid, crossed : BOOLEAN, live : Block,
            sync : BOOLEAN, ok : SUBSET Kid]
Request == [at : {"read", "render", "before", "done"}, asked : Nat, kids : SUBSET Kid, excs : [Kid -> Nat],
            from : Nat, live : Block, after : [Kid -> Nat], crossed : BOOLEAN, ok : SUBSET Kid,
            right : SUBSET Kid, of : {NoVerdict} \cup Verdict, now : Int, earlier : Int, block : Block]

KidTypes ==
  /\ beat \in 0..LastBeat /\ edits \in 0..MaxEdits /\ breaks \in 0..MaxBreaks
  /\ wins \in [Kid -> Nat] /\ excs \in [Kid -> Nat] /\ \A c \in Kid : wins[c] + excs[c] <= edits
  /\ phase \in Nat /\ phaseAt \in Int /\ live \in Block /\ unconfirmed \subseteq Kid
  /\ confirmed \in [Kid -> Nat] /\ \A c \in Kid : confirmed[c] <= wins[c]
  /\ policyVerdict \in {NoVerdict} \cup Verdict /\ policyVerdict.at <= beat
  /\ view \in [View -> {NoView} \cup Request]

\* The time is known since when the lines of a child are right, if they are.
RightSinceIsTrue ==
  rightSince \in [Kid -> -1..beat] /\ \A c \in Kid : rightSince[c] # -1 <=> Right(c)

RightBefore(c, t) == rightSince[c] \in 0..t - 1

\* What a request under way has read of a child that was right before it began is still so, and the
\* block that it holds has the changes that were answered before it asked.
WorkIsSound(q) ==
  /\ q.from <= beat
  /\ \A c \in Kid : q.after[c] <= confirmed[c] /\ (~q.crossed => q.after[c] = confirmed[c])
  /\ q.at = "before" => \A c \in Kid : q.block[c][1] >= q.after[c]
  /\ \A c \in Kid : RightBefore(c, q.from) =>
       /\ InEffect(q.excs[c]) = InEffect(excs[c])
       /\ q.at \in {"render", "before"} => q.live[c] = live[c] /\ q.now = phase
       /\ q.at = "before" /\ c \in q.kids => q.block[c] = live[c]

\* A child in the verdict has every change that was answered, unless the verdict crossed one; one that
\* has been right from before it on is in it.
VerdictIsSound(d) ==
  d # NoVerdict =>
    /\ d.from <= beat
    /\ d.known => /\ \A c \in d.ok : d.live[c][1] >= confirmed[c] \/ d.crossed
                  /\ \A c \in d.kids : RightBefore(c, d.from) => c \in d.ok
                  /\ d.kids = Kid /\ (\A c \in Kid : RightBefore(c, d.from)) => d.sync

ShownIsSound(q) ==
  /\ q.of # NoVerdict /\ q.of.at <= beat
  /\ q.ok \subseteq q.kids \cap q.of.ok
  /\ \A c \in q.ok : q.of.live[c][1] >= q.after[c] \/ q.of.crossed
  /\ q.of.known => /\ q.right \cap q.of.kids \subseteq q.ok
                   /\ q.right = Kid /\ q.of.kids = Kid => q.of.sync

KidInv ==
  /\ KidTypes /\ RightSinceIsTrue /\ VerdictIsSound(policyVerdict)
  /\ \A v \in View : (Working(v) => WorkIsSound(view[v])) /\ (Shown(v) => ShownIsSound(view[v]))

LEMMA InEffectType == \A x \in Nat : InEffect(x) \in Nat
  BY DEF InEffect

LEMMA LinesType ==
  KidTypes => \A c \in Kid, p \in Int, e \in [Kid -> Nat] : Lines(c, p, e) \in Line /\ Lines(c, p, e)[1] = wins[c]
  BY InEffectType DEF KidTypes, Lines, Line

LEMMA NoVerdictIsOld == \A t \in Nat : NoVerdict.at <= t /\ NoVerdict.at \in Int /\ ~(t - NoVerdict.at < PolicyTtl)
  BY ParentalNumbers DEF NoVerdict

LEMMA NoVerdictIsNone == NoVerdict \notin Verdict
<1>1. NoVerdict.at \notin Nat
  BY ParentalNumbers DEF NoVerdict
<1>2. \A d \in Verdict : d.at \in Nat
  BY DEF Verdict
<1> QED
  BY <1>1, <1>2

LEMMA KidStarts == KidInit => KidInv
<1> SUFFICES ASSUME KidInit PROVE KidInv
  OBVIOUS
<1> USE ParentalNumbers DEF KidInit
<1>1. KidTypes
  <2>1. live \in Block
    BY DEF Block, Line
  <2>2. policyVerdict = NoVerdict /\ policyVerdict.at <= beat
    BY NoVerdictIsOld
  <2> QED
    BY <2>1, <2>2 DEF KidTypes
<1>2. RightSinceIsTrue
  BY DEF RightSinceIsTrue, Right, Lines, InEffect
<1>3. VerdictIsSound(policyVerdict)
  BY DEF VerdictIsSound
<1>4. \A v \in View : ~Working(v) /\ ~Shown(v)
  BY DEF Working, Shown, NoView
<1> QED
  BY <1>1, <1>2, <1>3, <1>4 DEF KidInv

\* Steps of the house: no request reads and no verdict is made or dropped.
House ==
  \/ BeatPasses \/ EdgePasses \/ JobApplies
  \/ \E c \in Kid : HandEdits(c) \/ AnswerLost(c) \/ WindowsChange(c) \/ DomainsChange(c) \/ ExceptionChange(c)

LEMMA HouseTypes == KidTypes /\ House => KidTypes' /\ UNCHANGED <<confirmed, policyVerdict, view>> /\ beat <= beat'
<1> SUFFICES ASSUME KidTypes, House
             PROVE  KidTypes' /\ UNCHANGED <<confirmed, policyVerdict, view>> /\ beat <= beat'
  OBVIOUS
<1> USE ParentalNumbers DEF KidTypes
<1>0. policyVerdict.at <= beat /\ policyVerdict.at \in Int
  BY NoVerdictIsOld DEF Verdict
<1>1. CASE BeatPasses
  BY <1>0, <1>1 DEF BeatPasses
<1>2. CASE EdgePasses
  BY <1>2 DEF EdgePasses
<1>3. CASE JobApplies
  <2>1. live' \in Block
    BY <1>3, LinesType DEF JobApplies, Block
  <2> QED
    BY <1>3, <2>1 DEF JobApplies
<1>4. ASSUME NEW c \in Kid, HandEdits(c) PROVE KidTypes' /\ UNCHANGED <<confirmed, policyVerdict, view>> /\ beat <= beat'
  <2>1. live' \in Block
    BY <1>4 DEF HandEdits, Block, Line
  <2> QED
    BY <1>4, <2>1 DEF HandEdits
<1>5. ASSUME NEW c \in Kid, AnswerLost(c) PROVE KidTypes' /\ UNCHANGED <<confirmed, policyVerdict, view>> /\ beat <= beat'
  BY <1>5 DEF AnswerLost
<1>6. ASSUME NEW c \in Kid, WindowsChange(c) \/ DomainsChange(c)
      PROVE  KidTypes' /\ UNCHANGED <<confirmed, policyVerdict, view>> /\ beat <= beat'
  BY <1>6 DEF WindowsChange, DomainsChange, ChildChange
<1>7. ASSUME NEW c \in Kid, ExceptionChange(c)
      PROVE  KidTypes' /\ UNCHANGED <<confirmed, policyVerdict, view>> /\ beat <= beat'
  BY <1>7 DEF ExceptionChange, ChildChange
<1> QED
  BY <1>1, <1>2, <1>3, <1>4, <1>5, <1>6, <1>7 DEF House

\* A child whose lines are right before and after a step has the same lines, and they are right for
\* the same windows, exceptions and edges.
LEMMA RightStaysTheSame ==
  ASSUME KidTypes, KidTypes', [KidNext]_kidVars, NEW c \in Kid, Right(c), Right(c)'
  PROVE  live'[c] = live[c] /\ wins'[c] = wins[c] /\ phase' = phase /\ InEffect(excs'[c]) = InEffect(excs[c])
<1>1. live[c] = <<wins[c], phase, InEffect(excs[c])>> /\ live'[c] = <<wins'[c], phase', InEffect(excs'[c])>>
  BY DEF Right, Lines
<1>2. live'[c] = live[c]
  <2>1. CASE JobApplies
    BY <1>1, <2>1 DEF JobApplies, Lines
  <2>2. CASE \E k \in Kid : HandEdits(k)
    <3>1. PICK k \in Kid : HandEdits(k)
      BY <2>2
    <3>2. CASE k = c
      <4>1. live'[c] = <<-1, 0, 0>>
        BY <3>1, <3>2 DEF HandEdits, KidTypes, Block
      <4>2. wins'[c] = -1
        BY <1>1, <4>1
      <4> QED
        BY <4>2 DEF KidTypes
    <3>3. CASE k # c
      BY <3>1, <3>3 DEF HandEdits, KidTypes, Block
    <3> QED
      BY <3>2, <3>3
  <2>3. CASE UNCHANGED live
    BY <2>3
  <2> QED
    BY <2>1, <2>2, <2>3, Zenon DEF KidNext, KidStep, kidVars, BeatPasses, EdgePasses, Confirms, AnswerLost,
         WindowsChange, DomainsChange, ExceptionChange, ChildChange, ReadsLive, RendersNow, Renders, Fails,
         Concludes, PageAsks
<1> QED
  BY <1>1, <1>2

\* Who is right from before now on was right before the step.
LEMMA RightSinceMoves ==
  ASSUME RightSinceIsTrue, KidTypes, KidTypes', beat <= beat', [KidNext]_kidVars
  PROVE  /\ RightSinceIsTrue'
         /\ \A c \in Kid, t \in Nat : t <= beat /\ RightBefore(c, t)' => RightBefore(c, t) /\ Right(c) /\ Right(c)'
<1>1. CASE UNCHANGED kidVars
  <2>1. UNCHANGED <<beat, wins, excs, phase, live, rightSince>>
    BY <1>1, Zenon DEF kidVars
  <2>2. \A c \in Kid : Right(c)' <=> Right(c)
    BY <2>1 DEF Right, Lines
  <2> QED
    BY <2>1, <2>2 DEF RightSinceIsTrue, RightBefore
<1>2. CASE KidNext
  <2>1. rightSince' = [c \in Kid |-> IF ~Right(c)' THEN -1 ELSE IF rightSince[c] # -1 THEN rightSince[c] ELSE beat']
    BY <1>2 DEF KidNext
  <2>2. \A c \in Kid : (~Right(c)' => rightSince'[c] = -1)
          /\ (Right(c)' => rightSince'[c] = IF rightSince[c] # -1 THEN rightSince[c] ELSE beat')
    BY <2>1
  <2>3. beat \in Nat /\ beat' \in Nat
    BY DEF KidTypes
  <2>4. RightSinceIsTrue'
    <3>1. \A c \in Kid : rightSince'[c] \in -1..beat' /\ (rightSince'[c] # -1 <=> Right(c)')
      BY <2>2, <2>3 DEF RightSinceIsTrue
    <3>2. rightSince' \in [Kid -> -1..beat']
      BY <2>1, <3>1
    <3> QED
      BY <3>1, <3>2 DEF RightSinceIsTrue
  <2>5. ASSUME NEW c \in Kid, NEW t \in Nat, t <= beat, RightBefore(c, t)'
        PROVE  RightBefore(c, t) /\ Right(c) /\ Right(c)'
    <3>1. rightSince'[c] \in 0..t - 1
      BY <2>5 DEF RightBefore
    <3>2. Right(c)' /\ rightSince[c] # -1 /\ rightSince'[c] = rightSince[c]
      BY <2>2, <2>3, <2>5, <3>1
    <3> QED
      BY <3>1, <3>2 DEF RightBefore, RightSinceIsTrue
  <2> QED
    BY <2>4, <2>5
<1> QED
  BY <1>1, <1>2

\* What is sound of a request and of the verdict stays so while others move.
LEMMA WorkStays ==
  ASSUME KidTypes, KidTypes', RightSinceIsTrue, beat <= beat', [KidNext]_kidVars,
         NEW v \in View, Working(v), WorkIsSound(view[v]), view'[v] = view[v], confirmed' = confirmed
  PROVE  WorkIsSound(view[v])'
<1> DEFINE q == view[v]
<1>1. q \in Request
  BY DEF Working, KidTypes, NoView
<1>2. q.from \in Nat /\ beat \in Nat /\ beat' \in Nat /\ q.from <= beat
  BY <1>1 DEF Request, KidTypes, WorkIsSound
<1>3. ASSUME NEW c \in Kid, rightSince'[c] \in 0..q.from - 1
      PROVE  RightBefore(c, q.from) /\ live'[c] = live[c] /\ phase' = phase /\ InEffect(excs'[c]) = InEffect(excs[c])
  <2>1. RightBefore(c, q.from) /\ Right(c) /\ Right(c)'
    BY <1>2, <1>3, RightSinceMoves DEF RightBefore
  <2> QED
    BY <2>1, RightStaysTheSame
<1> HIDE DEF q
<1>4. \A c \in Kid : rightSince'[c] \in 0..q.from - 1 =>
         /\ InEffect(q.excs[c]) = InEffect(excs'[c])
         /\ q.at \in {"render", "before"} => q.live[c] = live'[c] /\ q.now = phase'
         /\ q.at = "before" /\ c \in q.kids => q.block[c] = live'[c]
  BY <1>3 DEF WorkIsSound, q
<1>5. q.from <= beat'
  BY <1>2
<1> QED
  BY <1>4, <1>5 DEF WorkIsSound, RightBefore, q

LEMMA VerdictStays ==
  ASSUME KidTypes, KidTypes', RightSinceIsTrue, beat <= beat', [KidNext]_kidVars,
         VerdictIsSound(policyVerdict), policyVerdict' = policyVerdict, confirmed' = confirmed
  PROVE  VerdictIsSound(policyVerdict)'
<1> SUFFICES ASSUME policyVerdict # NoVerdict PROVE VerdictIsSound(policyVerdict)'
  BY Zenon DEF VerdictIsSound
<1> DEFINE d == policyVerdict
<1>1. d \in Verdict
  BY DEF KidTypes
<1>2. d.from \in Nat /\ beat \in Nat /\ beat' \in Nat /\ d.from <= beat
  BY <1>1 DEF Verdict, KidTypes, VerdictIsSound
<1>3. ASSUME NEW c \in Kid, rightSince'[c] \in 0..d.from - 1 PROVE RightBefore(c, d.from)
  BY <1>2, <1>3, RightSinceMoves DEF RightBefore
<1>4. d.from <= beat'
  BY <1>2
<1> HIDE DEF d
<1>5. d.kids \subseteq Kid
  BY <1>1 DEF Verdict
<1> QED
  BY <1>3, <1>4, <1>5 DEF VerdictIsSound, RightBefore, d

LEMMA ShownStays ==
  ASSUME KidTypes, KidTypes', beat <= beat', NEW v \in View, Shown(v), ShownIsSound(view[v]), view'[v] = view[v]
  PROVE  ShownIsSound(view[v])'
<1>1. view[v].of \in Verdict
  BY NoVerdictIsNone DEF Shown, ShownIsSound, KidTypes, NoView, Request
<1>2. view[v].of.at \in Nat /\ view[v].of.at <= beat
  BY <1>1 DEF Verdict, ShownIsSound
<1>3. view[v].of.at <= beat'
  BY <1>2 DEF KidTypes
<1> QED
  BY <1>3 DEF ShownIsSound

LEMMA HouseKeeps == KidInv /\ House /\ KidNext => KidInv'
<1> SUFFICES ASSUME KidInv, House, KidNext PROVE KidInv'
  OBVIOUS
<1>1. KidTypes' /\ UNCHANGED <<confirmed, policyVerdict, view>> /\ beat <= beat'
  BY HouseTypes DEF KidInv
<1>2. RightSinceIsTrue'
  BY <1>1, RightSinceMoves DEF KidInv
<1>3. VerdictIsSound(policyVerdict)'
  BY <1>1, VerdictStays DEF KidInv
<1>4. ASSUME NEW v \in View PROVE (Working(v)' => WorkIsSound(view[v])') /\ (Shown(v)' => ShownIsSound(view[v])')
  <2>1. view'[v] = view[v] /\ (Working(v)' <=> Working(v)) /\ (Shown(v)' <=> Shown(v))
    BY <1>1 DEF Working, Shown
  <2> QED
    BY <1>1, <2>1, WorkStays, ShownStays DEF KidInv
<1> QED
  BY <1>1, <1>2, <1>3, <1>4 DEF KidInv

LEMMA ConfirmsKeeps ==
  ASSUME KidInv, KidNext, NEW c \in Kid, Confirms(c)
  PROVE  KidInv'
<1> USE ParentalNumbers DEF KidInv
<1>1. /\ confirmed' = [confirmed EXCEPT ![c] = wins[c]] /\ policyVerdict' = NoVerdict
      /\ view' = [v \in View |-> IF Working(v) THEN [view[v] EXCEPT !.crossed = TRUE] ELSE view[v]]
      /\ unconfirmed' = unconfirmed \ {c} /\ UNCHANGED <<beat, edits, breaks, wins, excs, phase, phaseAt, live>>
  BY DEF Confirms
<1>2. \A k \in Kid : confirmed[k] <= confirmed'[k] /\ confirmed'[k] <= wins[k] /\ confirmed'[k] \in Nat
  BY <1>1 DEF KidTypes
<1>3. KidTypes'
  <2>1. confirmed' \in [Kid -> Nat]
    BY <1>1 DEF KidTypes
  <2>2. view' \in [View -> {NoView} \cup Request]
    <3>1. \A q \in Request : [q EXCEPT !.crossed = TRUE] \in Request
      BY DEF Request
    <3>2. \A v \in View : Working(v) => view[v] \in Request
      BY DEF KidTypes, Working, NoView
    <3> QED
      BY <1>1, <3>1, <3>2 DEF KidTypes
  <2>3. policyVerdict'.at <= beat'
    BY <1>1, NoVerdictIsOld DEF KidTypes
  <2> QED
    BY <1>1, <1>2, <2>1, <2>2, <2>3 DEF KidTypes
<1>4. beat \in Nat /\ beat <= beat'
  BY <1>1 DEF KidTypes
<1>5. RightSinceIsTrue' /\ \A k \in Kid, t \in Nat : t <= beat /\ RightBefore(k, t)' => RightBefore(k, t)
  BY <1>3, <1>4, RightSinceMoves
<1>6. VerdictIsSound(policyVerdict)'
  BY <1>1 DEF VerdictIsSound, NoVerdict
<1>7. ASSUME NEW v \in View PROVE (Working(v)' => WorkIsSound(view[v])') /\ (Shown(v)' => ShownIsSound(view[v])')
  <2>1. CASE Working(v)
    <3> DEFINE q == view[v] r == view'[v]
    <3>1. q \in Request /\ r = [q EXCEPT !.crossed = TRUE]
      BY <1>1, <2>1 DEF Working, KidTypes, NoView
    <3>2. /\ r.crossed = TRUE /\ r.from = q.from /\ r.after = q.after /\ r.at = q.at /\ r.block = q.block
          /\ r.excs = q.excs /\ r.live = q.live /\ r.now = q.now /\ r.kids = q.kids
      BY <3>1 DEF Request
    <3>3. q.from \in Nat /\ q.after \in [Kid -> Nat]
      BY <3>1 DEF Request
    <3>4. ~Shown(v)' /\ WorkIsSound(q)
      BY <2>1, <3>2 DEF Working, Shown
    <3>5. q.from <= beat'
      BY <1>1, <3>4 DEF WorkIsSound
    <3>6. \A k \in Kid : q.after[k] <= confirmed'[k]
      BY <1>2, <3>3, <3>4 DEF WorkIsSound, KidTypes
    <3>7. \A k \in Kid : rightSince'[k] \in 0..q.from - 1 => RightBefore(k, q.from)
      <4>1. q.from <= beat
        BY <3>4 DEF WorkIsSound
      <4> QED
        BY <1>5, <3>3, <4>1 DEF RightBefore
    <3> HIDE DEF q
    <3>8. \A k \in Kid : rightSince'[k] \in 0..q.from - 1 =>
            /\ InEffect(q.excs[k]) = InEffect(excs'[k])
            /\ q.at \in {"render", "before"} => q.live[k] = live'[k] /\ q.now = phase'
            /\ q.at = "before" /\ k \in q.kids => q.block[k] = live'[k]
      BY <1>1, <3>4, <3>7 DEF WorkIsSound
    <3>9. q.at = "before" => \A k \in Kid : q.block[k][1] >= q.after[k]
      BY <3>4 DEF WorkIsSound
    <3> HIDE DEF r
    <3>10. /\ r.from <= beat'
           /\ \A k \in Kid : r.after[k] <= confirmed'[k] /\ (~r.crossed => r.after[k] = confirmed'[k])
           /\ r.at = "before" => \A k \in Kid : r.block[k][1] >= r.after[k]
           /\ \A k \in Kid : rightSince'[k] \in 0..r.from - 1 =>
                /\ InEffect(r.excs[k]) = InEffect(excs'[k])
                /\ r.at \in {"render", "before"} => r.live[k] = live'[k] /\ r.now = phase'
                /\ r.at = "before" /\ k \in r.kids => r.block[k] = live'[k]
      BY <3>2, <3>5, <3>6, <3>8, <3>9
    <3>11. WorkIsSound(view[v])'
      BY <3>10 DEF WorkIsSound, RightBefore, r
    <3> QED
      BY <3>4, <3>11
  <2>2. CASE ~Working(v)
    <3>1. view'[v] = view[v] /\ ~Working(v)' /\ (Shown(v)' => Shown(v))
      BY <1>1, <2>2 DEF Working, Shown
    <3> QED
      BY <1>3, <1>4, <3>1, ShownStays
  <2> QED
    BY <2>1, <2>2
<1> QED
  BY <1>3, <1>5, <1>6, <1>7

\* A step of one request, seen from the others and from the house.
LEMMA RequestStep ==
  ASSUME KidInv, KidNext, NEW v \in View, NEW q \in Request, view' = [view EXCEPT ![v] = q],
         UNCHANGED <<beat, edits, wins, excs, phase, phaseAt, live, unconfirmed, confirmed>>,
         breaks' \in 0..MaxBreaks,
         NEW d \in {NoVerdict} \cup Verdict, policyVerdict' = d, d.at <= beat, VerdictIsSound(d),
         q.at # "done" => WorkIsSound(q), q.at = "done" => ShownIsSound(q)
  PROVE  KidInv'
<1> USE DEF KidInv
<1>1. KidTypes'
  BY DEF KidTypes
<1>2. beat \in Nat /\ beat' = beat /\ beat <= beat'
  BY DEF KidTypes
<1>3. RightSinceIsTrue' /\ \A k \in Kid, t \in Nat : t <= beat /\ RightBefore(k, t)' => RightBefore(k, t)
  BY <1>1, <1>2, RightSinceMoves
<1>4. VerdictIsSound(policyVerdict)'
  <2>1. CASE d = NoVerdict
    BY <2>1 DEF VerdictIsSound
  <2>2. CASE d # NoVerdict
    <3>1. d \in Verdict
      BY <2>2
    <3>2. d.from \in Nat /\ d.kids \subseteq Kid /\ d.from <= beat
      BY <2>2, <3>1 DEF Verdict, VerdictIsSound
    <3>3. \A k \in Kid : rightSince'[k] \in 0..d.from - 1 => RightBefore(k, d.from)
      BY <1>3, <3>2 DEF RightBefore
    <3> QED
      BY <1>2, <2>2, <3>2, <3>3 DEF VerdictIsSound, RightBefore
  <2> QED
    BY <2>1, <2>2
<1>5. ASSUME NEW u \in View PROVE (Working(u)' => WorkIsSound(view[u])') /\ (Shown(u)' => ShownIsSound(view[u])')
  <2>1. CASE u = v
    <3>1. view'[u] = q
      BY <2>1 DEF KidTypes
    <3>2. CASE q.at # "done"
      <4>1. WorkIsSound(q) /\ q.from \in Nat /\ q.from <= beat
        BY <3>2 DEF Request, WorkIsSound
      <4>2. \A k \in Kid : rightSince'[k] \in 0..q.from - 1 => RightBefore(k, q.from)
        BY <1>3, <4>1 DEF RightBefore
      <4>3. WorkIsSound(view[u])'
        BY <3>1, <4>1, <4>2 DEF WorkIsSound, RightBefore
      <4> QED
        BY <3>1, <3>2, <4>3 DEF Shown
    <3>3. CASE q.at = "done"
      <4>1. ShownIsSound(view[u])'
        BY <3>1, <3>3 DEF ShownIsSound
      <4> QED
        BY <3>1, <3>3, <4>1 DEF Working
    <3> QED
      BY <3>2, <3>3
  <2>2. CASE u # v
    <3>1. view'[u] = view[u] /\ (Working(u)' <=> Working(u)) /\ (Shown(u)' <=> Shown(u)) /\ confirmed' = confirmed
      BY <2>2 DEF Working, Shown, KidTypes
    <3> QED
      BY <1>1, <1>2, <3>1, WorkStays, ShownStays
  <2> QED
    BY <2>1, <2>2
<1> QED
  BY <1>1, <1>3, <1>4, <1>5

\* What a request shows of a sound verdict is sound.
LEMMA ShowsSound ==
  ASSUME KidTypes, NEW q \in Request, NEW d \in Verdict, d.at <= beat,
         \A c \in q.kids : d.known /\ c \in d.ok => d.live[c][1] >= q.after[c] \/ d.crossed,
         d.known => \A c \in d.kids : RightBefore(c, d.from) => c \in d.ok,
         d.known /\ d.kids = Kid /\ (\A c \in Kid : RightBefore(c, d.from)) => d.sync
  PROVE  Shows(q, d) \in Request /\ Shows(q, d).at = "done" /\ ShownIsSound(Shows(q, d))
<1> DEFINE r == Shows(q, d)
<1>1. /\ r.at = "done" /\ r.kids = q.kids /\ r.after = q.after /\ r.of = d
      /\ r.ok = (IF d.known THEN {c \in q.kids : c \in d.ok} ELSE {})
      /\ r.right = {c \in q.kids : rightSince[c] \in 0..d.from - 1}
  BY DEF Shows, Request
<1>2. r \in Request
  <2>1. NoneActive \in [Kid -> Nat] /\ NoBlock \in Block
    BY DEF NoneActive, NoBlock, Block, Line
  <2>2. d.live \in Block
    BY DEF Verdict
  <2>3. q.kids \subseteq Kid
    BY DEF Request
  <2>4. (IF d.known THEN {c \in q.kids : c \in d.ok} ELSE {}) \in SUBSET Kid
    BY <2>3
  <2>5. {c \in q.kids : rightSince[c] \in 0..d.from - 1} \in SUBSET Kid
    BY <2>3
  <2> DEFINE ok == IF d.known THEN {c \in q.kids : c \in d.ok} ELSE {}
             right == {c \in q.kids : rightSince[c] \in 0..d.from - 1}
             half == [q EXCEPT !.at = "done", !.live = d.live, !.excs = NoneActive, !.ok = ok]
  <2>6. half \in Request
    BY <2>1, <2>2, <2>4 DEF Request
  <2>7. r = [half EXCEPT !.of = d, !.now = 0, !.earlier = 0, !.block = NoBlock, !.right = right]
    BY DEF Shows
  <2> HIDE DEF half, r, right
  <2>8. right \in SUBSET Kid
    BY <2>5 DEF right
  <2>9. [half EXCEPT !.of = d] \in Request
    BY <2>6 DEF Request
  <2>10. \A p \in Request : [p EXCEPT !.right = right] \in Request
    BY <2>8 DEF Request
  <2>11. \A p \in Request, x \in Int : [p EXCEPT !.now = x] \in Request /\ [p EXCEPT !.earlier = x] \in Request
    BY DEF Request
  <2>12. \A p \in Request : [p EXCEPT !.block = NoBlock] \in Request
    BY <2>1 DEF Request
  <2>13. r = [[[[[half EXCEPT !.of = d] EXCEPT !.now = 0] EXCEPT !.earlier = 0] EXCEPT !.block = NoBlock] EXCEPT !.right = right]
    BY <2>7
  <2>14. 0 \in Int
    OBVIOUS
  <2> QED
    BY <2>9, <2>10, <2>11, <2>12, <2>13, <2>14, Zenon
<1>3. d # NoVerdict /\ d.kids \subseteq Kid /\ q.kids \subseteq Kid
  BY NoVerdictIsNone DEF Verdict, Request
<1> HIDE DEF r
<1>4. ShownIsSound(r)
  BY <1>1, <1>3 DEF ShownIsSound, RightBefore
<1> QED
  BY <1>1, <1>2, <1>4 DEF r

LEMMA PageAsksKeeps ==
  ASSUME KidInv, KidNext, NEW v \in View, NEW K \in SUBSET Kid, PageAsks(v, K)
  PROVE  KidInv'
<1> DEFINE q == [at |-> "read", asked |-> view[v].asked + 1, kids |-> K, excs |-> excs, from |-> beat, live |-> live,
                 after |-> confirmed, crossed |-> FALSE, ok |-> {}, right |-> {}, of |-> NoVerdict,
                 now |-> phase, earlier |-> phase, block |-> NoBlock]
<1> USE DEF KidInv
<1>1. q \in Request
  <2>1. NoBlock \in Block
    BY DEF NoBlock, Block, Line
  <2>2. view[v].asked + 1 \in Nat
    BY DEF KidTypes, NoView, Request
  <2> QED
    BY <2>1, <2>2 DEF Request, KidTypes
<1>2. /\ view' = [view EXCEPT ![v] = IF Fresh THEN Shows(q, policyVerdict) ELSE q]
      /\ UNCHANGED <<beat, edits, breaks, wins, excs, phase, phaseAt, live, unconfirmed, confirmed, policyVerdict>>
  BY DEF PageAsks
<1>3. /\ q.at = "read" /\ q.from = beat /\ q.after = confirmed /\ q.excs = excs /\ q.kids = K
  OBVIOUS
<1> HIDE DEF q
<1>4. beat \in Nat /\ breaks' \in 0..MaxBreaks /\ confirmed \in [Kid -> Nat]
  BY <1>2 DEF KidTypes
<1>5. CASE ~Fresh
  <2>1. WorkIsSound(q)
    BY <1>3, <1>4 DEF WorkIsSound
  <2> QED
    BY <1>1, <1>2, <1>3, <1>4, <1>5, <2>1, RequestStep DEF KidTypes
<1>6. CASE Fresh
  <2> DEFINE d == policyVerdict r == Shows(q, d)
  <2>1. d \in Verdict /\ d.at <= beat
    BY <1>4, <1>6, NoVerdictIsOld DEF Fresh, KidTypes
  <2>2. VerdictIsSound(d) /\ d # NoVerdict
    BY <2>1, NoVerdictIsNone
  <2> HIDE DEF d
  <2>3. \A c \in q.kids : d.known /\ c \in d.ok => d.live[c][1] >= q.after[c] \/ d.crossed
    BY <1>3, <2>2 DEF VerdictIsSound
  <2>4. d.known => \A c \in d.kids : RightBefore(c, d.from) => c \in d.ok
    BY <2>2 DEF VerdictIsSound
  <2>5. d.known /\ d.kids = Kid /\ (\A c \in Kid : RightBefore(c, d.from)) => d.sync
    BY <2>2 DEF VerdictIsSound
  <2>6. r \in Request /\ r.at = "done" /\ ShownIsSound(r)
    BY <1>1, <2>1, <2>3, <2>4, <2>5, ShowsSound
  <2>7. view' = [view EXCEPT ![v] = r] /\ policyVerdict' = d
    BY <1>2, <1>6 DEF d
  <2> HIDE DEF r
  <2> QED
    BY <1>2, <1>4, <2>1, <2>2, <2>6, <2>7, RequestStep
<1> QED
  BY <1>5, <1>6

LEMMA ReadsLiveKeeps ==
  ASSUME KidInv, KidNext, NEW v \in View, ReadsLive(v)
  PROVE  KidInv'
<1> DEFINE q == view[v]
           e == IF beat - phaseAt < Slack THEN phase - 1 ELSE phase
           r == [q EXCEPT !.at = "render", !.live = live, !.now = phase, !.earlier = e]
<1> USE DEF KidInv
<1>1. q \in Request /\ q.at = "read" /\ WorkIsSound(q)
  BY DEF ReadsLive, Working, KidTypes, NoView
<1>2. /\ view' = [view EXCEPT ![v] = r]
      /\ UNCHANGED <<beat, edits, breaks, wins, excs, phase, phaseAt, live, unconfirmed, confirmed, policyVerdict>>
  <2>1. view' = [view EXCEPT ![v].at = "render", ![v].live = live, ![v].now = phase, ![v].earlier = e]
    BY DEF ReadsLive
  <2>2. view' = [view EXCEPT ![v] = r]
    BY <2>1 DEF KidTypes
  <2> QED
    BY <2>2 DEF ReadsLive
<1>3. phase \in Int /\ e \in Int /\ live \in Block
  BY DEF KidTypes
<1> HIDE DEF e
<1>4. r \in Request
  <2>1. [q EXCEPT !.at = "render", !.live = live, !.now = phase] \in Request
    BY <1>1, <1>3 DEF Request
  <2>2. \A p \in Request : [p EXCEPT !.earlier = e] \in Request
    BY <1>3 DEF Request
  <2>3. r = [[q EXCEPT !.at = "render", !.live = live, !.now = phase] EXCEPT !.earlier = e]
    OBVIOUS
  <2> QED
    BY <2>1, <2>2, <2>3
<1>5. /\ r.at = "render" /\ r.live = live /\ r.now = phase /\ r.from = q.from /\ r.after = q.after
      /\ r.crossed = q.crossed /\ r.excs = q.excs
  BY <1>1 DEF Request
<1> HIDE DEF q, r
<1>6. WorkIsSound(r)
  BY <1>1, <1>5 DEF WorkIsSound
<1> QED
  BY <1>2, <1>4, <1>5, <1>6, RequestStep DEF KidTypes

LEMMA RendersNowKeeps ==
  ASSUME KidInv, KidNext, NEW v \in View, RendersNow(v)
  PROVE  KidInv'
<1> DEFINE q == view[v]
           b == Rendered(q, q.now)
           r == [q EXCEPT !.at = "before", !.block = b]
<1> USE DEF KidInv
<1>1. q \in Request /\ q.at = "render" /\ WorkIsSound(q)
  BY DEF RendersNow, Working, KidTypes, NoView
<1>2. /\ view' = [view EXCEPT ![v] = r]
      /\ UNCHANGED <<beat, edits, breaks, wins, excs, phase, phaseAt, live, unconfirmed, confirmed, policyVerdict>>
  <2>1. view' = [view EXCEPT ![v].at = "before", ![v].block = b]
    BY DEF RendersNow
  <2>2. view' = [view EXCEPT ![v] = r]
    BY <2>1 DEF KidTypes
  <2> QED
    BY <2>2 DEF RendersNow
<1>3. /\ b \in Block /\ \A c \in Kid : b[c][1] = wins[c]
      /\ \A c \in q.kids : b[c] = <<wins[c], q.now, InEffect(q.excs[c])>>
  <2>1. q.now \in Int /\ q.excs \in [Kid -> Nat] /\ q.kids \subseteq Kid
    BY <1>1 DEF Request
  <2>2. Overrides(q) \in [Kid -> Nat] /\ \A c \in q.kids : Overrides(q)[c] = q.excs[c]
    BY <2>1 DEF Overrides
  <2>3. \A c \in Kid : Rendered(q, q.now)[c] = Lines(c, q.now, Overrides(q))
    BY DEF Rendered
  <2>4. b \in Block /\ \A c \in Kid : b[c][1] = wins[c]
    BY <2>1, <2>2, <2>3, LinesType DEF Block, Rendered
  <2> QED
    BY <2>1, <2>2, <2>3, <2>4 DEF Lines
<1> HIDE DEF b
<1>4. r \in Request
  BY <1>1, <1>3 DEF Request
<1>5. /\ r.at = "before" /\ r.live = q.live /\ r.now = q.now /\ r.from = q.from /\ r.after = q.after
      /\ r.crossed = q.crossed /\ r.excs = q.excs /\ r.block = b /\ r.kids = q.kids
  BY <1>1 DEF Request
<1>6. q.after \in [Kid -> Nat] /\ q.kids \subseteq Kid
  BY <1>1 DEF Request
<1> HIDE DEF q, r
<1>7. \A c \in Kid : b[c][1] >= q.after[c]
  BY <1>1, <1>3, <1>6 DEF WorkIsSound, KidTypes
<1>8. \A c \in Kid : RightBefore(c, q.from) /\ c \in q.kids => b[c] = live[c]
  <2> SUFFICES ASSUME NEW c \in Kid, RightBefore(c, q.from), c \in q.kids PROVE b[c] = live[c]
    OBVIOUS
  <2>1. Right(c)
    BY DEF RightBefore, RightSinceIsTrue
  <2>2. q.now = phase /\ InEffect(q.excs[c]) = InEffect(excs[c])
    BY <1>1 DEF WorkIsSound
  <2> QED
    BY <1>3, <2>1, <2>2 DEF Right, Lines
<1>9. WorkIsSound(r)
  BY <1>1, <1>5, <1>7, <1>8 DEF WorkIsSound
<1> QED
  BY <1>2, <1>4, <1>5, <1>9, RequestStep DEF KidTypes

LEMMA ConcludesKeeps ==
  ASSUME KidInv, KidNext, NEW v \in View, Working(v), NEW d \in Verdict, Concludes(v, d),
         breaks' \in 0..MaxBreaks, d.at = beat, d.from = view[v].from, d.kids = view[v].kids,
         d.known => /\ \A c \in d.ok : d.live[c][1] >= view[v].after[c] /\ (d.live[c][1] >= confirmed[c] \/ d.crossed)
                    /\ \A c \in d.kids : RightBefore(c, d.from) => c \in d.ok
                    /\ d.kids = Kid /\ (\A c \in Kid : RightBefore(c, d.from)) => d.sync
  PROVE  KidInv'
<1> DEFINE q == view[v] r == Shows(q, d)
<1> USE DEF KidInv
<1>1. q \in Request /\ WorkIsSound(q)
  BY DEF Working, KidTypes, NoView
<1>2. beat \in Nat /\ d.at <= beat /\ d.from <= beat
  BY <1>1 DEF KidTypes, WorkIsSound
<1>3. view' = [view EXCEPT ![v] = r] /\ policyVerdict' = d
      /\ UNCHANGED <<beat, edits, wins, excs, phase, phaseAt, live, unconfirmed, confirmed>>
  BY DEF Concludes
<1> HIDE DEF q
<1>4. r \in Request /\ r.at = "done" /\ ShownIsSound(r)
  BY <1>1, <1>2, ShowsSound DEF q
<1>5. VerdictIsSound(d)
  BY <1>2 DEF VerdictIsSound
<1> HIDE DEF r
<1> QED
  BY <1>2, <1>3, <1>4, <1>5, RequestStep

LEMMA RendersKeeps ==
  ASSUME KidInv, KidNext, NEW v \in View, Renders(v)
  PROVE  KidInv'
<1> DEFINE q == view[v]
           b == Rendered(q, q.earlier)
           d == Judged(q)
<1> USE DEF KidInv
<1>1. q \in Request /\ q.at = "before" /\ WorkIsSound(q) /\ Working(v)
  BY DEF Renders, Working, KidTypes, NoView
<1>2. Concludes(v, d) /\ breaks' \in 0..MaxBreaks
  BY DEF Renders, KidTypes
<1>3. /\ q.kids \subseteq Kid /\ q.live \in Block /\ q.block \in Block /\ q.after \in [Kid -> Nat]
      /\ q.from \in Nat /\ q.crossed \in BOOLEAN
  BY <1>1 DEF Request
<1>4. \A c \in Kid : b[c][1] = wins[c]
  <2>1. q.earlier \in Int /\ q.excs \in [Kid -> Nat]
    BY <1>1 DEF Request
  <2>2. Overrides(q) \in [Kid -> Nat]
    BY <2>1 DEF Overrides
  <2> QED
    BY <2>1, <2>2, LinesType DEF Rendered
<1>5. /\ d.at = beat /\ d.from = q.from /\ d.known = TRUE /\ d.kids = q.kids /\ d.crossed = q.crossed
      /\ d.live = q.live /\ d.sync = (q.live \in {q.block, b})
      /\ d.ok = {c \in q.kids : \E x \in {q.block, b} : x[c] = q.live[c]}
  BY DEF Judged, RenderedBlocks
<1>6. d \in Verdict
  <2>1. beat \in Nat
    BY DEF KidTypes
  <2>2. {c \in q.kids : \E x \in RenderedBlocks(q) : x[c] = q.live[c]} \in SUBSET Kid
    BY <1>3
  <2> QED
    BY <1>3, <2>1, <2>2 DEF Judged, Verdict
<1> HIDE DEF q, b, d
<1>7. ASSUME NEW c \in d.ok
      PROVE  d.live[c][1] >= q.after[c] /\ (d.live[c][1] >= confirmed[c] \/ d.crossed)
  <2>1. c \in Kid /\ (q.block[c] = q.live[c] \/ b[c] = q.live[c])
    BY <1>3, <1>5
  <2>2. /\ q.after[c] <= confirmed[c] /\ (~q.crossed => q.after[c] = confirmed[c]) /\ q.block[c][1] >= q.after[c]
        /\ confirmed[c] <= wins[c]
    BY <1>1, <2>1 DEF WorkIsSound, KidTypes
  <2>3. q.after[c] \in Nat /\ confirmed[c] \in Nat /\ wins[c] \in Nat
    BY <1>3, <2>1 DEF KidTypes
  <2>4. CASE q.block[c] = q.live[c]
    BY <1>5, <2>2, <2>4
  <2>5. CASE b[c] = q.live[c]
    <3>1. d.live[c][1] = wins[c]
      BY <1>4, <1>5, <2>1, <2>5
    <3> QED
      BY <2>2, <2>3, <3>1
  <2> QED
    BY <2>1, <2>4, <2>5
<1>8. ASSUME NEW c \in d.kids, RightBefore(c, d.from) PROVE q.block[c] = q.live[c]
  BY <1>1, <1>3, <1>5, <1>8 DEF WorkIsSound
<1>9. \A c \in d.kids : RightBefore(c, d.from) => c \in d.ok
  BY <1>5, <1>8
<1>10. d.kids = Kid /\ (\A c \in Kid : RightBefore(c, d.from)) => d.sync
  <2> SUFFICES ASSUME d.kids = Kid, \A c \in Kid : RightBefore(c, d.from) PROVE q.live = q.block
    BY <1>5
  <2> QED
    BY <1>3, <1>8 DEF Block
<1> QED
  BY <1>1, <1>2, <1>5, <1>6, <1>7, <1>9, <1>10, ConcludesKeeps DEF q

LEMMA FailsKeeps ==
  ASSUME KidInv, KidNext, NEW v \in View, Fails(v)
  PROVE  KidInv'
<1> DEFINE q == view[v]
           d == Unknown(q)
<1> USE DEF KidInv
<1>1. q \in Request /\ Working(v)
  BY DEF Fails, Working, KidTypes, NoView
<1>2. Concludes(v, d) /\ breaks' \in 0..MaxBreaks
  BY ParentalNumbers DEF Fails, KidTypes
<1>3. d.at = beat /\ d.from = q.from /\ d.known = FALSE /\ d.kids = q.kids
  BY DEF Unknown
<1>4. d \in Verdict
  BY <1>1 DEF Unknown, Verdict, Request, KidTypes
<1> HIDE DEF d
<1> QED
  BY <1>1, <1>2, <1>3, <1>4, ConcludesKeeps

LEMMA KidInvStays == KidInv /\ [KidNext]_kidVars => KidInv'
<1> SUFFICES ASSUME KidInv, [KidNext]_kidVars PROVE KidInv'
  OBVIOUS
<1>1. CASE UNCHANGED kidVars
  <2>1. UNCHANGED <<beat, edits, breaks, wins, excs, phase, phaseAt, live, unconfirmed, confirmed, policyVerdict, view, rightSince>>
    BY <1>1, Zenon DEF kidVars
  <2>2. KidTypes' /\ RightSinceIsTrue'
    BY <2>1 DEF KidInv, KidTypes, RightSinceIsTrue, Right, Lines
  <2>3. VerdictIsSound(policyVerdict)'
    BY <2>1 DEF KidInv, VerdictIsSound, RightBefore
  <2>4. \A v \in View : (Working(v)' => WorkIsSound(view[v])') /\ (Shown(v)' => ShownIsSound(view[v])')
    BY <2>1 DEF KidInv, Working, Shown, WorkIsSound, ShownIsSound, RightBefore
  <2> QED
    BY <2>2, <2>3, <2>4 DEF KidInv
<1>2. CASE KidNext
  <2>1. \/ House \/ \E c \in Kid : Confirms(c)
        \/ \E v \in View : ReadsLive(v) \/ RendersNow(v) \/ Renders(v) \/ Fails(v)
        \/ \E v \in View, K \in SUBSET Kid : PageAsks(v, K)
    BY <1>2 DEF KidNext, KidStep, House
  <2> QED
    BY <1>2, <2>1, HouseKeeps, ConfirmsKeeps, ReadsLiveKeeps, RendersNowKeeps, RendersKeeps, FailsKeeps, PageAsksKeeps
<1> QED
  BY <1>1, <1>2

LEMMA KidInvIsSafe == KidInv => ParentalSafe
<1> SUFFICES ASSUME KidInv PROVE ParentalSafe
  OBVIOUS
<1> USE DEF KidInv
<1>1. KidTypeOK
  <2>1. \A c \in Kid : rightSince[c] \in -1..beat
    BY DEF RightSinceIsTrue
  <2>2. \A v \in View : view[v].at = "done" => view[v].ok \subseteq view[v].kids \cap view[v].of.ok /\ beat >= view[v].of.at
    <3> SUFFICES ASSUME NEW v \in View, view[v].at = "done"
                 PROVE  view[v].ok \subseteq view[v].kids \cap view[v].of.ok /\ beat >= view[v].of.at
      OBVIOUS
    <3>1. ShownIsSound(view[v]) /\ view[v] \in Request
      BY DEF Shown, KidTypes, NoView
    <3>2. view[v].of \in Verdict /\ view[v].of.at <= beat
      BY <3>1 DEF ShownIsSound, Request
    <3>3. view[v].of.at \in Nat /\ beat \in Nat
      BY <3>2 DEF Verdict, KidTypes
    <3> QED
      BY <3>1, <3>2, <3>3 DEF ShownIsSound
  <2> QED
    BY <2>1, <2>2 DEF KidTypes, KidTypeOK
<1>2. ConfirmedIsInForce
  BY DEF ConfirmedIsInForce, ShownIsSound
<1>3. RightIsShownOfTheSame
  BY DEF RightIsShownOfTheSame, ShownIsSound
<1> QED
  BY <1>1, <1>2, <1>3 DEF ParentalSafe

\* A page changes what it shows when it has a verdict of now, or one that is still fresh.
LEMMA RecentOnly == KidTypes /\ [KidNext]_kidVars => ShownIsRecent
<1> SUFFICES ASSUME KidTypes, [KidNext]_kidVars, NEW v \in View, view'[v] # view[v], view'[v].at = "done"
             PROVE  beat - view'[v].of.at < PolicyTtl
  BY DEF ShownIsRecent, Shown
<1> USE ParentalNumbers
<1>0. beat \in Nat
  BY DEF KidTypes
<1>1. ~UNCHANGED view /\ KidStep
  BY Zenon DEF KidNext, kidVars
<1>2. ASSUME NEW c \in Kid, Confirms(c) PROVE FALSE
  <2>1. Working(v) /\ view'[v] = [view[v] EXCEPT !.crossed = TRUE]
    BY <1>2 DEF Confirms
  <2>2. view[v] \in Request
    BY <2>1 DEF Working, KidTypes, NoView
  <2> QED
    BY <2>1, <2>2 DEF Working, Request
<1>3. ASSUME NEW u \in View, ReadsLive(u) \/ RendersNow(u) PROVE FALSE
  <2>1. view[u] \in Request
    BY <1>3 DEF ReadsLive, RendersNow, KidTypes, NoView
  <2>2. view'[u].at # "done" /\ (u # v => view'[v] = view[v])
    BY <1>3, <2>1 DEF ReadsLive, RendersNow, KidTypes, Request
  <2> QED
    BY <2>2
<1>4. ASSUME NEW u \in View, NEW d, Concludes(u, d), Working(u), d.at = beat PROVE beat - view'[v].of.at < PolicyTtl
  <2>1. view[u] \in Request
    BY <1>4 DEF Working, KidTypes, NoView
  <2>2. view' = [view EXCEPT ![u] = Shows(view[u], d)]
    BY <1>4 DEF Concludes
  <2>3. u = v
    BY <2>2 DEF KidTypes
  <2>4. view'[v] = Shows(view[v], d)
    BY <2>2, <2>3 DEF KidTypes
  <2>5. view'[v].of = d
    BY <2>1, <2>3, <2>4 DEF Shows, Request
  <2> QED
    BY <1>0, <1>4, <2>5
<1>5. ASSUME NEW u \in View, Renders(u) \/ Fails(u) PROVE beat - view'[v].of.at < PolicyTtl
  <2>1. Judged(view[u]).at = beat /\ Unknown(view[u]).at = beat
    BY DEF Judged, Unknown
  <2>2. Working(u)
    BY <1>5 DEF Renders, Fails, Working
  <2>3. Concludes(u, Judged(view[u])) \/ Concludes(u, Unknown(view[u]))
    BY <1>5 DEF Renders, Fails
  <2> QED
    BY <1>4, <2>1, <2>2, <2>3
<1>6. ASSUME NEW u \in View, NEW K \in SUBSET Kid, PageAsks(u, K) PROVE beat - view'[v].of.at < PolicyTtl
  <2> DEFINE q == [at |-> "read", asked |-> view[u].asked + 1, kids |-> K, excs |-> excs, from |-> beat, live |-> live,
                   after |-> confirmed, crossed |-> FALSE, ok |-> {}, right |-> {}, of |-> NoVerdict,
                   now |-> phase, earlier |-> phase, block |-> NoBlock]
  <2>1. view' = [view EXCEPT ![u] = IF Fresh THEN Shows(q, policyVerdict) ELSE q]
    BY <1>6 DEF PageAsks
  <2>2. u = v
    BY <2>1 DEF KidTypes
  <2>3. view'[v] = IF Fresh THEN Shows(q, policyVerdict) ELSE q
    BY <2>1, <2>2 DEF KidTypes
  <2>4. Fresh
    <3>1. q.at # "done"
      OBVIOUS
    <3> HIDE DEF q
    <3> QED
      BY <2>3, <3>1
  <2>5. Shows(q, policyVerdict).of = policyVerdict
    BY DEF Shows
  <2> QED
    BY <2>3, <2>4, <2>5 DEF Fresh
<1>7. House => UNCHANGED view
  BY DEF House, BeatPasses, EdgePasses, JobApplies, HandEdits, AnswerLost, WindowsChange, DomainsChange,
     ExceptionChange, ChildChange
<1>8. \/ House \/ \E c \in Kid : Confirms(c)
      \/ \E u \in View : ReadsLive(u) \/ RendersNow(u) \/ Renders(u) \/ Fails(u)
      \/ \E u \in View, K \in SUBSET Kid : PageAsks(u, K)
  BY <1>1 DEF KidStep, House
<1> QED
  BY <1>1, <1>2, <1>3, <1>5, <1>6, <1>7, <1>8

\* What the page shows of a child is true of the rules that it was judged by (gw/parental.py, _policy
\* and _status): a confirmed change is in them unless the verdict crossed it, and a child that was right
\* all the while is shown as such.
THEOREM ShownOfAChildIsTrue == PortalSpec => []ParentalHold
<1> DEFINE Inv == part = "parental" => KidInv
<1>1. PortalInit => Inv
  BY PartStarts, KidStarts
<1>2. Inv /\ [PortalNext]_portalVars => Inv'
  BY PartMoves, KidInvStays
<1>3. Inv => ParentalHold
  BY KidInvIsSafe DEF ParentalHold
<1> QED
  BY <1>1, <1>2, <1>3, PTL DEF PortalSpec

\* No step shows a verdict that is older than the cache allows.
THEOREM ShownStaysRecent == PortalSpec => [][part = "parental" => ShownIsRecent]_portalVars
<1> DEFINE Inv == part = "parental" => KidInv
<1>1. PortalInit => Inv
  BY PartStarts, KidStarts
<1>2. Inv /\ [PortalNext]_portalVars => Inv'
  BY PartMoves, KidInvStays
<1>3. Inv /\ [PortalNext]_portalVars => [part = "parental" => ShownIsRecent]_portalVars
  BY PartMoves, RecentOnly DEF KidInv
<1> QED
  BY <1>1, <1>2, <1>3, PTL DEF PortalSpec

-----------------------------------------------------------------------------
(* ChildLists: the data of the child policy that parents and releases      *)
(* change.                                                                 *)

Pair == [allow : SUBSET Host, deny : SUBSET Host]
Exception == [status : {"none", "active", "cancelled"}, runs : BOOLEAN]
TabletRow == [allow : SUBSET Host, deny : SUBSET Host, opens : SUBSET Target, exception : Exception]
AuditRow == [before : Pair, after : Pair]

ListTypes ==
  /\ child \in [Tablet -> {NoTablet} \cup TabletRow]
  /\ lastRow \in [Tablet -> {NoRowYet} \cup AuditRow]
  /\ definition \in [Tablet -> {NoDefinition} \cup TabletRow]
  /\ mapsRow # NoRowYet => \A d \in DOMAIN mapsRow.rules : mapsRow.rules[d] \in SUBSET Target
  /\ renewed \subseteq Tablet

\* Not only the lists but what an undo or a restore may bring back leaves the always-on hosts open.
NothingKeptBlocks ==
  /\ AlwaysOnStaysOpen
  /\ \A d \in Tablet : lastRow[d] # NoRowYet => (lastRow[d].before.deny \cup lastRow[d].after.deny) \cap Needed = {}
  /\ \A d \in Tablet : definition[d] # NoDefinition => definition[d].deny \cap Needed = {}

\* As long as nothing changed since the migration, its row and the data tell what it found.
MigrationIsKnown ==
  migration = "fresh" =>
    /\ mapsRow.house = priorData.house
    /\ \A d \in Standing :
         /\ priorData.child[d] \in TabletRow
         /\ child[d].opens = priorData.child[d].opens \ {"maps"}
         /\ d \in DOMAIN mapsRow.rules => mapsRow.rules[d] = priorData.child[d].opens
         /\ d \notin DOMAIN mapsRow.rules => "maps" \notin priorData.child[d].opens
         /\ d \in mapsRow.exceptions => priorData.child[d].exception.status = "active"
         /\ child[d].exception.runs =>
              /\ priorData.child[d].exception.runs = TRUE
              /\ d \notin mapsRow.exceptions => child[d].exception.status = priorData.child[d].exception.status

ListInv ==
  /\ ListTypes /\ NothingKeptBlocks /\ TrailIsTrue /\ MovedOnce
  /\ MigrationIsKnown /\ RollbackIsExact

LEMMA ListStarts == ListInit => ListInv
<1> SUFFICES ASSUME ListInit PROVE ListInv
  OBVIOUS
<1>1. PICK open \in [Tablet -> {{"maps"}, {"maps", "youtube"}}] :
        child = [d \in Tablet |-> [allow |-> {}, deny |-> {}, opens |-> open[d],
                                   exception |-> [status |-> "active", runs |-> TRUE]]]
  BY DEF ListInit
<1>2. ListTypes
  <2>1. child \in [Tablet -> TabletRow]
    BY <1>1 DEF TabletRow, Exception, Target
  <2> QED
    BY <2>1 DEF ListInit, ListTypes
<1>3. NothingKeptBlocks
  BY <1>1 DEF ListInit, NothingKeptBlocks, AlwaysOnStaysOpen, Standing
<1>4. TrailIsTrue
  BY DEF ListInit, TrailIsTrue, Standing
<1>5. legacy = TRUE /\ migration = "none"
  BY DEF ListInit
<1>6. MovedOnce
  BY <1>5, Zenon DEF MovedOnce
<1>7. MigrationIsKnown /\ RollbackIsExact
  BY <1>5 DEF MigrationIsKnown, RollbackIsExact
<1> QED
  BY <1>2, <1>3, <1>4, <1>6, <1>7 DEF ListInv

\* A change of the lists that is audited as it is made, and blocks nothing that is always on.
LEMMA ListChangeKeeps ==
  ASSUME ListInv, NEW d \in Standing, NEW l \in Pair, NEW from \in Pair,
         l.deny \cap Needed = {}, from.deny \cap Needed = {},
         ListsBecome(d, l), Audits(d, from, l), migration' = "none",
         UNCHANGED <<house, cutover, serving, mapsRow, definition, legacy, priorData>>
  PROVE  ListInv'
<1> USE DEF ListInv
<1>1. d \in Tablet /\ child[d] \in TabletRow
  BY DEF Standing, ListTypes
<1> DEFINE r == [child[d] EXCEPT !.allow = l.allow, !.deny = l.deny]
<1>2. child' = [child EXCEPT ![d] = r]
  BY <1>1 DEF ListsBecome, ListTypes
<1>3. /\ r \in TabletRow /\ r.opens = child[d].opens /\ r.exception = child[d].exception
      /\ r.allow = l.allow /\ r.deny = l.deny
  BY <1>1 DEF TabletRow, Pair
<1> HIDE DEF r
<1>4. /\ child'[d] = r /\ (child'[d] = NoTablet => d \notin Standing') /\ Standing' \subseteq Standing
      /\ \A c \in Tablet : c # d => child'[c] = child[c] /\ (c \in Standing' <=> c \in Standing)
  BY <1>1, <1>2 DEF ListTypes, Standing
<1>5. /\ lastRow' = [lastRow EXCEPT ![d] = [before |-> from, after |-> l]] /\ renewed' = renewed \ {d}
  BY DEF Audits
<1>6. ListTypes'
  <2>1. child' \in [Tablet -> {NoTablet} \cup TabletRow]
    BY <1>2, <1>3 DEF ListTypes
  <2>2. lastRow' \in [Tablet -> {NoRowYet} \cup AuditRow]
    BY <1>5 DEF ListTypes, AuditRow
  <2> QED
    BY <1>5, <2>1, <2>2 DEF ListTypes
<1>7. NothingKeptBlocks'
  <2>1. AlwaysOnStaysOpen'
    <3> SUFFICES ASSUME NEW c \in Standing' PROVE child'[c].deny \cap Needed = {}
      BY DEF AlwaysOnStaysOpen
    <3>1. c \in Standing /\ (c # d => child'[c] = child[c])
      BY <1>4 DEF Standing
    <3> QED
      BY <1>3, <1>4, <3>1 DEF NothingKeptBlocks, AlwaysOnStaysOpen
  <2>2. \A c \in Tablet : lastRow'[c] # NoRowYet => (lastRow'[c].before.deny \cup lastRow'[c].after.deny) \cap Needed = {}
    BY <1>1, <1>5 DEF NothingKeptBlocks, ListTypes
  <2> QED
    BY <2>1, <2>2 DEF NothingKeptBlocks
<1>8. TrailIsTrue'
  <2> SUFFICES ASSUME NEW c \in Standing' \ renewed', lastRow'[c] # NoRowYet
               PROVE  ListsOf(c)' = lastRow'[c].after
    BY DEF TrailIsTrue
  <2>1. CASE c = d
    <3>1. lastRow'[c].after = l
      BY <1>1, <1>5, <2>1 DEF ListTypes
    <3>2. l = [allow |-> l.allow, deny |-> l.deny]
      BY DEF Pair
    <3> QED
      BY <1>3, <1>4, <2>1, <3>1, <3>2 DEF ListsOf
  <2>2. CASE c # d
    <3>1. c \in Tablet /\ c \in Standing /\ c \notin renewed /\ child'[c] = child[c] /\ lastRow'[c] = lastRow[c]
      BY <1>4, <1>5, <2>2 DEF Standing, ListTypes
    <3> QED
      BY <3>1 DEF TrailIsTrue, ListsOf
  <2> QED
    BY <2>1, <2>2
<1>9. MovedOnce'
  <2>1. \A c \in Standing' : c \in Standing /\ child'[c].opens = child[c].opens /\ child'[c].exception = child[c].exception
    BY <1>3, <1>4 DEF Standing
  <2>2. WithMaps' \subseteq WithMaps /\ Excepted' \subseteq Excepted
    BY <2>1 DEF WithMaps, Excepted
  <2> QED
    BY <2>2 DEF MovedOnce, MapsPending
<1>10. MigrationIsKnown' /\ RollbackIsExact'
  BY DEF MigrationIsKnown, RollbackIsExact
<1> QED
  BY <1>6, <1>7, <1>8, <1>9, <1>10

\* What leaves the lists of the standing devices, the audit rows and what is kept of removed ones alone.
LEMMA SameListsKeep ==
  ASSUME ListInv, Standing' \subseteq Standing, lastRow' = lastRow, renewed \subseteq renewed',
         \A c \in Standing' : child'[c].allow = child[c].allow /\ child'[c].deny = child[c].deny,
         \A c \in Tablet : definition'[c] # NoDefinition => definition'[c].deny \cap Needed = {}
  PROVE  NothingKeptBlocks' /\ TrailIsTrue'
<1>1. NothingKeptBlocks'
  BY DEF ListInv, NothingKeptBlocks, AlwaysOnStaysOpen
<1>2. TrailIsTrue'
  BY DEF ListInv, TrailIsTrue, ListsOf
<1> QED
  BY <1>1, <1>2

\* After a change nothing is claimed of the last migration.
LEMMA ChangedSince == migration' = "none" => MigrationIsKnown' /\ RollbackIsExact'
  BY DEF MigrationIsKnown, RollbackIsExact

\* Maps is not pending when it was not before and nothing of the data that makes it so has come in.
LEMMA StillMoved ==
  ASSUME MovedOnce, legacy' = legacy, house' = house, WithMaps' \subseteq WithMaps, Excepted' \subseteq Excepted
  PROVE  MovedOnce'
  BY DEF MovedOnce, MapsPending

LEMMA DomainsKeep ==
  ASSUME ListInv, NEW d \in Tablet, NEW kind \in {"allow", "deny"}, NEW h \in Host,
         AddDomain(d, kind, h) \/ RemoveDomain(d, kind, h)
  PROVE  ListInv'
<1>1. d \in Standing /\ child[d] \in TabletRow /\ ListsOf(d) \in Pair /\ ListsOf(d).deny \cap Needed = {}
  BY DEF AddDomain, RemoveDomain, Standing, ListInv, ListTypes, NothingKeptBlocks, AlwaysOnStaysOpen, ListsOf, Pair, TabletRow
<1>2. CASE AddDomain(d, kind, h)
  <2> DEFINE l == [ListsOf(d) EXCEPT ![kind] = @ \cup {h}, ![Other(kind)] = @ \ {h}]
  <2>1. l \in Pair /\ l.deny \cap Needed = {}
    <3>1. CASE kind = "allow"
      BY <1>1, <3>1 DEF Other, Pair, ListsOf
    <3>2. CASE kind = "deny"
      BY <1>1, <1>2, <3>2 DEF Other, Pair, ListsOf, AddDomain
    <3> QED
      BY <3>1, <3>2
  <2>2. /\ ListsBecome(d, l) /\ Audits(d, ListsOf(d), l) /\ migration' = "none"
        /\ UNCHANGED <<house, cutover, serving, mapsRow, definition, legacy, priorData>>
    BY <1>2 DEF AddDomain, Alters
  <2> QED
    BY <1>1, <2>1, <2>2, ListChangeKeeps
<1>3. CASE RemoveDomain(d, kind, h)
  <2> DEFINE l == [ListsOf(d) EXCEPT ![kind] = @ \ {h}]
  <2>1. l \in Pair /\ l.deny \cap Needed = {}
    BY <1>1 DEF Pair, ListsOf
  <2>2. /\ ListsBecome(d, l) /\ Audits(d, ListsOf(d), l) /\ migration' = "none"
        /\ UNCHANGED <<house, cutover, serving, mapsRow, definition, legacy, priorData>>
    BY <1>3 DEF RemoveDomain, Alters
  <2> QED
    BY <1>1, <2>1, <2>2, ListChangeKeeps
<1> QED
  BY <1>2, <1>3

LEMMA UndoDomainKeeps ==
  ASSUME ListInv, NEW d \in Tablet, UndoDomain(d)
  PROVE  ListInv'
<1>1. /\ d \in Standing /\ lastRow[d].before \in Pair /\ lastRow[d].after \in Pair
      /\ lastRow[d].before.deny \cap Needed = {} /\ lastRow[d].after.deny \cap Needed = {}
  BY DEF UndoDomain, ListInv, ListTypes, NothingKeptBlocks, AuditRow
<1>2. /\ ListsBecome(d, lastRow[d].before) /\ Audits(d, lastRow[d].after, lastRow[d].before)
      /\ migration' = "none"
      /\ UNCHANGED <<house, cutover, serving, mapsRow, definition, legacy, priorData>>
  BY DEF UndoDomain, Alters
<1> QED
  BY <1>1, <1>2, ListChangeKeeps

LEMMA CutoverKeeps ==
  ASSUME ListInv, NEW on \in BOOLEAN, SetCutover(on)
  PROVE  ListInv'
<1>1. /\ migration' = "none"
      /\ UNCHANGED <<child, house, serving, lastRow, mapsRow, definition, renewed, legacy, priorData>>
  BY DEF SetCutover, Alters
<1>2. ListTypes' /\ NothingKeptBlocks' /\ TrailIsTrue' /\ MovedOnce'
  BY <1>1 DEF ListInv, ListTypes, NothingKeptBlocks, AlwaysOnStaysOpen, TrailIsTrue, MovedOnce, Standing,
     ListsOf, MapsPending, WithMaps, Excepted
<1> QED
  BY <1>1, <1>2, ChangedSince DEF ListInv

LEMMA ImportKeeps ==
  ASSUME ListInv, NEW p \in Payloads, ImportPolicy(p)
  PROVE  ListInv'
<1> DEFINE Imported(d) == [allow |-> p.devices[d].allow, deny |-> p.devices[d].deny,
                           opens |-> p.devices[d].opens, exception |-> NoException]
<1>1. child' = [d \in Tablet |-> IF d \in DOMAIN p.devices THEN Imported(d) ELSE NoTablet]
  BY DEF ImportPolicy
<1>2. \A d \in DOMAIN p.devices :
        Imported(d) \in TabletRow /\ Imported(d).deny \cap Needed = {}
        /\ Imported(d).exception.status = "none" /\ Imported(d).opens = p.devices[d].opens
  BY PayloadsAreLists DEF ImportPolicy, TabletRow, Exception, NoException
<1> HIDE DEF Imported
<1>3. /\ renewed' = Tablet /\ migration' = "none" /\ UNCHANGED <<lastRow, mapsRow, definition>>
      /\ house' = p.house
      /\ legacy' = (\/ p.house.weekdays # {} \/ ~MapsHosts \subseteq p.house.always
                    \/ \E d \in DOMAIN p.devices : d \in Tablet /\ "maps" \in p.devices[d].opens)
  BY DEF ImportPolicy, Alters
<1>4. \A d \in Standing' : d \in Tablet /\ d \in DOMAIN p.devices /\ child'[d] = Imported(d)
  BY <1>1 DEF Standing
<1>5. ListTypes'
  <2>1. child' \in [Tablet -> {NoTablet} \cup TabletRow]
    BY <1>1, <1>2
  <2> QED
    BY <1>3, <2>1 DEF ListInv, ListTypes
<1>6. NothingKeptBlocks'
  BY <1>2, <1>3, <1>4 DEF ListInv, NothingKeptBlocks, AlwaysOnStaysOpen
<1>7. TrailIsTrue'
  BY <1>3 DEF TrailIsTrue, Standing
<1>8. MovedOnce'
  <2> SUFFICES ASSUME ~legacy' PROVE ~MapsPending'
    BY DEF MovedOnce
  <2>1. WithMaps' = {} /\ Excepted' = {}
    BY <1>2, <1>3, <1>4 DEF WithMaps, Excepted
  <2> QED
    BY <1>3, <2>1 DEF MapsPending
<1> QED
  BY <1>3, <1>5, <1>6, <1>7, <1>8, ChangedSince DEF ListInv

LEMMA StartKeeps ==
  ASSUME ListInv, StartNew
  PROVE  ListInv'
<1>1. CASE ~MapsPending /\ migration' = "none" /\ UNCHANGED <<child, house, mapsRow, legacy, priorData>>
  <2>1. UNCHANGED <<lastRow, definition, renewed>>
    BY DEF StartNew
  <2>2. ListTypes' /\ NothingKeptBlocks' /\ TrailIsTrue' /\ MovedOnce'
    BY <1>1, <2>1 DEF ListInv, ListTypes, NothingKeptBlocks, AlwaysOnStaysOpen, TrailIsTrue, MovedOnce,
       Standing, ListsOf, MapsPending, WithMaps, Excepted
  <2> QED
    BY <1>1, <2>2, ChangedSince DEF ListInv
<1>2. CASE MapsPending
  <2> DEFINE Without(d) == [child[d] EXCEPT !.opens = @ \ {"maps"},
                              !.exception.status = IF d \in Excepted THEN "cancelled" ELSE @]
  <2>1. /\ child' = [d \in Tablet |-> IF d \notin Standing THEN NoTablet ELSE Without(d)]
        /\ mapsRow' = [house |-> house, rules |-> [d \in WithMaps |-> child[d].opens], exceptions |-> Excepted]
        /\ house' = [always |-> house.always \cup house.weekdays \cup MapsHosts, weekdays |-> {}]
        /\ priorData' = [child |-> child, house |-> house]
    BY <1>2, Zenon DEF StartNew
  <2>2. UNCHANGED <<lastRow, definition, renewed>>
    BY DEF StartNew
  <2>3. \A d \in Standing :
          /\ child[d] \in TabletRow /\ Without(d) \in TabletRow
          /\ Without(d).allow = child[d].allow /\ Without(d).deny = child[d].deny
          /\ Without(d).opens = child[d].opens \ {"maps"}
          /\ Without(d).exception.runs = child[d].exception.runs
          /\ Without(d).exception.status # "active"
          /\ d \notin Excepted => Without(d).exception.status = child[d].exception.status
    <3> SUFFICES ASSUME NEW d \in Standing
                 PROVE  /\ child[d] \in TabletRow /\ Without(d) \in TabletRow
                        /\ Without(d).allow = child[d].allow /\ Without(d).deny = child[d].deny
                        /\ Without(d).opens = child[d].opens \ {"maps"}
                        /\ Without(d).exception.runs = child[d].exception.runs
                        /\ Without(d).exception.status # "active"
                        /\ d \notin Excepted => Without(d).exception.status = child[d].exception.status
      OBVIOUS
    <3>1. child[d] \in TabletRow
      BY DEF ListInv, ListTypes, Standing
    <3>2. (d \in Excepted) \in BOOLEAN /\ (d \in Excepted <=> child[d].exception.status = "active")
      BY DEF Excepted
    <3>3. CASE d \in Excepted
      BY <3>1, <3>3 DEF TabletRow, Exception
    <3>4. CASE d \notin Excepted
      BY <3>1, <3>2, <3>4 DEF TabletRow, Exception
    <3> QED
      BY <3>3, <3>4
  <2> HIDE DEF Without
  <2>4. \A d \in Standing' : d \in Standing /\ child'[d] = Without(d)
    BY <2>1 DEF Standing
  <2>5. ListTypes'
    <3>1. child' \in [Tablet -> {NoTablet} \cup TabletRow]
      BY <2>1, <2>3
    <3>2. \A d \in DOMAIN mapsRow'.rules : mapsRow'.rules[d] \in SUBSET Target
      BY <2>1, <2>3 DEF WithMaps, TabletRow
    <3> QED
      BY <2>2, <3>1, <3>2 DEF ListInv, ListTypes
  <2>6. NothingKeptBlocks' /\ TrailIsTrue'
    <3>1. \A c \in Tablet : definition'[c] # NoDefinition => definition'[c].deny \cap Needed = {}
      BY <2>2 DEF ListInv, NothingKeptBlocks
    <3> QED
      BY <2>2, <2>3, <2>4, <3>1, SameListsKeep
  <2>7. MovedOnce'
    <3>1. WithMaps' = {} /\ Excepted' = {}
      BY <2>3, <2>4 DEF WithMaps, Excepted
    <3>2. house'.weekdays = {} /\ MapsHosts \subseteq house'.always
      BY <2>1
    <3> QED
      BY <3>1, <3>2 DEF MovedOnce, MapsPending
  <2>8. MigrationIsKnown'
    <3>1. mapsRow'.house = priorData'.house
      BY <2>1
    <3>2. ASSUME NEW d \in Standing'
          PROVE  /\ priorData'.child[d] \in TabletRow
                 /\ child'[d].opens = priorData'.child[d].opens \ {"maps"}
                 /\ d \in DOMAIN mapsRow'.rules => mapsRow'.rules[d] = priorData'.child[d].opens
                 /\ d \notin DOMAIN mapsRow'.rules => "maps" \notin priorData'.child[d].opens
                 /\ d \in mapsRow'.exceptions => priorData'.child[d].exception.status = "active"
                 /\ child'[d].exception.runs =>
                      /\ priorData'.child[d].exception.runs = TRUE
                      /\ d \notin mapsRow'.exceptions =>
                           child'[d].exception.status = priorData'.child[d].exception.status
      <4>1. d \in Standing /\ child'[d] = Without(d) /\ priorData'.child[d] = child[d]
        BY <2>1, <2>4
      <4>2. mapsRow'.exceptions = Excepted /\ DOMAIN mapsRow'.rules = WithMaps
            /\ (d \in WithMaps => mapsRow'.rules[d] = child[d].opens)
        BY <2>1
      <4>3. (d \in WithMaps <=> "maps" \in child[d].opens) /\ (d \in Excepted <=> child[d].exception.status = "active")
        BY <4>1 DEF WithMaps, Excepted
      <4>4. child[d].exception.runs \in BOOLEAN
        BY <2>3, <4>1 DEF TabletRow, Exception
      <4> QED
        BY <2>3, <4>1, <4>2, <4>3, <4>4
    <3> QED
      BY <3>1, <3>2 DEF MigrationIsKnown
  <2>9. RollbackIsExact'
    <3>1. migration' = "fresh"
      BY <1>2, Zenon DEF StartNew
    <3> QED
      BY <3>1 DEF RollbackIsExact
  <2> QED
    BY <2>5, <2>6, <2>7, <2>8, <2>9 DEF ListInv
<1> QED
  BY <1>1, <1>2 DEF StartNew

LEMMA RevertKeeps ==
  ASSUME ListInv, Revert
  PROVE  ListInv'
<1>1. UNCHANGED <<lastRow, mapsRow, definition, renewed, priorData>>
  BY DEF Revert
<1>2. CASE RollbackMaps
  <2> DEFINE Back(d) == [child[d] EXCEPT
                  !.opens = IF d \in DOMAIN mapsRow.rules THEN mapsRow.rules[d] ELSE @,
                  !.exception.status = IF d \in mapsRow.exceptions /\ child[d].exception.runs THEN "active" ELSE @]
  <2>1. /\ mapsRow # NoRowYet /\ house' = mapsRow.house /\ legacy' = TRUE
        /\ child' = [d \in Tablet |-> IF d \notin Standing THEN NoTablet ELSE Back(d)]
        /\ migration' = IF migration = "fresh" THEN "reverted" ELSE "none"
    BY <1>2 DEF RollbackMaps
  <2>2. \A d \in Standing :
          /\ child[d] \in TabletRow /\ Back(d) \in TabletRow
          /\ Back(d).allow = child[d].allow /\ Back(d).deny = child[d].deny
          /\ d \in DOMAIN mapsRow.rules => Back(d).opens = mapsRow.rules[d]
          /\ d \notin DOMAIN mapsRow.rules => Back(d).opens = child[d].opens
          /\ Back(d).exception.runs = child[d].exception.runs
          /\ d \in mapsRow.exceptions /\ child[d].exception.runs = TRUE => Back(d).exception.status = "active"
          /\ d \notin mapsRow.exceptions => Back(d).exception.status = child[d].exception.status
    <3> SUFFICES ASSUME NEW d \in Standing
                 PROVE
          /\ child[d] \in TabletRow /\ Back(d) \in TabletRow
          /\ Back(d).allow = child[d].allow /\ Back(d).deny = child[d].deny
          /\ d \in DOMAIN mapsRow.rules => Back(d).opens = mapsRow.rules[d]
          /\ d \notin DOMAIN mapsRow.rules => Back(d).opens = child[d].opens
          /\ Back(d).exception.runs = child[d].exception.runs
          /\ d \in mapsRow.exceptions /\ child[d].exception.runs = TRUE => Back(d).exception.status = "active"
          /\ d \notin mapsRow.exceptions => Back(d).exception.status = child[d].exception.status
      OBVIOUS
    <3>1. child[d] \in TabletRow /\ (d \in DOMAIN mapsRow.rules => mapsRow.rules[d] \in SUBSET Target)
      BY <2>1 DEF ListInv, ListTypes, Standing
    <3> DEFINE o == IF d \in DOMAIN mapsRow.rules THEN mapsRow.rules[d] ELSE child[d].opens
               x == IF d \in mapsRow.exceptions /\ child[d].exception.runs THEN "active" ELSE child[d].exception.status
    <3>2. o \in SUBSET Target /\ x \in {"none", "active", "cancelled"}
          /\ (d \in DOMAIN mapsRow.rules => o = mapsRow.rules[d])
          /\ (d \notin DOMAIN mapsRow.rules => o = child[d].opens)
          /\ (d \in mapsRow.exceptions /\ child[d].exception.runs = TRUE => x = "active")
          /\ (d \notin mapsRow.exceptions => x = child[d].exception.status)
      BY <3>1 DEF TabletRow, Exception
    <3>3. Back(d) = [child[d] EXCEPT !.opens = o, !.exception.status = x]
      BY <3>1 DEF TabletRow, Exception
    <3> HIDE DEF o, x, Back
    <3>4. child[d].exception \in Exception /\ [child[d].exception EXCEPT !.status = x] \in Exception
      BY <3>1, <3>2 DEF TabletRow, Exception
    <3>5. Back(d) = [[child[d] EXCEPT !.opens = o] EXCEPT !.exception = [child[d].exception EXCEPT !.status = x]]
      BY <3>1, <3>3 DEF TabletRow
    <3>6. /\ Back(d) \in TabletRow /\ Back(d).allow = child[d].allow /\ Back(d).deny = child[d].deny
          /\ Back(d).opens = o /\ Back(d).exception = [child[d].exception EXCEPT !.status = x]
      BY <3>1, <3>2, <3>4, <3>5 DEF TabletRow
    <3>7. Back(d).exception.status = x /\ Back(d).exception.runs = child[d].exception.runs
      BY <3>4, <3>6 DEF Exception
    <3> QED
      BY <3>1, <3>2, <3>6, <3>7
  <2> HIDE DEF Back
  <2>3. \A d \in Standing' : d \in Standing /\ child'[d] = Back(d)
    BY <2>1 DEF Standing
  <2>4. ListTypes'
    <3>1. child' \in [Tablet -> {NoTablet} \cup TabletRow]
      BY <2>1, <2>2
    <3> QED
      BY <1>1, <3>1 DEF ListInv, ListTypes
  <2>5. NothingKeptBlocks' /\ TrailIsTrue'
    <3>1. \A c \in Tablet : definition'[c] # NoDefinition => definition'[c].deny \cap Needed = {}
      BY <1>1 DEF ListInv, NothingKeptBlocks
    <3> QED
      BY <1>1, <2>2, <2>3, <3>1, SameListsKeep
  <2>6. MovedOnce' /\ MigrationIsKnown'
    BY <2>1 DEF MovedOnce, MigrationIsKnown
  <2>7. RollbackIsExact'
    <3> SUFFICES ASSUME migration = "fresh" PROVE RollbackIsExact'
      BY <2>1 DEF RollbackIsExact
    <3>1. house' = priorData'.house
      BY <1>1, <2>1 DEF ListInv, MigrationIsKnown
    <3>2. ASSUME NEW d \in Tablet, child'[d] # NoTablet
          PROVE  /\ child'[d].opens = priorData'.child[d].opens
                 /\ child'[d].exception.runs => child'[d].exception = priorData'.child[d].exception
      <4>1. d \in Standing /\ child'[d] = Back(d) /\ priorData' = priorData
        BY <1>1, <2>3, <3>2 DEF Standing
      <4>2. child'[d].opens = priorData'.child[d].opens
        <5>1. CASE d \in DOMAIN mapsRow.rules
          BY <2>2, <4>1, <5>1 DEF ListInv, MigrationIsKnown
        <5>2. CASE d \notin DOMAIN mapsRow.rules
          <6>1. "maps" \notin priorData.child[d].opens /\ child[d].opens = priorData.child[d].opens \ {"maps"}
            BY <4>1, <5>2 DEF ListInv, MigrationIsKnown
          <6>2. child[d].opens = priorData.child[d].opens
            BY <6>1
          <6> QED
            BY <2>2, <4>1, <5>2, <6>2
        <5> QED
          BY <5>1, <5>2
      <4>3. ASSUME child'[d].exception.runs PROVE child'[d].exception = priorData'.child[d].exception
        <5>1. priorData.child[d] \in TabletRow /\ child'[d] \in TabletRow /\ child[d] \in TabletRow
          BY <2>2, <4>1 DEF ListInv, MigrationIsKnown
        <5>2. child[d].exception.runs = TRUE /\ child'[d].exception.runs = TRUE
          BY <2>2, <4>1, <4>3, <5>1 DEF TabletRow, Exception
        <5>3. priorData.child[d].exception.runs = TRUE
          BY <4>1, <5>2 DEF ListInv, MigrationIsKnown
        <5>4. child'[d].exception.status = priorData.child[d].exception.status
          BY <2>2, <4>1, <5>2 DEF ListInv, MigrationIsKnown
        <5> QED
          BY <4>1, <5>1, <5>2, <5>3, <5>4 DEF TabletRow, Exception
      <4> QED
        BY <4>2, <4>3
    <3> QED
      BY <3>1, <3>2 DEF RollbackIsExact
  <2> QED
    BY <2>4, <2>5, <2>6, <2>7 DEF ListInv
<1>3. CASE migration' = "none" /\ UNCHANGED <<child, house, legacy>>
  <2>1. ListTypes' /\ NothingKeptBlocks' /\ TrailIsTrue' /\ MovedOnce'
    BY <1>1, <1>3 DEF ListInv, ListTypes, NothingKeptBlocks, AlwaysOnStaysOpen, TrailIsTrue, MovedOnce,
       Standing, ListsOf, MapsPending, WithMaps, Excepted
  <2> QED
    BY <1>3, <2>1, ChangedSince DEF ListInv
<1> QED
  BY <1>2, <1>3 DEF Revert

\* A device that comes (anew, as a copy, or back) with lists that block nothing always on.
LEMMA ComesKeeps ==
  ASSUME ListInv, NEW d \in Tablet, NEW r \in TabletRow, r.deny \cap Needed = {},
         child' = [child EXCEPT ![d] = r], renewed' = renewed \cup {d}, migration' = "none",
         UNCHANGED <<house, lastRow, mapsRow>>,
         definition' \in [Tablet -> {NoDefinition} \cup TabletRow],
         \A c \in Tablet : definition'[c] # NoDefinition => definition'[c] = definition[c],
         ~legacy' => ~legacy /\ "maps" \notin r.opens /\ r.exception.status # "active"
  PROVE  ListInv'
<1>1. /\ child'[d] = r
      /\ \A c \in Standing' : c \in Tablet /\ (c # d => c \in Standing /\ child'[c] = child[c])
  BY DEF ListInv, ListTypes, Standing
<1>2. ListTypes'
  <2>1. child' \in [Tablet -> {NoTablet} \cup TabletRow]
    BY DEF ListInv, ListTypes
  <2> QED
    BY <2>1 DEF ListInv, ListTypes
<1>3. NothingKeptBlocks'
  BY <1>1 DEF ListInv, NothingKeptBlocks, AlwaysOnStaysOpen
<1>4. TrailIsTrue'
  <2> SUFFICES ASSUME NEW c \in Standing' \ renewed', lastRow'[c] # NoRowYet
               PROVE  ListsOf(c)' = lastRow'[c].after
    BY DEF TrailIsTrue
  <2>1. c \in Standing /\ c \notin renewed /\ child'[c] = child[c] /\ lastRow' = lastRow
    BY <1>1
  <2> QED
    BY <2>1 DEF ListInv, TrailIsTrue, ListsOf
<1>5. MovedOnce'
  <2> SUFFICES ASSUME ~legacy' PROVE ~MapsPending'
    BY DEF MovedOnce
  <2>1. WithMaps' \subseteq WithMaps /\ Excepted' \subseteq Excepted
    BY <1>1 DEF WithMaps, Excepted
  <2> QED
    BY <2>1 DEF ListInv, MovedOnce, MapsPending
<1> QED
  BY <1>2, <1>3, <1>4, <1>5, ChangedSince DEF ListInv

LEMMA AddTabletKeeps ==
  ASSUME ListInv, NEW d \in Tablet, NEW like \in Tablet \cup {NoTablet}, AddTablet(d, like)
  PROVE  ListInv'
<1>1. /\ renewed' = renewed \cup {d} /\ migration' = "none" /\ UNCHANGED <<house, lastRow, mapsRow, definition>>
      /\ legacy' = (legacy \/ "maps" \in child'[d].opens)
  BY DEF AddTablet, Alters
<1>2. PICK r \in TabletRow :
        child' = [child EXCEPT ![d] = r] /\ r.deny \cap Needed = {} /\ r.exception.status # "active"
  <2>1. CASE like = NoTablet
    <3>1. PICK o \in {{}, {"youtube"}} :
            child' = [child EXCEPT ![d] = [allow |-> {}, deny |-> {}, opens |-> o, exception |-> NoException]]
      BY <2>1 DEF AddTablet
    <3>2. [allow |-> {}, deny |-> {}, opens |-> o, exception |-> NoException] \in TabletRow
      BY DEF TabletRow, Exception, NoException, Target
    <3> QED
      BY <3>1, <3>2 DEF NoException
  <2>2. CASE like # NoTablet
    <3> DEFINE copy == [child[like] EXCEPT !.exception = NoException]
    <3>1. like \in Standing /\ child' = [child EXCEPT ![d] = copy]
      BY <2>2 DEF AddTablet
    <3>2. child[like] \in TabletRow /\ child[like].deny \cap Needed = {}
      BY <3>1 DEF ListInv, ListTypes, Standing, NothingKeptBlocks, AlwaysOnStaysOpen
    <3>3. NoException \in Exception /\ NoException.status = "none"
      BY DEF NoException, Exception
    <3>4. copy \in TabletRow /\ copy.deny = child[like].deny /\ copy.exception = NoException
      BY <3>2, <3>3 DEF TabletRow
    <3> QED
      BY <3>1, <3>2, <3>3, <3>4
  <2> QED
    BY <2>1, <2>2
<1>3. child'[d] = r
  BY <1>2 DEF ListInv, ListTypes
<1>4. definition' \in [Tablet -> {NoDefinition} \cup TabletRow]
  BY <1>1 DEF ListInv, ListTypes
<1> QED
  BY <1>1, <1>2, <1>3, <1>4, ComesKeeps

LEMMA RestoreTabletKeeps ==
  ASSUME ListInv, NEW d \in Tablet, RestoreTablet(d)
  PROVE  ListInv'
<1> DEFINE x == definition[d].exception
           revived == x.status = "active" /\ x.runs
           r == [definition[d] EXCEPT !.exception = IF revived THEN x ELSE NoException]
<1>1. /\ child' = [child EXCEPT ![d] = r] /\ renewed' = renewed \cup {d} /\ migration' = "none"
      /\ legacy' = (legacy \/ revived \/ "maps" \in definition[d].opens)
      /\ definition' = [definition EXCEPT ![d] = NoDefinition] /\ UNCHANGED <<house, lastRow, mapsRow>>
  BY DEF RestoreTablet, Alters
<1>2. definition[d] \in TabletRow /\ definition[d].deny \cap Needed = {}
  BY DEF RestoreTablet, ListInv, ListTypes, NothingKeptBlocks
<1>3. NoException \in Exception /\ NoException.status = "none" /\ x \in Exception
  BY <1>2 DEF NoException, Exception, TabletRow
<1>4. /\ r \in TabletRow /\ r.deny = definition[d].deny /\ r.opens = definition[d].opens
      /\ ~revived => r.exception = NoException
  <2>1. CASE revived
    BY <1>2, <1>3, <2>1 DEF TabletRow
  <2>2. CASE ~revived
    BY <1>2, <1>3, <2>2 DEF TabletRow
  <2> QED
    BY <2>1, <2>2
<1>5. /\ definition' \in [Tablet -> {NoDefinition} \cup TabletRow]
      /\ \A c \in Tablet : definition'[c] # NoDefinition => definition'[c] = definition[c]
  BY <1>1 DEF ListInv, ListTypes
<1>6. ~legacy' => ~legacy /\ "maps" \notin r.opens /\ r.exception.status # "active"
  BY <1>1, <1>3, <1>4
<1> HIDE DEF x, revived, r
<1> QED
  BY <1>1, <1>2, <1>4, <1>5, <1>6, ComesKeeps

LEMMA RemoveTabletKeeps ==
  ASSUME ListInv, NEW d \in Tablet, RemoveTablet(d)
  PROVE  ListInv'
<1>1. /\ d \in Standing /\ child' = [child EXCEPT ![d] = NoTablet] /\ definition' = [definition EXCEPT ![d] = child[d]]
      /\ UNCHANGED <<house, lastRow, mapsRow, renewed, legacy>> /\ migration' = "none"
  BY DEF RemoveTablet, Alters
<1>2. child[d] \in TabletRow /\ child[d].deny \cap Needed = {}
  BY <1>1 DEF ListInv, ListTypes, NothingKeptBlocks, AlwaysOnStaysOpen, Standing
<1>3. \A c \in Standing' : c \in Standing /\ child'[c] = child[c]
  BY <1>1 DEF ListInv, ListTypes, Standing
<1>4. ListTypes'
  <2>1. child' \in [Tablet -> {NoTablet} \cup TabletRow]
    BY <1>1 DEF ListInv, ListTypes
  <2>2. definition' \in [Tablet -> {NoDefinition} \cup TabletRow]
    BY <1>1, <1>2 DEF ListInv, ListTypes
  <2> QED
    BY <1>1, <2>1, <2>2 DEF ListInv, ListTypes
<1>5. NothingKeptBlocks' /\ TrailIsTrue'
  <2>1. \A c \in Tablet : definition'[c] # NoDefinition => definition'[c].deny \cap Needed = {}
    BY <1>1, <1>2 DEF ListInv, ListTypes, NothingKeptBlocks
  <2> QED
    BY <1>1, <1>3, <2>1, SameListsKeep
<1>6. MovedOnce'
  <2>1. WithMaps' \subseteq WithMaps /\ Excepted' \subseteq Excepted
    BY <1>3 DEF WithMaps, Excepted
  <2> QED
    BY <1>1, <2>1, StillMoved DEF ListInv
<1> QED
  BY <1>1, <1>4, <1>5, <1>6, ChangedSince DEF ListInv

LEMMA EditWindowsKeeps ==
  ASSUME ListInv, NEW d \in Tablet, NEW o \in {{}, {"youtube"}, {"maps"}}, EditWindows(d, o)
  PROVE  ListInv'
<1>1. /\ d \in Standing /\ child' = [child EXCEPT ![d].opens = o] /\ legacy' = (legacy \/ "maps" \in o)
      /\ UNCHANGED <<house, lastRow, mapsRow, definition, renewed>> /\ migration' = "none"
  BY DEF EditWindows, Alters
<1>2. child[d] \in TabletRow /\ o \in SUBSET Target
  BY <1>1 DEF ListInv, ListTypes, Standing, Target
<1>3. /\ child'[d] \in TabletRow /\ child'[d].allow = child[d].allow /\ child'[d].deny = child[d].deny
      /\ child'[d].opens = o /\ child'[d].exception = child[d].exception
  BY <1>1, <1>2 DEF ListInv, ListTypes, TabletRow
<1>4. \A c \in Standing' : c \in Standing /\ (c # d => child'[c] = child[c])
  BY <1>1 DEF ListInv, ListTypes, Standing
<1>5. ListTypes'
  <2>1. child' \in [Tablet -> {NoTablet} \cup TabletRow]
    BY <1>1, <1>3 DEF ListInv, ListTypes
  <2> QED
    BY <1>1, <2>1 DEF ListInv, ListTypes
<1>6. NothingKeptBlocks' /\ TrailIsTrue'
  <2>1. \A c \in Tablet : definition'[c] # NoDefinition => definition'[c].deny \cap Needed = {}
    BY <1>1 DEF ListInv, NothingKeptBlocks
  <2> QED
    BY <1>1, <1>3, <1>4, <2>1, SameListsKeep
<1>7. MovedOnce'
  <2> SUFFICES ASSUME ~legacy' PROVE ~MapsPending'
    BY DEF MovedOnce
  <2>1. WithMaps' \subseteq WithMaps /\ Excepted' \subseteq Excepted
    BY <1>1, <1>3, <1>4 DEF WithMaps, Excepted
  <2> QED
    BY <1>1, <2>1 DEF ListInv, MovedOnce, MapsPending
<1> QED
  BY <1>1, <1>5, <1>6, <1>7, ChangedSince DEF ListInv

LEMMA ForgetTabletKeeps ==
  ASSUME ListInv, NEW d \in Tablet, ForgetTablet(d)
  PROVE  ListInv'
<1>1. /\ definition' = [definition EXCEPT ![d] = NoDefinition]
      /\ UNCHANGED <<child, house, lastRow, mapsRow, renewed, legacy, migration, priorData>>
  BY DEF ForgetTablet
<1>2. ListTypes' /\ NothingKeptBlocks'
  BY <1>1 DEF ListInv, ListTypes, NothingKeptBlocks, AlwaysOnStaysOpen, Standing
<1>3. TrailIsTrue' /\ MovedOnce'
  BY <1>1 DEF ListInv, TrailIsTrue, MovedOnce, Standing, ListsOf, MapsPending, WithMaps, Excepted
<1>4. MigrationIsKnown'
  BY <1>1 DEF ListInv, MigrationIsKnown, Standing
<1>5. RollbackIsExact'
  BY <1>1 DEF ListInv, RollbackIsExact
<1> QED
  BY <1>2, <1>3, <1>4, <1>5 DEF ListInv

LEMMA ExceptionEndsKeeps ==
  ASSUME ListInv, NEW d \in Tablet, ExceptionEnds(d)
  PROVE  ListInv'
<1>1. UNCHANGED <<house, lastRow, mapsRow, renewed, legacy, migration, priorData>>
  BY DEF ExceptionEnds
<1>2. \A r \in TabletRow :
        LET over == [r EXCEPT !.exception.runs = FALSE]
        IN /\ over \in TabletRow /\ over.allow = r.allow /\ over.deny = r.deny /\ over.opens = r.opens
           /\ over.exception.runs = FALSE /\ over.exception.status = r.exception.status
  <2> SUFFICES ASSUME NEW r \in TabletRow
               PROVE  LET over == [r EXCEPT !.exception.runs = FALSE]
                      IN /\ over \in TabletRow /\ over.allow = r.allow /\ over.deny = r.deny /\ over.opens = r.opens
                         /\ over.exception.runs = FALSE /\ over.exception.status = r.exception.status
    OBVIOUS
  <2>1. r.exception \in Exception /\ [r.exception EXCEPT !.runs = FALSE] \in Exception
    BY DEF TabletRow, Exception
  <2> QED
    BY <2>1 DEF TabletRow, Exception
<1>3. CASE d \in Standing /\ child' = [child EXCEPT ![d].exception.runs = FALSE] /\ UNCHANGED definition
  <2>1. child[d] \in TabletRow
    BY <1>3 DEF ListInv, ListTypes, Standing
  <2>2. child'[d] = [child[d] EXCEPT !.exception.runs = FALSE]
    BY <1>3 DEF ListInv, ListTypes, Standing
  <2>3. /\ child'[d] \in TabletRow /\ child'[d].allow = child[d].allow /\ child'[d].deny = child[d].deny
        /\ child'[d].opens = child[d].opens /\ child'[d].exception.runs = FALSE
        /\ child'[d].exception.status = child[d].exception.status
    BY <1>2, <2>1, <2>2
  <2>4. \A c \in Standing' : c \in Standing /\ (c # d => child'[c] = child[c])
    BY <1>3 DEF ListInv, ListTypes, Standing
  <2>5. child' = [child EXCEPT ![d] = child'[d]]
    BY <1>3 DEF ListInv, ListTypes, Standing
  <2>6. ListTypes'
    <3>1. child' \in [Tablet -> {NoTablet} \cup TabletRow]
      BY <2>3, <2>5 DEF ListInv, ListTypes
    <3> QED
      BY <1>1, <1>3, <3>1 DEF ListInv, ListTypes
  <2>7. NothingKeptBlocks' /\ TrailIsTrue'
    <3>1. \A c \in Tablet : definition'[c] # NoDefinition => definition'[c].deny \cap Needed = {}
      BY <1>3 DEF ListInv, NothingKeptBlocks
    <3> QED
      BY <1>1, <2>3, <2>4, <3>1, SameListsKeep
  <2>8. MovedOnce'
    <3>1. WithMaps' \subseteq WithMaps /\ Excepted' \subseteq Excepted
      BY <2>3, <2>4 DEF WithMaps, Excepted
    <3> QED
      BY <1>1, <3>1, StillMoved DEF ListInv
  <2>9. MigrationIsKnown'
    BY <1>1, <2>3, <2>4 DEF ListInv, MigrationIsKnown
  <2>10. RollbackIsExact'
    <3>1. \A c \in Tablet : child'[c] # NoTablet => c \in Standing'
      BY DEF Standing
    <3>2. \A c \in Standing : c \in Tablet /\ child[c] # NoTablet
      BY DEF Standing
    <3> QED
      BY <1>1, <2>3, <2>4, <3>1, <3>2 DEF ListInv, RollbackIsExact
  <2> QED
    BY <2>6, <2>7, <2>8, <2>9, <2>10 DEF ListInv
<1>4. CASE definition[d] # NoDefinition /\ definition' = [definition EXCEPT ![d].exception.runs = FALSE] /\ UNCHANGED child
  <2>1. definition[d] \in TabletRow /\ definition'[d] = [definition[d] EXCEPT !.exception.runs = FALSE]
    BY <1>4 DEF ListInv, ListTypes
  <2>2. definition'[d] \in TabletRow /\ definition'[d].deny = definition[d].deny
    BY <1>2, <2>1
  <2>3. definition' = [definition EXCEPT ![d] = definition'[d]]
    BY <1>4 DEF ListInv, ListTypes
  <2>4. ListTypes'
    <3>1. definition' \in [Tablet -> {NoDefinition} \cup TabletRow]
      BY <2>2, <2>3 DEF ListInv, ListTypes
    <3> QED
      BY <1>1, <1>4, <3>1 DEF ListInv, ListTypes
  <2>5. NothingKeptBlocks' /\ TrailIsTrue'
    <3>1. \A c \in Tablet : definition'[c] # NoDefinition => definition'[c].deny \cap Needed = {}
      BY <1>4, <2>2, <2>3 DEF ListInv, ListTypes, NothingKeptBlocks
    <3>2. Standing' = Standing
      BY <1>4 DEF Standing
    <3> QED
      BY <1>1, <1>4, <3>1, <3>2, SameListsKeep
  <2>6. MovedOnce' /\ MigrationIsKnown' /\ RollbackIsExact'
    BY <1>1, <1>4 DEF ListInv, MovedOnce, MapsPending, WithMaps, Excepted, Standing, MigrationIsKnown, RollbackIsExact
  <2> QED
    BY <2>4, <2>5, <2>6 DEF ListInv
<1> QED
  BY <1>3, <1>4 DEF ExceptionEnds

LEMMA ListInvStays == ListInv /\ [ListNext]_listVars => ListInv'
<1> SUFFICES ASSUME ListInv, [ListNext]_listVars PROVE ListInv'
  OBVIOUS
<1>1. CASE UNCHANGED listVars
  BY <1>1 DEF listVars, ListInv, ListTypes, NothingKeptBlocks, AlwaysOnStaysOpen, TrailIsTrue, MovedOnce,
     MigrationIsKnown, RollbackIsExact, Standing, ListsOf, MapsPending, WithMaps, Excepted
<1>2. CASE ListNext
  BY <1>2, DomainsKeep, UndoDomainKeeps, CutoverKeeps, ImportKeeps, StartKeeps, RevertKeeps, AddTabletKeeps,
     RestoreTabletKeeps, RemoveTabletKeeps, EditWindowsKeeps, ForgetTabletKeeps, ExceptionEndsKeeps, Zenon
     DEF ListNext
<1> QED
  BY <1>1, <1>2

\* Whatever parents, imports, migrations, roll-backs and removals do in whatever order (sched/child_store.py,
\* tools/live_maps.py): no deny rule hits an always-on host, also not after an undo or a restore; the lists
\* are what the last audit row says; Maps moves once; and a roll-back brings back what the move found.
THEOREM ListsHoldTogether == PortalSpec => []ListsHold
<1> DEFINE Inv == part = "childLists" => ListInv
<1>1. PortalInit => Inv
  BY PartStarts, ListStarts
<1>2. Inv /\ [PortalNext]_portalVars => Inv'
  BY PartMoves, ListInvStays
<1>3. Inv => ListsHold
  BY DEF ListsHold, ListsSafe, ListInv, NothingKeptBlocks
<1> QED
  BY <1>1, <1>2, <1>3, PTL DEF PortalSpec


-----------------------------------------------------------------------------
(* Vacuums: a robot, its plans, the requests of people and the guard.      *)

RobotState == {"docked", "station", "cleaning", "paused", "returning"}
Event == ({"robot"} \X RobotState) \cup ({"script"} \X BOOLEAN)

\* What the events tell, from the cache's state to the latest one: the robot's states and the script's.
Tells(ev, rr, ss, k) ==
  \/ /\ ev[k][1] = "robot" /\ rr[k + 1] = ev[k][2] /\ ss[k + 1] = ss[k]
     /\ ev[k][2] \in {"docked", "station"} => rr[k] \in {"returning", "station"}
  \/ /\ ev[k][1] = "script" /\ rr[k + 1] = rr[k] /\ ss[k + 1] = ev[k][2] /\ ss[k] # ev[k][2]

\* Nothing changes without its event, and nobody gets home from cleaning with fewer than two.
Between(ev, rr, ss, i, j) ==
  /\ rr[i] # rr[j] => \E a \in i..(j - 1) : ev[a][1] = "robot"
  /\ rr[i] = "cleaning" /\ rr[j] \in {"docked", "station"} =>
       \E a, b \in i..(j - 1) : a < b /\ ev[a][1] = "robot" /\ ev[b][1] = "robot"
  /\ ss[i] # ss[j] => \E a \in i..(j - 1) : ev[a][1] = "script" /\ ev[a][2] = ss[j]

Story(ev, rr, ss) ==
  /\ ev \in Seq(Event)
  /\ rr \in [1..(Len(ev) + 1) -> RobotState] /\ ss \in [1..(Len(ev) + 1) -> BOOLEAN]
  /\ \A k \in 1..Len(ev) : Tells(ev, rr, ss, k)
  /\ \A i, j \in 1..(Len(ev) + 1) : i <= j => Between(ev, rr, ss, i, j)

LEMMA EventFields ==
  ASSUME NEW e \in Event
  PROVE  \/ e[1] = "robot" /\ e[2] \in RobotState /\ e = <<"robot", e[2]>>
         \/ e[1] = "script" /\ e[2] \in BOOLEAN /\ e = <<"script", e[2]>>
  BY DEF Event

LEMMA StoryStarts ==
  ASSUME NEW r \in RobotState, NEW b \in BOOLEAN
  PROVE  Story(<<>>, [k \in 1..1 |-> r], [k \in 1..1 |-> b])
<1> DEFINE rr == [k \in 1..1 |-> r]
           ss == [k \in 1..1 |-> b]
<1>1. <<>> \in Seq(Event) /\ Len(<<>>) = 0
  OBVIOUS
<1>2. \A i, j \in 1..1 : rr[i] = rr[j] /\ ss[i] = ss[j] /\ rr[i] = rr[j]
  BY Zenon
<1>3. rr \in [1..1 -> RobotState] /\ ss \in [1..1 -> BOOLEAN]
  OBVIOUS
<1>4. \A i, j \in 1..1 : Between(<<>>, rr, ss, i, j)
  <2> HIDE DEF rr, ss
  <2> QED
    BY <1>2 DEF Between
<1> HIDE DEF rr, ss
<1>5. Story(<<>>, rr, ss)
  BY <1>1, <1>3, <1>4 DEF Story
<1> QED
  BY <1>5 DEF rr, ss

LEMMA StoryGoesOn ==
  ASSUME NEW ev, NEW rr, NEW ss, Story(ev, rr, ss), ev # <<>>,
         NEW r2, r2 = [k \in 1..Len(ev) |-> rr[k + 1]], NEW s2, s2 = [k \in 1..Len(ev) |-> ss[k + 1]]
  PROVE  /\ Story(Tail(ev), r2, s2) /\ Len(Tail(ev)) = Len(ev) - 1 /\ Len(ev) \in Nat \ {0}
         /\ \A k \in 1..Len(Tail(ev)) : Tail(ev)[k] = ev[k + 1]
<1> DEFINE n == Len(ev)
           tl == Tail(ev)
<1>1. n \in Nat \ {0} /\ tl \in Seq(Event) /\ Len(tl) = n - 1 /\ \A k \in 1..Len(tl) : tl[k] = ev[k + 1]
  BY HeadTailProperties, EmptySeq, LenProperties DEF Story
<1>2. r2 \in [1..n -> RobotState] /\ s2 \in [1..n -> BOOLEAN]
  BY <1>1 DEF Story
<1> HIDE DEF n, tl
<1>3. ASSUME NEW k \in 1..Len(tl) PROVE Tells(tl, r2, s2, k)
  <2>1. Tells(ev, rr, ss, k + 1)
    BY <1>1 DEF Story, n
  <2>2. tl[k] = ev[k + 1] /\ r2[k] = rr[k + 1] /\ s2[k] = ss[k + 1] /\ r2[k + 1] = rr[k + 1 + 1] /\ s2[k + 1] = ss[k + 1 + 1]
    BY <1>1 DEF n
  <2> QED
    BY <2>1, <2>2 DEF Tells
<1>4. ASSUME NEW i \in 1..n, NEW j \in 1..n, i <= j PROVE Between(tl, r2, s2, i, j)
  <2>1. Between(ev, rr, ss, i + 1, j + 1)
    <3>1. i + 1 \in 1..(Len(ev) + 1) /\ j + 1 \in 1..(Len(ev) + 1) /\ i + 1 <= j + 1
      BY <1>1, <1>4 DEF n
    <3> QED
      BY <3>1, Zenon DEF Story
  <2>2. r2[i] = rr[i + 1] /\ r2[j] = rr[j + 1] /\ s2[i] = ss[i + 1] /\ s2[j] = ss[j + 1]
    BY DEF n
  <2>3. ASSUME NEW a \in (i + 1)..(j + 1 - 1) PROVE a - 1 \in i..(j - 1) /\ tl[a - 1] = ev[a]
    BY <1>1
  <2>4. rr[i + 1] # rr[j + 1] => \E a \in i..(j - 1) : tl[a][1] = "robot"
    <3> SUFFICES ASSUME rr[i + 1] # rr[j + 1] PROVE \E a \in i..(j - 1) : tl[a][1] = "robot"
      OBVIOUS
    <3>1. PICK a \in (i + 1)..(j + 1 - 1) : ev[a][1] = "robot"
      BY <2>1 DEF Between
    <3> QED
      BY <2>3, <3>1, Zenon
  <2>5. ss[i + 1] # ss[j + 1] => \E a \in i..(j - 1) : tl[a][1] = "script" /\ tl[a][2] = ss[j + 1]
    <3> SUFFICES ASSUME ss[i + 1] # ss[j + 1] PROVE \E a \in i..(j - 1) : tl[a][1] = "script" /\ tl[a][2] = ss[j + 1]
      OBVIOUS
    <3>1. PICK a \in (i + 1)..(j + 1 - 1) : ev[a][1] = "script" /\ ev[a][2] = ss[j + 1]
      BY <2>1 DEF Between
    <3> QED
      BY <2>3, <3>1
  <2>6. rr[i + 1] = "cleaning" /\ rr[j + 1] \in {"docked", "station"} =>
          \E a, b \in i..(j - 1) : a < b /\ tl[a][1] = "robot" /\ tl[b][1] = "robot"
    <3> SUFFICES ASSUME rr[i + 1] = "cleaning", rr[j + 1] \in {"docked", "station"}
                 PROVE  \E a, b \in i..(j - 1) : a < b /\ tl[a][1] = "robot" /\ tl[b][1] = "robot"
      OBVIOUS
    <3>1. PICK a, b \in (i + 1)..(j + 1 - 1) : a < b /\ ev[a][1] = "robot" /\ ev[b][1] = "robot"
      BY <2>1 DEF Between
    <3>2. a - 1 < b - 1
      BY <3>1
    <3> QED
      BY <2>3, <3>1, <3>2, Zenon
  <2> QED
    BY <2>2, <2>4, <2>5, <2>6, Zenon DEF Between
<1>5. n = Len(tl) + 1
  BY <1>1
<1> QED
  BY <1>1, <1>2, <1>3, <1>4, <1>5, Zenon DEF Story, n, tl

LEMMA StoryGrows ==
  ASSUME NEW ev, NEW rr, NEW ss, Story(ev, rr, ss), NEW e \in Event, NEW n, n = Len(ev) + 1,
         NEW r2, r2 = [k \in 1..(n + 1) |-> IF k <= n THEN rr[k] ELSE IF e[1] = "robot" THEN e[2] ELSE rr[n]],
         NEW s2, s2 = [k \in 1..(n + 1) |-> IF k <= n THEN ss[k] ELSE IF e[1] = "script" THEN e[2] ELSE ss[n]],
         e[1] = "robot" /\ e[2] \in {"docked", "station"} => rr[n] \in {"returning", "station"},
         e[1] = "script" => ss[n] # e[2]
  PROVE  /\ Story(Append(ev, e), r2, s2) /\ Len(Append(ev, e)) = n /\ n \in Nat \ {0} /\ Append(ev, e)[n] = e
         /\ \A k \in 1..Len(ev) : Append(ev, e)[k] = ev[k]
         /\ \A k \in 1..n : r2[k] = rr[k] /\ s2[k] = ss[k]
<1> DEFINE ap == Append(ev, e)
<1>1. n \in Nat \ {0} /\ ap \in Seq(Event) /\ Len(ap) = n /\ ap[n] = e /\ \A k \in 1..(n - 1) : ap[k] = ev[k]
  BY AppendProperties, LenProperties DEF Story
<1>2. /\ \A k \in 1..n : r2[k] = rr[k] /\ s2[k] = ss[k]
      /\ r2[n + 1] = (IF e[1] = "robot" THEN e[2] ELSE rr[n])
      /\ s2[n + 1] = (IF e[1] = "script" THEN e[2] ELSE ss[n])
  BY <1>1
<1>3. rr \in [1..n -> RobotState] /\ ss \in [1..n -> BOOLEAN] /\ n - 1 = Len(ev)
  BY <1>1 DEF Story
<1>4. r2 \in [1..(n + 1) -> RobotState]
  <2>1. \A k \in 1..(n + 1) : (IF k <= n THEN rr[k] ELSE IF e[1] = "robot" THEN e[2] ELSE rr[n]) \in RobotState
    BY <1>1, <1>3, EventFields
  <2> QED
    BY <2>1
<1>5. s2 \in [1..(n + 1) -> BOOLEAN]
  <2>1. \A k \in 1..(n + 1) : (IF k <= n THEN ss[k] ELSE IF e[1] = "script" THEN e[2] ELSE ss[n]) \in BOOLEAN
    <3> TAKE k \in 1..(n + 1)
    <3>1. CASE k <= n
      BY <1>1, <1>3, <3>1
    <3>2. CASE ~(k <= n) /\ e[1] = "script"
      BY <3>2, EventFields
    <3>3. CASE ~(k <= n) /\ e[1] # "script"
      BY <1>1, <1>3, <3>3
    <3> QED
      BY <3>1, <3>2, <3>3
  <2> QED
    BY <2>1, Zenon
<1> HIDE DEF ap
<1>6. \A k \in 1..(n - 1) : Tells(ap, r2, s2, k)
  <2> TAKE k \in 1..(n - 1)
  <2>1. Tells(ev, rr, ss, k) /\ ap[k] = ev[k]
    BY <1>1, <1>3 DEF Story
  <2>2. k \in 1..n /\ k + 1 \in 1..n
    BY <1>1
  <2>3. r2[k] = rr[k] /\ s2[k] = ss[k] /\ r2[k + 1] = rr[k + 1] /\ s2[k + 1] = ss[k + 1]
    BY <1>2, <2>2
  <2> QED
    BY <2>1, <2>3 DEF Tells
<1>7. Tells(ap, r2, s2, n)
  <2>1. CASE e[1] = "robot"
    BY <1>1, <1>2, <2>1 DEF Tells
  <2>2. CASE e[1] = "script"
    BY <1>1, <1>2, <2>2 DEF Tells
  <2> QED
    BY <2>1, <2>2, EventFields
<1>8. ASSUME NEW i \in 1..n, NEW j \in 1..n, i <= j PROVE Between(ap, r2, s2, i, j) /\ Between(ev, rr, ss, i, j)
  <2>1. Between(ev, rr, ss, i, j)
    BY <1>1, <1>3, <1>8 DEF Story
  <2>2. r2[i] = rr[i] /\ r2[j] = rr[j] /\ s2[i] = ss[i] /\ s2[j] = ss[j]
    BY <1>2
  <2>3. \A a \in i..(j - 1) : ap[a] = ev[a]
    BY <1>1
  <2> QED
    BY <2>1, <2>2, <2>3 DEF Between
<1>9. ASSUME NEW i \in 1..n PROVE Between(ap, r2, s2, i, n + 1)
  <2>1. Between(ap, r2, s2, i, n)
    BY <1>1, <1>8
  <2>2. /\ \A a \in i..(n - 1) : a \in i..(n + 1 - 1) /\ a < n
        /\ n \in i..(n + 1 - 1)
    BY <1>1
  <2>3. r2[n] \in RobotState /\ r2[n + 1] \in RobotState
    BY <1>1, <1>4
  <2>4. r2[i] # r2[n + 1] => \E a \in i..(n + 1 - 1) : ap[a][1] = "robot"
    <3>1. CASE e[1] = "robot"
      BY <1>1, <2>2, <3>1
    <3>2. CASE e[1] # "robot"
      BY <1>1, <1>2, <2>1, <2>2, <3>2 DEF Between
    <3> QED
      BY <3>1, <3>2
  <2>5. s2[i] # s2[n + 1] => \E a \in i..(n + 1 - 1) : ap[a][1] = "script" /\ ap[a][2] = s2[n + 1]
    <3>1. CASE e[1] = "script"
      BY <1>1, <1>2, <2>2, <3>1
    <3>2. CASE e[1] # "script"
      BY <1>1, <1>2, <2>1, <2>2, <3>2 DEF Between
    <3> QED
      BY <3>1, <3>2, Zenon
  <2>6. r2[i] = "cleaning" /\ r2[n + 1] \in {"docked", "station"} =>
          \E a, b \in i..(n + 1 - 1) : a < b /\ ap[a][1] = "robot" /\ ap[b][1] = "robot"
    <3> SUFFICES ASSUME r2[i] = "cleaning", r2[n + 1] \in {"docked", "station"}
                 PROVE  \E a, b \in i..(n + 1 - 1) : a < b /\ ap[a][1] = "robot" /\ ap[b][1] = "robot"
      OBVIOUS
    <3>1. CASE r2[n] \in {"docked", "station"}
      BY <2>1, <2>2, <3>1 DEF Between
    <3>2. CASE r2[n] \notin {"docked", "station"}
      <4>1. e[1] = "robot" /\ r2[n] = "returning"
        BY <1>1, <1>2, <3>2
      <4>2. PICK a \in i..(n - 1) : ap[a][1] = "robot"
        BY <2>1, <4>1 DEF Between
      <4>3. ap[n][1] = "robot" /\ a < n
        BY <1>1, <2>2, <4>1
      <4> QED
        BY <2>2, <4>2, <4>3
    <3> QED
      BY <3>1, <3>2
  <2> QED
    BY <2>4, <2>5, <2>6 DEF Between
<1>10. Between(ap, r2, s2, n + 1, n + 1)
  BY <1>4 DEF Between, RobotState
<1>11. \A i, j \in 1..(n + 1) : i <= j => Between(ap, r2, s2, i, j)
  <2> TAKE i, j \in 1..(n + 1)
  <2> HAVE i <= j
  <2>1. \/ i \in 1..n /\ j \in 1..n
        \/ i \in 1..n /\ j = n + 1
        \/ i = n + 1 /\ j = n + 1
    BY <1>1
  <2> QED
    BY <1>8, <1>9, <1>10, <2>1
<1>12. \A k \in 1..n : Tells(ap, r2, s2, k)
  <2> TAKE k \in 1..n
  <2>1. k \in 1..(n - 1) \/ k = n
    BY <1>1
  <2> QED
    BY <1>6, <1>7, <2>1
<1>13. Story(ap, r2, s2)
  BY <1>1, <1>4, <1>5, <1>11, <1>12, Zenon DEF Story
<1> QED
  BY <1>1, <1>2, <1>3, <1>13 DEF ap

\* What the events tell of the script.
NoScript(ev) == \A i \in 1..Len(ev) : ev[i][1] # "script"
LastScript(ev, i, b) ==
  /\ i \in 1..Len(ev) /\ ev[i][1] = "script" /\ ev[i][2] = b
  /\ \A j \in 1..Len(ev) : j > i => ev[j][1] # "script"
Heard(ev, known, b) == (NoScript(ev) /\ known = b) \/ \E i \in 1..Len(ev) : LastScript(ev, i, b)
OnlyOff(ev) == \A i \in 1..Len(ev) : ev[i][1] = "script" => ev[i][2] = FALSE

\* The cache has or gets the plan, with the robot setting off from home only after the plan.
SetsOffLater(ev, rr, known) ==
  \/ NoScript(ev) /\ known = TRUE
  \/ \E i, j \in 1..Len(ev) : i < j /\ LastScript(ev, i, TRUE) /\ ev[j][1] = "robot" /\ VState(rr[j]) = "docked"

\* The events and states of a step that adds the event e.
EventAdded(ev, ev2, rr, r2, e) ==
  /\ Len(ev) \in Nat /\ Len(ev2) = Len(ev) + 1 /\ ev2[Len(ev) + 1] = e
  /\ \A k \in 1..Len(ev) : ev2[k] = ev[k]
  /\ \A k \in 1..(Len(ev) + 1) : r2[k] = rr[k]

LEMMA RobotEventAdded ==
  ASSUME NEW ev, NEW ev2, NEW rr, NEW r2, NEW e, EventAdded(ev, ev2, rr, r2, e), e[1] = "robot", NEW known
  PROVE  /\ NoScript(ev) => NoScript(ev2)
         /\ \A i, b : LastScript(ev, i, b) => LastScript(ev2, i, b) /\ r2[i] = rr[i]
         /\ OnlyOff(ev) => OnlyOff(ev2)
         /\ SetsOffLater(ev, rr, known) => SetsOffLater(ev2, r2, known)
         /\ Heard(ev, known, TRUE) /\ VState(rr[Len(ev) + 1]) = "docked" => SetsOffLater(ev2, r2, known)
<1> DEFINE n == Len(ev) + 1
<1>1. n \in Nat /\ n \in 1..Len(ev2) /\ ev2[n][1] = "robot" /\ (\A k \in 1..Len(ev2) : k \in 1..Len(ev) \/ k = n)
      /\ (\A k \in 1..Len(ev) : k \in 1..Len(ev2) /\ k < n)
  BY DEF EventAdded
<1>2. /\ \A k \in 1..Len(ev) : ev2[k] = ev[k] /\ r2[k] = rr[k]
      /\ r2[n] = rr[n]
  BY DEF EventAdded
<1> HIDE DEF n
<1>3. NoScript(ev) => NoScript(ev2)
  BY <1>1, <1>2 DEF NoScript
<1>4. ASSUME NEW i, NEW b, LastScript(ev, i, b) PROVE LastScript(ev2, i, b) /\ r2[i] = rr[i]
  BY <1>1, <1>2, <1>4 DEF LastScript
<1>5. OnlyOff(ev) => OnlyOff(ev2)
  BY <1>1, <1>2 DEF OnlyOff
<1>6. SetsOffLater(ev, rr, known) => SetsOffLater(ev2, r2, known)
  <2>1. CASE NoScript(ev) /\ known = TRUE
    BY <1>3, <2>1 DEF SetsOffLater
  <2>2. ASSUME NEW i \in 1..Len(ev), NEW j \in 1..Len(ev), i < j, LastScript(ev, i, TRUE), ev[j][1] = "robot", VState(rr[j]) = "docked"
        PROVE  SetsOffLater(ev2, r2, known)
    <3>1. i \in 1..Len(ev2) /\ j \in 1..Len(ev2) /\ LastScript(ev2, i, TRUE) /\ ev2[j][1] = "robot" /\ VState(r2[j]) = "docked"
      BY <1>1, <1>2, <1>4, <2>2, Zenon
    <3> QED
      BY <2>2, <3>1, Zenon DEF SetsOffLater
  <2> QED
    BY <2>1, <2>2, Zenon DEF SetsOffLater
<1>7. ASSUME Heard(ev, known, TRUE), VState(rr[n]) = "docked" PROVE SetsOffLater(ev2, r2, known)
  <2>1. CASE NoScript(ev) /\ known = TRUE
    BY <1>3, <2>1 DEF SetsOffLater
  <2>2. ASSUME NEW i \in 1..Len(ev), LastScript(ev, i, TRUE) PROVE SetsOffLater(ev2, r2, known)
    <3>1. i \in 1..Len(ev2) /\ i < n /\ LastScript(ev2, i, TRUE) /\ VState(r2[n]) = "docked"
      BY <1>1, <1>2, <1>4, <1>7, <2>2, Zenon
    <3> QED
      BY <1>1, <3>1, Zenon DEF SetsOffLater
  <2> QED
    BY <1>7, <2>1, <2>2, Zenon DEF Heard
<1> QED
  BY <1>3, <1>4, <1>5, <1>6, <1>7, Zenon DEF n

LEMMA ScriptEventAdded ==
  ASSUME NEW ev, NEW ev2, NEW rr, NEW r2, NEW b \in BOOLEAN, EventAdded(ev, ev2, rr, r2, <<"script", b>>)
  PROVE  /\ Len(ev) + 1 \in 1..Len(ev2) /\ LastScript(ev2, Len(ev) + 1, b)
         /\ OnlyOff(ev) /\ b = FALSE => OnlyOff(ev2)
<1> DEFINE n == Len(ev) + 1
<1>1. n \in Nat /\ n \in 1..Len(ev2) /\ ev2[n][1] = "script" /\ ev2[n][2] = b /\ (\A k \in 1..Len(ev2) : k \in 1..Len(ev) \/ k = n)
      /\ (\A k \in 1..Len(ev2) : ~(k > n)) /\ (\A k \in 1..Len(ev) : ev2[k] = ev[k])
  BY DEF EventAdded
<1> HIDE DEF n
<1>2. LastScript(ev2, n, b)
  BY <1>1 DEF LastScript
<1>3. OnlyOff(ev) /\ b = FALSE => OnlyOff(ev2)
  BY <1>1 DEF OnlyOff
<1> QED
  BY <1>1, <1>2, <1>3 DEF n

\* Of the rest of the events: what they tell when the first one is seen.
GoneOn(ev, tl, rr, r2, ss) ==
  /\ \A i, b : LastScript(ev, i, b) =>
       \/ i = 1 /\ NoScript(tl) /\ ss[2] = b
       \/ i # 1 /\ i - 1 \in 1..Len(tl) /\ LastScript(tl, i - 1, b) /\ r2[i - 1] = rr[i]
  /\ NoScript(ev) => NoScript(tl) /\ ss[2] = ss[1]
  /\ \A b : Heard(ev, ss[1], b) => Heard(tl, ss[2], b)
  /\ OnlyOff(ev) => OnlyOff(tl)
  /\ SetsOffLater(ev, rr, ss[1]) => SetsOffLater(tl, r2, ss[2])

LEMMA HeadGone ==
  ASSUME NEW ev, NEW rr, NEW ss, Story(ev, rr, ss), ev # <<>>,
         NEW r2, r2 = [k \in 1..Len(ev) |-> rr[k + 1]], NEW tl, tl = Tail(ev)
  PROVE  GoneOn(ev, tl, rr, r2, ss)
<1>1. /\ Len(tl) = Len(ev) - 1 /\ Len(ev) \in Nat \ {0}
      /\ \A k \in 1..Len(tl) : tl[k] = ev[k + 1]
  BY StoryGoesOn
<1>2. \A k \in 1..Len(tl) : k + 1 \in 1..Len(ev) /\ tl[k] = ev[k + 1] /\ r2[k] = rr[k + 1]
  BY <1>1
<1>3. 1 \in 1..Len(ev) /\ Tells(ev, rr, ss, 1) /\ 1 + 1 = 2
  BY <1>1 DEF Story
<1>4. /\ ev[1][1] = "script" => ss[2] = ev[1][2]
      /\ ev[1][1] # "script" => ss[2] = ss[1]
  BY <1>3 DEF Tells
<1>5. ASSUME NEW i, NEW b, LastScript(ev, i, b)
      PROVE  \/ i = 1 /\ NoScript(tl) /\ ss[2] = b
             \/ i # 1 /\ i - 1 \in 1..Len(tl) /\ LastScript(tl, i - 1, b) /\ r2[i - 1] = rr[i]
  <2>1. i \in 1..Len(ev) /\ ev[i][1] = "script" /\ ev[i][2] = b /\ \A j \in 1..Len(ev) : j > i => ev[j][1] # "script"
    BY <1>5 DEF LastScript
  <2>2. CASE i = 1
    <3>1. \A k \in 1..Len(tl) : k + 1 > i
      BY <2>2
    <3> QED
      BY <1>2, <1>4, <2>1, <2>2, <3>1 DEF NoScript
  <2>3. CASE i # 1
    <3>1. i - 1 \in 1..Len(tl) /\ i - 1 + 1 = i /\ \A k \in 1..Len(tl) : k > i - 1 => k + 1 > i
      BY <1>1, <2>1, <2>3
    <3>2. tl[i - 1] = ev[i] /\ r2[i - 1] = rr[i]
      BY <1>2, <3>1
    <3>3. \A k \in 1..Len(tl) : k > i - 1 => tl[k][1] # "script"
      BY <1>2, <2>1, <3>1
    <3>4. LastScript(tl, i - 1, b)
      BY <2>1, <3>1, <3>2, <3>3 DEF LastScript
    <3> QED
      BY <2>3, <3>1, <3>2, <3>4
  <2> QED
    BY <2>2, <2>3
<1>6. NoScript(ev) => NoScript(tl) /\ ss[2] = ss[1]
  BY <1>2, <1>3, <1>4 DEF NoScript
<1>7. ASSUME NEW b, Heard(ev, ss[1], b) PROVE Heard(tl, ss[2], b)
  BY <1>5, <1>6, <1>7, Zenon DEF Heard
<1>8. OnlyOff(ev) => OnlyOff(tl)
  BY <1>2 DEF OnlyOff
<1>9. ASSUME SetsOffLater(ev, rr, ss[1]) PROVE SetsOffLater(tl, r2, ss[2])
  <2>1. CASE NoScript(ev) /\ ss[1] = TRUE
    BY <1>6, <2>1, Zenon DEF SetsOffLater
  <2>2. ASSUME NEW i \in 1..Len(ev), NEW j \in 1..Len(ev), i < j, LastScript(ev, i, TRUE), ev[j][1] = "robot", VState(rr[j]) = "docked"
        PROVE  SetsOffLater(tl, r2, ss[2])
    <3>1. CASE i = 1
      BY <1>5, <2>2, <3>1, Zenon DEF SetsOffLater
    <3>2. CASE i # 1
      <4>1. i - 1 \in 1..Len(tl) /\ j - 1 \in 1..Len(tl) /\ i - 1 < j - 1 /\ j - 1 + 1 = j
        BY <1>1, <2>2, <3>2
      <4>2. LastScript(tl, i - 1, TRUE) /\ tl[j - 1] = ev[j] /\ r2[j - 1] = rr[j]
        BY <1>2, <1>5, <2>2, <3>2, <4>1, Zenon
      <4> QED
        BY <2>2, <4>1, <4>2, Zenon DEF SetsOffLater
    <3> QED
      BY <3>1, <3>2
  <2> QED
    BY <1>9, <2>1, <2>2, Zenon DEF SetsOffLater
<1> QED
  BY <1>5, <1>6, <1>7, <1>8, <1>9, Zenon DEF GoneOn

VacWish == [op : {"none", "start", "dock", "pause", "resume"}, at : {"none", "call", "wait", "off", "home", "robot", "script"},
            on : BOOLEAN, was : RobotState, scenario : Scenario \cup {NoPlan}, ok : BOOLEAN]

\* Where a request of each kind can be.
WishOK(w) ==
  /\ w.op = "none" <=> w.at = "none"
  /\ w.op = "none" => w = Nobody
  /\ w.op = "start" => w.at \in {"call", "wait"} /\ w.scenario \in Scenario
  /\ w.op = "dock" <=> w.at \in {"off", "home", "robot", "script"}
  /\ w.at = "off" => w.on = TRUE
  /\ w.op \in {"pause", "resume"} => w.at = "call"

VacTypes ==
  /\ robot \in RobotState /\ plan \in Scenario \cup {Scheduled, NoPlan}
  /\ order \in {"none", "wanted", "stopped"} /\ work \in {"none", "wanted", "stopped"}
  /\ seen \in [robot : RobotState, script : BOOLEAN] /\ linked \in BOOLEAN
  /\ wish \in [Visitor -> VacWish] /\ \A v \in Visitor : WishOK(wish[v])
  /\ guardian \in [left : 0..GuardPolls, gap : 0..SendGap, sends : 0..MaxSends]
  /\ card \in Scenario \cup {NoPlan} /\ result \in {"none", "finished", "interrupted", "stopped"}
  /\ ended \in {"home", "away", "person", "stopped"} /\ muddled \in BOOLEAN /\ spoiled \in BOOLEAN
  /\ work # "none" => robot \in {"cleaning", "paused"}
  /\ order = "wanted" => plan # NoPlan
  /\ ~linked => events = <<>>

LEMMA OneEvent ==
  ASSUME NEW ev \in Seq(Event), NEW e \in Event
  PROVE  /\ ev \o (<<>> \o <<>>) = ev /\ ev \o (<<e>> \o <<>>) = Append(ev, e) /\ ev \o (<<>> \o <<e>>) = Append(ev, e)
         /\ Len(Append(ev, e)) = Len(ev) + 1 /\ Len(ev) \in Nat
<1>1. <<>> \in Seq(Event) /\ <<e>> \in Seq(Event)
  OBVIOUS
<1>2. <<>> \o <<>> = <<>> /\ <<e>> \o <<>> = <<e>> /\ <<>> \o <<e>> = <<e>>
  BY <1>1, ConcatEmptySeq
<1>3. ev \o <<>> = ev
  BY ConcatEmptySeq
<1>4. ev \o <<e>> = Append(ev, e)
  BY AppendIsConcat
<1>5. Len(Append(ev, e)) = Len(ev) + 1 /\ Len(ev) \in Nat
  BY AppendProperties, LenProperties
<1> QED
  BY <1>2, <1>3, <1>4, <1>5

\* What a step of Home Assistant or the robot does: to them, to the events and to what is too much at once.
LEMMA BecomesSaid ==
  ASSUME VacTypes, events \in Seq(Event), NEW r \in RobotState, NEW p, Becomes(r, p)
  PROVE  /\ robot' = r /\ plan' = p
         /\ ~linked => events' = events
         /\ r = robot /\ ((p = NoPlan) = (plan = NoPlan)) => events' = events
         /\ linked /\ r # robot /\ ((p = NoPlan) = (plan = NoPlan)) =>
              events' = Append(events, <<"robot", r>>) /\ Len(events) + 1 <= MaxDelay
         /\ linked /\ r = robot /\ (p = NoPlan) # (plan = NoPlan) =>
              events' = Append(events, <<"script", p # NoPlan>>)
         /\ muddled' \in BOOLEAN
         /\ ~muddled' => /\ ~muddled /\ (linked \/ ((p = NoPlan) = (plan = NoPlan)))
                         /\ ~(plan = NoPlan /\ p # NoPlan /\ Asked("dock"))
<1>1. <<"robot", r>> \in Event /\ <<"script", p # NoPlan>> \in Event
  BY Zenon DEF Event
<1>2. robot' = r /\ plan' = p /\ (~linked => events' = events)
  BY Zenon DEF Becomes
<1>3. /\ muddled' \in BOOLEAN
      /\ ~muddled' => /\ ~muddled /\ (linked \/ ((p = NoPlan) = (plan = NoPlan)))
                      /\ ~(plan = NoPlan /\ p # NoPlan /\ Asked("dock"))
  <2>1. muddled' = \/ muddled
                   \/ ~linked /\ (p = NoPlan) # (plan = NoPlan)
                   \/ plan = NoPlan /\ p # NoPlan /\ Asked("dock")
    BY Zenon DEF Becomes
  <2> QED
    BY <2>1, Zenon
<1>4. CASE linked
  <2> DEFINE o1 == IF r # robot THEN <<<<"robot", r>>>> ELSE <<>>
             o2 == IF (p = NoPlan) # (plan = NoPlan) THEN <<<<"script", p # NoPlan>>>> ELSE <<>>
  <2>1. Len(events \o (o1 \o o2)) <= MaxDelay /\ events' = events \o (o1 \o o2)
    BY <1>4, Zenon DEF Becomes
  <2>2. (r # robot => o1 = <<<<"robot", r>>>>) /\ (r = robot => o1 = <<>>)
    BY Zenon
  <2>3. ((p = NoPlan) # (plan = NoPlan) => o2 = <<<<"script", p # NoPlan>>>>) /\ ((p = NoPlan) = (plan = NoPlan) => o2 = <<>>)
    BY Zenon
  <2> HIDE DEF o1, o2
  <2>4. events \o (<<>> \o <<>>) = events
    BY <1>1, OneEvent
  <2>5. /\ events \o (<<<<"robot", r>>>> \o <<>>) = Append(events, <<"robot", r>>)
        /\ Len(Append(events, <<"robot", r>>)) = Len(events) + 1
    BY <1>1, OneEvent
  <2>6. events \o (<<>> \o <<<<"script", p # NoPlan>>>>) = Append(events, <<"script", p # NoPlan>>)
    BY <1>1, OneEvent
  <2>7. r = robot /\ ((p = NoPlan) = (plan = NoPlan)) => events' = events
    BY <2>1, <2>2, <2>3, <2>4, Zenon
  <2>8. r # robot /\ ((p = NoPlan) = (plan = NoPlan)) =>
              events' = Append(events, <<"robot", r>>) /\ Len(events) + 1 <= MaxDelay
    <3> SUFFICES ASSUME r # robot, (p = NoPlan) = (plan = NoPlan)
                 PROVE  events' = Append(events, <<"robot", r>>) /\ Len(events) + 1 <= MaxDelay
      OBVIOUS
    <3>1. o1 = <<<<"robot", r>>>> /\ o2 = <<>>
      BY <2>2, <2>3, Zenon
    <3> QED
      BY <2>1, <2>5, <3>1
  <2>9. r = robot /\ (p = NoPlan) # (plan = NoPlan) => events' = Append(events, <<"script", p # NoPlan>>)
    BY <2>1, <2>2, <2>3, <2>6, Zenon
  <2> QED
    BY <1>2, <1>3, <2>7, <2>8, <2>9, Zenon
<1>5. CASE ~linked
  BY <1>2, <1>3, <1>5, Zenon
<1> QED
  BY <1>4, <1>5

LEMMA WishField ==
  ASSUME VacTypes, NEW v \in Visitor
  PROVE  wish[v] \in VacWish /\ WishOK(wish[v])
  BY DEF VacTypes

LEMMA WishSteps ==
  ASSUME VacTypes, NEW v \in Visitor, NEW w, w \in VacWish, WishOK(w), wish' = [wish EXCEPT ![v] = w]
  PROVE  wish' \in [Visitor -> VacWish] /\ (\A x \in Visitor : WishOK(wish'[x])) /\ wish'[v] = w
         /\ \A x \in Visitor : x # v => wish'[x] = wish[x]
  BY DEF VacTypes

LEMMA NobodyIsFine == Nobody \in VacWish /\ WishOK(Nobody)
  BY DEF Nobody, VacWish, RobotState, WishOK, NoPlan

LEMMA WantsWork == VacTypes => /\ Home(robot) \in RobotState /\ Stopped(order) \in {"none", "stopped"} /\ Stopped(work) \in {"none", "stopped"}
                               /\ VState(robot) \in RobotState /\ VState(seen.robot) \in RobotState /\ seen.script \in BOOLEAN
                               /\ (Stopped(work) # "none" => work # "none")
  BY DEF VacTypes, Home, Stopped, VState, RobotState

LEMMA VacTypesStay ==
  ASSUME VacTypes, events \in Seq(Event), [VacNext]_vacVars
  PROVE  VacTypes'
<1> USE VacuumNumbers, ScenariosAreNamed
<1>0. CASE UNCHANGED vacVars
  BY <1>0 DEF VacTypes, vacVars
<1>a. ASSUME NEW r \in RobotState, NEW p, Becomes(r, p)
      PROVE  robot' = r /\ plan' = p /\ muddled' \in BOOLEAN /\ (~linked => events' = events)
  BY <1>a, BecomesSaid
<1>1. CASE RobotStarts
  <2>1. robot' = "cleaning" /\ plan' = plan /\ muddled' \in BOOLEAN /\ (~linked => events' = events)
    BY <1>1, <1>a DEF RobotStarts, RobotState
  <2> QED
    BY <1>1, <2>1 DEF RobotStarts, VacTypes, RobotState
<1>2. CASE RobotGoesOn
  <2>1. plan' = plan /\ muddled' \in BOOLEAN /\ (~linked => events' = events)
    BY <1>2, <1>a DEF RobotGoesOn, RobotState
  <2>2. /\ robot' \in RobotState /\ robot \in RobotState
        /\ work' \in {"none", "wanted", "stopped"} /\ (work' # "none" => robot' \in {"cleaning", "paused"})
    <3>1. CASE robot = "cleaning" /\ Becomes("returning", plan) /\ work' = "none"
      BY <1>a, <3>1 DEF RobotState, VacTypes
    <3>2. CASE robot = "returning" /\ (Becomes("docked", plan) \/ Becomes("station", plan)) /\ UNCHANGED work
      BY <1>a, <3>2 DEF RobotState, VacTypes
    <3>3. CASE robot = "station" /\ Becomes("docked", plan) /\ UNCHANGED work
      BY <1>a, <3>3 DEF RobotState, VacTypes
    <3> QED
      BY <1>2, <3>1, <3>2, <3>3 DEF RobotGoesOn
  <2> QED
    BY <1>2, <2>1, <2>2 DEF RobotGoesOn, VacTypes
<1>3. CASE PlanGoesOn
  BY <1>3 DEF PlanGoesOn, VacTypes
<1>4. CASE PlanEnds
  <2>1. robot' = robot /\ plan' = NoPlan /\ muddled' \in BOOLEAN /\ (~linked => events' = events)
    BY <1>4, <1>a DEF PlanEnds, VacTypes
  <2> QED
    BY <1>4, <2>1 DEF PlanEnds, VacTypes
<1>5. CASE ScheduleStarts
  <2>1. robot' = robot /\ plan' = Scheduled /\ muddled' \in BOOLEAN /\ (~linked => events' = events)
    BY <1>5, <1>a DEF ScheduleStarts, VacTypes
  <2>2. Scheduled # NoPlan
    BY Zenon DEF Scheduled, NoPlan
  <2> QED
    BY <1>5, <2>1, <2>2 DEF ScheduleStarts, VacTypes
<1>6. CASE EventSeen
  <2>1. Head(events) \in Event
    BY <1>6, HeadTailProperties DEF EventSeen
  <2>2. seen' = [seen EXCEPT ![Head(events)[1]] = Head(events)[2]]
    BY <1>6 DEF EventSeen
  <2>3. seen' \in [robot : RobotState, script : BOOLEAN]
    <3>1. CASE Head(events)[1] = "robot" /\ Head(events)[2] \in RobotState
      BY <2>2, <3>1, Zenon DEF VacTypes
    <3>2. CASE Head(events)[1] = "script" /\ Head(events)[2] \in BOOLEAN
      BY <2>2, <3>2, Zenon DEF VacTypes
    <3> QED
      BY <2>1, <3>1, <3>2, EventFields
  <2>4. result' \in {"none", "finished", "interrupted", "stopped"}
    <3>1. result' = Outcome(seen.robot) \/ result' = result
      BY <1>6 DEF EventSeen
    <3> QED
      BY <3>1 DEF Outcome, VacTypes
  <2> QED
    BY <1>6, <2>3, <2>4 DEF EventSeen, VacTypes
<1>7. CASE LinkDown
  <2>1. muddled' \in BOOLEAN
    BY <1>7, Zenon DEF LinkDown, VacTypes
  <2>2. linked' = FALSE /\ events' = <<>> /\ UNCHANGED <<robot, plan, order, work, seen, wish, guardian, card, result, ended, spoiled>>
    BY <1>7, Zenon DEF LinkDown
  <2>3. linked' \in BOOLEAN /\ (~linked' => events' = <<>>)
    BY <2>2, Zenon
  <2>4. UNCHANGED <<robot, plan, order, work, seen, wish, guardian, card, result, ended, spoiled>>
    BY <2>2, Zenon
  <2> QED
    BY <2>1, <2>3, <2>4 DEF VacTypes
<1>8. CASE LinkUp
  <2>1. result' \in {"none", "finished", "interrupted", "stopped"}
    BY <1>8 DEF LinkUp, Outcome, VacTypes
  <2>2. seen' \in [robot : RobotState, script : BOOLEAN]
    <3>1. (plan # NoPlan) \in BOOLEAN
      BY Zenon
    <3> QED
      BY <1>8, <3>1 DEF LinkUp, VacTypes
  <2> QED
    BY <1>8, <2>1, <2>2 DEF LinkUp, VacTypes
<1>9. ASSUME NEW v \in Visitor, NEW w, Asks(v, w), w \in VacWish, WishOK(w), guardian' \in {guardian, NoGuard}, muddled' \in BOOLEAN
      PROVE  VacTypes'
  <2>1. wish' \in [Visitor -> VacWish] /\ \A x \in Visitor : WishOK(wish'[x])
    BY <1>9, WishSteps, Zenon DEF Asks
  <2>2. guardian' \in [left : 0..GuardPolls, gap : 0..SendGap, sends : 0..MaxSends]
    BY <1>9 DEF NoGuard, VacTypes
  <2> QED
    BY <1>9, <2>1, <2>2 DEF Asks, VacTypes
<1>10. ASSUME NEW v \in Visitor, NEW s \in Scenario, StartScenario(v, s) PROVE VacTypes'
  <2> DEFINE w == [Nobody EXCEPT !.op = "start", !.at = "call", !.scenario = s]
  <2>1. w \in VacWish /\ WishOK(w)
    BY Zenon DEF Nobody, VacWish, WishOK, RobotState
  <2>2. muddled' \in BOOLEAN
    BY <1>10, Zenon DEF StartScenario, VacTypes
  <2>3. Asks(v, w) /\ guardian' = guardian
    BY <1>10 DEF StartScenario
  <2> QED
    BY <1>9, <2>1, <2>2, <2>3
<1>11. ASSUME NEW v \in Visitor, Dock(v) PROVE VacTypes'
  <2> DEFINE w == [Nobody EXCEPT !.op = "dock", !.on = seen.script, !.was = VState(seen.robot),
                            !.at = IF seen.script THEN "off" ELSE IF VState(seen.robot) # "docked" THEN "home" ELSE "robot"]
  <2>1. w \in VacWish /\ WishOK(w)
    BY WantsWork, Zenon DEF Nobody, VacWish, WishOK
  <2>2. muddled' \in BOOLEAN
    BY <1>11, Zenon DEF Dock, VacTypes
  <2>3. Asks(v, w) /\ guardian' = guardian
    BY <1>11 DEF Dock
  <2> QED
    BY <1>9, <2>1, <2>2, <2>3
<1>12. ASSUME NEW v \in Visitor, Pause(v) PROVE VacTypes'
  <2> DEFINE w == [Nobody EXCEPT !.op = "pause", !.at = "call"]
  <2>1. w \in VacWish /\ WishOK(w)
    BY Zenon DEF Nobody, VacWish, WishOK, RobotState
  <2>3. Asks(v, w) /\ guardian' = guardian /\ muddled' \in BOOLEAN
    BY <1>12 DEF Pause, VacTypes
  <2> QED
    BY <1>9, <2>1, <2>3
<1>13. ASSUME NEW v \in Visitor, Resume(v) PROVE VacTypes'
  <2> DEFINE w == [Nobody EXCEPT !.op = "resume", !.at = "call"]
  <2>1. w \in VacWish /\ WishOK(w)
    BY Zenon DEF Nobody, VacWish, WishOK, RobotState
  <2>2. muddled' \in BOOLEAN
    BY <1>13, Zenon DEF Resume, VacTypes
  <2>3. Asks(v, w) /\ guardian' = NoGuard
    BY <1>13 DEF Resume
  <2> QED
    BY <1>9, <2>1, <2>2, <2>3
<1>14. ASSUME NEW v \in Visitor, Leaves(v) PROVE wish' \in [Visitor -> VacWish] /\ \A x \in Visitor : WishOK(wish'[x])
  BY <1>14, WishSteps, NobodyIsFine, Zenon DEF Leaves
<1>15. ASSUME NEW v \in Visitor, NEW at, Goes(v, at),
              \/ wish[v].op = "start" /\ at = "wait"
              \/ wish[v].op = "dock" /\ at \in {"home", "robot", "script"}
       PROVE  wish' \in [Visitor -> VacWish] /\ \A x \in Visitor : WishOK(wish'[x])
  <2> DEFINE w == [wish[v] EXCEPT !.at = at]
  <2>1. w \in VacWish /\ WishOK(w)
    BY <1>15, WishField, Zenon DEF VacWish, WishOK
  <2>2. wish' = [wish EXCEPT ![v] = w]
    BY <1>15 DEF Goes, VacTypes
  <2> QED
    BY <2>1, <2>2, WishSteps, Zenon
<1>16. ASSUME NEW v \in Visitor, CallFails(v) PROVE VacTypes'
  BY <1>14, <1>16 DEF CallFails, VacTypes
<1>17. ASSUME NEW v \in Visitor, TurnOn(v) PROVE VacTypes'
  <2>1. wish[v].op = "start" /\ Goes(v, "wait") /\ wish[v].scenario \in Scenario
    BY <1>17, WishField, Zenon DEF TurnOn, WishOK
  <2>2. wish' \in [Visitor -> VacWish] /\ \A x \in Visitor : WishOK(wish'[x])
    BY <1>15, <2>1
  <2>3. CASE plan = NoPlan
    <3>1. robot' = robot /\ plan' = wish[v].scenario /\ muddled' \in BOOLEAN /\ (~linked => events' = events) /\ order' = "wanted"
      BY <1>17, <1>a, <2>3 DEF TurnOn, VacTypes
    <3> QED
      BY <1>17, <2>1, <2>2, <3>1 DEF TurnOn, VacTypes
  <2>4. CASE plan # NoPlan
    <3>1. muddled' \in BOOLEAN
      BY <1>17, <2>4, Zenon DEF TurnOn, VacTypes
    <3> QED
      BY <1>17, <2>2, <2>4, <3>1 DEF TurnOn, VacTypes
  <2> QED
    BY <2>3, <2>4
<1>18. ASSUME NEW v \in Visitor, StartEnds(v) PROVE VacTypes'
  <2>1. wish[v].scenario \in Scenario
    BY <1>18, WishField, Zenon DEF StartEnds, WishOK
  <2>2. muddled' \in BOOLEAN
    BY <1>18, Zenon DEF StartEnds, VacTypes
  <2>3. wish' \in [Visitor -> VacWish] /\ \A x \in Visitor : WishOK(wish'[x])
    BY <1>14, <1>18 DEF StartEnds
  <2> QED
    BY <1>18, <2>1, <2>2, <2>3 DEF StartEnds, VacTypes
<1>19. ASSUME NEW v \in Visitor, TurnOff(v) PROVE VacTypes'
  <2>1. wish[v].op = "dock" /\ Goes(v, "home")
    BY <1>19, WishField, Zenon DEF TurnOff, WishOK
  <2>2. wish' \in [Visitor -> VacWish] /\ \A x \in Visitor : WishOK(wish'[x])
    BY <1>15, <2>1
  <2>3. robot' = robot /\ plan' = NoPlan /\ muddled' \in BOOLEAN /\ (~linked => events' = events)
    BY <1>19, <1>a DEF TurnOff, VacTypes
  <2> QED
    BY <1>19, <2>2, <2>3, WantsWork DEF TurnOff, VacTypes
<1>20. ASSUME NEW v \in Visitor, ReturnToBase(v) PROVE VacTypes'
  <2>1. wish[v].op = "dock" /\ Goes(v, "robot")
    BY <1>20, WishField, Zenon DEF ReturnToBase, WishOK
  <2>2. wish' \in [Visitor -> VacWish] /\ \A x \in Visitor : WishOK(wish'[x])
    BY <1>15, <2>1
  <2>3. robot' = Home(robot) /\ plan' = plan /\ muddled' \in BOOLEAN /\ (~linked => events' = events)
    BY <1>20, <1>a, WantsWork DEF ReturnToBase
  <2>4. guardian' \in [left : 0..GuardPolls, gap : 0..SendGap, sends : 0..MaxSends]
    BY <1>20 DEF ReturnToBase, VacTypes
  <2>5. work' \in {"none", "wanted", "stopped"} /\ (work' # "none" => robot' \in {"cleaning", "paused"})
    BY <1>20, <2>3 DEF ReturnToBase, VacTypes, Home
  <2> QED
    BY <1>20, <2>2, <2>3, <2>4, <2>5, WantsWork DEF ReturnToBase, VacTypes
<1>21. ASSUME NEW v \in Visitor, DockSees(v) PROVE VacTypes'
  <2> DEFINE w == [wish[v] EXCEPT !.at = "script", !.ok = seen.robot \in {"returning", "docked"}]
  <2>1. wish[v] \in VacWish /\ WishOK(wish[v]) /\ wish[v].op = "dock"
    BY <1>21, WishField, Zenon DEF DockSees, WishOK
  <2>2. (seen.robot \in {"returning", "docked"}) \in BOOLEAN
    OBVIOUS
  <2>3. w \in VacWish /\ WishOK(w)
    <3>1. w \in VacWish
      BY <2>1, <2>2, Zenon DEF VacWish
    <3>2. w.op = "dock" /\ w.at = "script"
      BY <2>1 DEF VacWish
    <3> QED
      BY <3>1, <3>2 DEF WishOK
  <2>4. wish' = [wish EXCEPT ![v] = w]
    BY <1>21, Zenon DEF DockSees, VacTypes
  <2>5. wish' \in [Visitor -> VacWish] /\ \A x \in Visitor : WishOK(wish'[x])
    BY <2>3, <2>4, WishSteps, Zenon
  <2> QED
    BY <1>21, <2>5 DEF DockSees, VacTypes
<1>22. ASSUME NEW v \in Visitor, DockEnds(v) PROVE VacTypes'
  <2>1. wish' \in [Visitor -> VacWish] /\ \A x \in Visitor : WishOK(wish'[x])
    BY <1>14, <1>22 DEF DockEnds
  <2>2. result' \in {result, "stopped"} /\ ended' \in {ended, "stopped"}
    BY <1>22 DEF DockEnds
  <2> QED
    BY <1>22, <2>1, <2>2 DEF DockEnds, VacTypes
<1>23. ASSUME NEW v \in Visitor, PauseCalls(v) PROVE VacTypes'
  <2>1. wish' \in [Visitor -> VacWish] /\ \A x \in Visitor : WishOK(wish'[x])
    BY <1>14, <1>23 DEF PauseCalls
  <2>2. (IF robot = "cleaning" THEN "paused" ELSE robot) \in RobotState
    BY DEF RobotState, VacTypes
  <2>3. robot' = (IF robot = "cleaning" THEN "paused" ELSE robot) /\ plan' = plan /\ muddled' \in BOOLEAN /\ (~linked => events' = events)
    BY <1>23, <1>a, <2>2 DEF PauseCalls
  <2> QED
    BY <1>23, <2>1, <2>2, <2>3 DEF PauseCalls, VacTypes
<1>24. ASSUME NEW v \in Visitor, ResumeCalls(v) PROVE VacTypes'
  <2>1. wish' \in [Visitor -> VacWish] /\ \A x \in Visitor : WishOK(wish'[x])
    BY <1>14, <1>24 DEF ResumeCalls
  <2>2. robot' = "cleaning" /\ plan' = plan /\ muddled' \in BOOLEAN /\ (~linked => events' = events)
    BY <1>24, <1>a DEF ResumeCalls, RobotState
  <2> QED
    BY <1>24, <2>1, <2>2 DEF ResumeCalls, VacTypes, RobotState
<1>25. CASE GuardPasses
  <2>1. guardian' = [guardian EXCEPT !.left = @ - 1, !.gap = IF @ > 0 THEN @ - 1 ELSE 0] /\ guardian.left > 0
    BY <1>25 DEF GuardPasses
  <2>2. guardian' \in [left : 0..GuardPolls, gap : 0..SendGap, sends : 0..MaxSends]
    <3> DEFINE g == IF guardian.gap > 0 THEN guardian.gap - 1 ELSE 0
               l == guardian.left - 1
    <3>1. g \in 0..SendGap /\ l \in 0..GuardPolls /\ guardian.sends \in 0..MaxSends
      BY <2>1 DEF VacTypes
    <3>2. guardian' = [left |-> l, gap |-> g, sends |-> guardian.sends]
      BY <2>1, Zenon DEF VacTypes
    <3> HIDE DEF g, l
    <3> QED
      BY <3>1, <3>2
  <2> QED
    BY <1>25, <2>2 DEF GuardPasses, VacTypes
<1>26. CASE GuardYields
  BY <1>26 DEF GuardYields, VacTypes, NoGuard
<1>27. CASE GuardSends
  <2>1. guardian.left > 0 /\ guardian.sends < MaxSends
    BY <1>27 DEF GuardSends, Due
  <2>2. CASE UNCHANGED <<robot, plan, events, work, muddled, spoiled>> /\ guardian' = [guardian EXCEPT !.left = @ - 1]
    <3>1. guardian' \in [left : 0..GuardPolls, gap : 0..SendGap, sends : 0..MaxSends]
      BY <2>1, <2>2 DEF VacTypes
    <3> QED
      BY <1>27, <2>2, <3>1 DEF GuardSends, VacTypes
  <2>3. CASE /\ guardian' = [left |-> guardian.left - 1, gap |-> SendGap, sends |-> guardian.sends + 1]
             /\ Becomes(Home(robot), plan) /\ work' = IF robot \in {"cleaning", "paused"} THEN "none" ELSE work
             /\ spoiled' = (spoiled \/ (robot = "cleaning" /\ work = "wanted"))
    <3>1. guardian' \in [left : 0..GuardPolls, gap : 0..SendGap, sends : 0..MaxSends]
      BY <2>1, <2>3 DEF VacTypes
    <3>2. spoiled' \in BOOLEAN
      BY <2>3, Zenon DEF VacTypes
    <3>3. robot' = Home(robot) /\ plan' = plan /\ muddled' \in BOOLEAN /\ (~linked => events' = events)
      BY <2>3, <1>a, WantsWork
    <3>4. work' \in {"none", "wanted", "stopped"} /\ (work' # "none" => robot' \in {"cleaning", "paused"})
      BY <2>3, <3>3 DEF VacTypes, Home
    <3> QED
      BY <1>27, <3>1, <3>2, <3>3, <3>4, WantsWork DEF GuardSends, VacTypes
  <2> QED
    BY <1>27, <2>2, <2>3 DEF GuardSends
<1> QED
  BY <1>0, <1>1, <1>2, <1>3, <1>4, <1>5, <1>6, <1>7, <1>8, <1>10, <1>11, <1>12, <1>13, <1>16, <1>17, <1>18, <1>19, <1>20,
     <1>21, <1>22, <1>23, <1>24, <1>25, <1>26, <1>27 DEF VacNext

\* The story that the events tell begins at the cache and ends at the present.
Tale(rr, ss) ==
  /\ Story(events, rr, ss) /\ rr[1] = seen.robot /\ ss[1] = seen.script
  /\ linked => rr[Len(events) + 1] = robot /\ ss[Len(events) + 1] = (plan # NoPlan)

\* The result told of a plan that ended in this way, and the way in which a plan ends with its robot there.
ResultOf(how, told) ==
  /\ how = "stopped" => told = "stopped"
  /\ how = "home" => told \in {"none", "finished"}
  /\ how = "away" => told = "interrupted"
EndsAt(how, r) == how # "stopped" /\ (how = "home" => VState(r) = "docked") /\ (how = "away" => VState(r) # "docked")

PlanKnown(rr) ==
  /\ plan = NoPlan => \/ NoScript(events) /\ seen.script = FALSE /\ ResultOf(ended, result)
                      \/ \E i \in 1..Len(events) : LastScript(events, i, FALSE) /\ EndsAt(ended, rr[i])
  /\ plan # NoPlan => Heard(events, seen.script, TRUE)

StartWaits(v) == wish[v].op = "start" /\ wish[v].at = "wait"
StartsKnown ==
  /\ \A v, w \in Visitor : wish[v].op = "start" /\ wish[w].op = "start" => v = w
  /\ \A v \in Visitor : StartWaits(v) => plan \in {wish[v].scenario, NoPlan, Scheduled}
  /\ plan \in Scenario => card = plan \/ \E v \in Visitor : StartWaits(v) /\ wish[v].scenario = plan

\* While somebody stops the robot nobody resumes it, no plan starts, and a plan that was on is off by then.
DocksKnown ==
  /\ Asked("dock") => ~Asked("resume") /\ OnlyOff(events)
  /\ \A v \in Visitor : wish[v].op = "dock" /\ wish[v].at # "off" =>
       plan = NoPlan /\ (wish[v].on = TRUE => ended \in {"person", "stopped"})

\* While the guard watches, a robot that is to clean cleans for a plan that the cache gets first.
GuardKnows(rr) ==
  guardian.left > 0 =>
    /\ ~Asked("resume")
    /\ robot = "cleaning" /\ work = "wanted" => plan # NoPlan /\ SetsOffLater(events, rr, seen.script)

VacClear(rr) == PlanKnown(rr) /\ StartsKnown /\ DocksKnown /\ GuardKnows(rr)
VacTale == \E rr, ss : Tale(rr, ss) /\ (~muddled => VacClear(rr))
VacInv == VacTypes /\ VacTale

\* What a step of Home Assistant or the robot adds.
Steps(rr, r2, r, p) ==
  \/ events' = events /\ r2 = rr /\ (linked => r = robot /\ ((p = NoPlan) = (plan = NoPlan)))
  \/ /\ linked /\ r # robot /\ ((p = NoPlan) = (plan = NoPlan)) /\ Len(events) + 1 <= MaxDelay
     /\ EventAdded(events, events', rr, r2, <<"robot", r>>) /\ rr[Len(events) + 1] = robot
  \/ /\ linked /\ r = robot /\ (p = NoPlan) # (plan = NoPlan)
     /\ EventAdded(events, events', rr, r2, <<"script", p # NoPlan>>) /\ rr[Len(events) + 1] = robot

LEMMA TaleGoesOn ==
  ASSUME VacTypes, NEW rr, NEW ss, Tale(rr, ss), NEW r \in RobotState, NEW p, Becomes(r, p), seen' = seen, linked' = linked,
         r = robot \/ ((p = NoPlan) = (plan = NoPlan)),
         r \in {"docked", "station"} => r = robot \/ robot \in {"returning", "station"}
  PROVE  \E r2, s2 : Tale(r2, s2)' /\ Steps(rr, r2, r, p)
<1> DEFINE n == Len(events) + 1
<1>1. events \in Seq(Event) /\ Story(events, rr, ss)
  BY DEF Tale, Story
<1>2. robot' = r /\ plan' = p /\ (~linked => events' = events)
      /\ (r = robot /\ ((p = NoPlan) = (plan = NoPlan)) => events' = events)
      /\ (linked /\ r # robot /\ ((p = NoPlan) = (plan = NoPlan)) =>
              events' = Append(events, <<"robot", r>>) /\ Len(events) + 1 <= MaxDelay)
      /\ (linked /\ r = robot /\ (p = NoPlan) # (plan = NoPlan) =>
              events' = Append(events, <<"script", p # NoPlan>>))
  BY <1>1, BecomesSaid, Zenon
<1>3. CASE ~linked \/ (r = robot /\ ((p = NoPlan) = (plan = NoPlan)))
  <2>1. events' = events
    BY <1>2, <1>3, Zenon
  <2>2. Tale(rr, ss)'
    <3>1. CASE ~linked
      BY <2>1, <3>1 DEF Tale
    <3>2. CASE linked /\ r = robot /\ ((p = NoPlan) = (plan = NoPlan))
      <4>1. (plan' # NoPlan) = (plan # NoPlan)
        BY <1>2, <3>2
      <4> QED
        BY <1>2, <2>1, <3>2, <4>1 DEF Tale
    <3> QED
      BY <1>3, <3>1, <3>2
  <2> QED
    BY <1>3, <2>1, <2>2 DEF Steps
<1>4. ASSUME NEW e \in Event, linked, events' = Append(events, e),
             e[1] = "robot" => r = e[2] /\ r # robot /\ ((p = NoPlan) = (plan = NoPlan)),
             e[1] = "script" => e[2] = (p # NoPlan) /\ r = robot /\ (p = NoPlan) # (plan = NoPlan)
      PROVE  \E r2, s2 : Tale(r2, s2)' /\ EventAdded(events, events', rr, r2, e) /\ rr[n] = robot
  <2> DEFINE r2 == [k \in 1..(n + 1) |-> IF k <= n THEN rr[k] ELSE IF e[1] = "robot" THEN e[2] ELSE rr[n]]
             s2 == [k \in 1..(n + 1) |-> IF k <= n THEN ss[k] ELSE IF e[1] = "script" THEN e[2] ELSE ss[n]]
  <2>1. rr[n] = robot /\ ss[n] = (plan # NoPlan)
    BY <1>4 DEF Tale
  <2>2. e[1] = "robot" /\ e[2] \in {"docked", "station"} => rr[n] \in {"returning", "station"}
    BY <1>4, <2>1
  <2>3. e[1] = "script" => ss[n] # e[2]
    BY <1>4, <2>1, Zenon
  <2>4. /\ Story(Append(events, e), r2, s2) /\ Len(Append(events, e)) = n /\ n \in Nat \ {0} /\ Append(events, e)[n] = e
        /\ \A k \in 1..Len(events) : Append(events, e)[k] = events[k]
        /\ \A k \in 1..n : r2[k] = rr[k] /\ s2[k] = ss[k]
    <3> HIDE DEF n
    <3>1. n = Len(events) + 1
      BY DEF n
    <3> QED
      BY <1>1, <2>2, <2>3, <3>1, StoryGrows
  <2>5. r2[n + 1] = (IF e[1] = "robot" THEN e[2] ELSE rr[n]) /\ s2[n + 1] = (IF e[1] = "script" THEN e[2] ELSE ss[n])
    BY <2>4
  <2> HIDE DEF r2, s2
  <2>a. PICK q2, u2 :
             /\ Story(Append(events, e), q2, u2) /\ Len(Append(events, e)) = n /\ n \in Nat \ {0} /\ Append(events, e)[n] = e
             /\ \A k \in 1..Len(events) : Append(events, e)[k] = events[k]
             /\ \A k \in 1..n : q2[k] = rr[k] /\ u2[k] = ss[k]
             /\ q2[n + 1] = (IF e[1] = "robot" THEN e[2] ELSE rr[n]) /\ u2[n + 1] = (IF e[1] = "script" THEN e[2] ELSE ss[n])
    BY <2>4, <2>5
  <2>6. q2[n + 1] = r
    BY <1>4, <2>1, <2>a, EventFields
  <2>7. u2[n + 1] = (p # NoPlan)
    <3>1. CASE e[1] = "script"
      BY <1>4, <2>a, <3>1, Zenon
    <3>2. CASE e[1] # "script"
      <4>1. e[1] = "robot"
        BY <3>2, EventFields
      <4> QED
        BY <1>4, <2>1, <2>a, <3>2, <4>1, Zenon
    <3> QED
      BY <3>1, <3>2
  <2>8. Tale(q2, u2)'
    <3>1. q2[1] = seen'.robot /\ u2[1] = seen'.script
      BY <2>a DEF Tale
    <3>2. q2[Len(events') + 1] = robot' /\ u2[Len(events') + 1] = (plan' # NoPlan)
      BY <1>2, <1>4, <2>a, <2>6, <2>7
    <3> QED
      BY <1>4, <2>a, <3>1, <3>2 DEF Tale
  <2>9. EventAdded(events, events', rr, q2, e)
    BY <1>1, <1>4, <2>a, LenProperties DEF EventAdded
  <2> QED
    BY <2>1, <2>8, <2>9
<1>5. CASE linked /\ r # robot /\ ((p = NoPlan) = (plan = NoPlan))
  <2>1. <<"robot", r>> \in Event /\ <<"robot", r>>[1] = "robot" /\ <<"robot", r>>[2] = r
    BY DEF Event
  <2>2. PICK r2, s2 : Tale(r2, s2)' /\ EventAdded(events, events', rr, r2, <<"robot", r>>) /\ rr[n] = robot
    BY <1>2, <1>4, <1>5, <2>1
  <2> QED
    BY <1>2, <1>5, <2>2 DEF Steps
<1>6. CASE linked /\ r = robot /\ (p = NoPlan) # (plan = NoPlan)
  <2>1. <<"script", p # NoPlan>> \in Event /\ <<"script", p # NoPlan>>[1] = "script" /\ <<"script", p # NoPlan>>[2] = (p # NoPlan)
    BY Zenon DEF Event
  <2>2. PICK r2, s2 : Tale(r2, s2)' /\ EventAdded(events, events', rr, r2, <<"script", p # NoPlan>>) /\ rr[n] = robot
    BY <1>2, <1>4, <1>6, <2>1
  <2> QED
    BY <1>2, <1>6, <2>2 DEF Steps
<1> QED
  BY <1>3, <1>5, <1>6

LEMMA PlanKnownStays ==
  ASSUME NEW rr, NEW r2, NEW r, Steps(rr, r2, r, plan), plan' = plan, seen' = seen, ended' = ended, result' = result, PlanKnown(rr)
  PROVE  PlanKnown(r2)'
<1>1. CASE events' = events /\ r2 = rr
  BY <1>1, Zenon DEF PlanKnown, Heard
<1>2. CASE EventAdded(events, events', rr, r2, <<"robot", r>>)
  <2>1. <<"robot", r>>[1] = "robot"
    OBVIOUS
  <2>2. /\ NoScript(events) => NoScript(events')
        /\ \A i, b : LastScript(events, i, b) => LastScript(events', i, b) /\ r2[i] = rr[i]
    BY <1>2, <2>1, RobotEventAdded, Zenon
  <2>3. 1..Len(events) \subseteq 1..Len(events')
    BY <1>2 DEF EventAdded
  <2>4. Heard(events, seen.script, TRUE) => Heard(events', seen'.script, TRUE)
    BY <2>2, <2>3, Zenon DEF Heard
  <2>5. ASSUME NEW i \in 1..Len(events), LastScript(events, i, FALSE), EndsAt(ended, rr[i])
        PROVE  \E k \in 1..Len(events') : LastScript(events', k, FALSE) /\ EndsAt(ended', r2[k])
    BY <2>2, <2>3, <2>5, Zenon
  <2> QED
    BY <2>2, <2>4, <2>5, Zenon DEF PlanKnown
<1> QED
  BY <1>1, <1>2 DEF Steps

LEMMA PlanStartKnown ==
  ASSUME NEW rr, NEW r2, NEW p, p # NoPlan, plan = NoPlan, plan' = p, linked, Steps(rr, r2, robot, p)
  PROVE  PlanKnown(r2)'
<1>1. EventAdded(events, events', rr, r2, <<"script", p # NoPlan>>)
  BY DEF Steps
<1>2. (p # NoPlan) = TRUE
  OBVIOUS
<1>3. Len(events) + 1 \in 1..Len(events') /\ LastScript(events', Len(events) + 1, TRUE)
  BY <1>1, <1>2, ScriptEventAdded, Zenon
<1> QED
  BY <1>3, Zenon DEF PlanKnown, Heard

LEMMA PlanEndKnown ==
  ASSUME NEW rr, NEW r2, plan # NoPlan, plan' = NoPlan, linked, Steps(rr, r2, robot, NoPlan), EndsAt(ended', robot)
  PROVE  PlanKnown(r2)'
<1>1. EventAdded(events, events', rr, r2, <<"script", NoPlan # NoPlan>>) /\ rr[Len(events) + 1] = robot
  BY DEF Steps
<1>2. (NoPlan # NoPlan) = FALSE
  OBVIOUS
<1>3. Len(events) + 1 \in 1..Len(events') /\ LastScript(events', Len(events) + 1, FALSE)
  BY <1>1, <1>2, ScriptEventAdded, Zenon
<1>4. r2[Len(events) + 1] = robot
  BY <1>1 DEF EventAdded
<1> QED
  BY <1>3, <1>4, Zenon DEF PlanKnown

LEMMA OffsStay ==
  ASSUME NEW rr, NEW r2, NEW r \in RobotState, NEW p, Steps(rr, r2, r, p), p # NoPlan => plan # NoPlan, OnlyOff(events)
  PROVE  OnlyOff(events')
<1>1. CASE events' = events
  BY <1>1
<1>2. CASE EventAdded(events, events', rr, r2, <<"robot", r>>)
  <2>1. <<"robot", r>>[1] = "robot"
    OBVIOUS
  <2> QED
    BY <1>2, <2>1, RobotEventAdded, Zenon
<1>3. CASE EventAdded(events, events', rr, r2, <<"script", p # NoPlan>>) /\ (p = NoPlan) # (plan = NoPlan)
  <2>1. p = NoPlan
    BY <1>3
  <2>2. (p # NoPlan) = FALSE
    BY <2>1
  <2> QED
    BY <1>3, <2>2, ScriptEventAdded, Zenon
<1> QED
  BY <1>1, <1>2, <1>3 DEF Steps

\* The robot sets off for a plan: from home, as long as the plan runs.
LEMMA SetsOffKnown ==
  ASSUME NEW rr, NEW r2, VacTypes, Steps(rr, r2, "cleaning", plan), VState(robot) = "docked", plan # NoPlan,
         linked \/ NoScript(events), linked => robot # "cleaning", PlanKnown(rr)
  PROVE  SetsOffLater(events', r2, seen.script)
<1>1. Heard(events, seen.script, TRUE)
  BY Zenon DEF PlanKnown
<1>2. CASE linked
  <2>1. EventAdded(events, events', rr, r2, <<"robot", "cleaning">>) /\ rr[Len(events) + 1] = robot /\ <<"robot", "cleaning">>[1] = "robot"
    BY <1>2 DEF Steps
  <2> QED
    BY <1>1, <2>1, RobotEventAdded
<1>3. CASE ~linked
  <2>1. events' = events
    BY <1>3 DEF Steps
  <2>2. NoScript(events)
    BY <1>3
  <2>3. \A i, b : ~LastScript(events, i, b)
    BY <2>2 DEF NoScript, LastScript
  <2> QED
    BY <1>1, <2>1, <2>2, <2>3, Zenon DEF SetsOffLater, Heard
<1> QED
  BY <1>2, <1>3

LEMMA SetsOffStays ==
  ASSUME NEW rr, NEW r2, NEW r, Steps(rr, r2, r, plan), SetsOffLater(events, rr, seen.script)
  PROVE  SetsOffLater(events', r2, seen.script)
<1>1. CASE events' = events /\ r2 = rr
  BY <1>1
<1>2. CASE EventAdded(events, events', rr, r2, <<"robot", r>>)
  <2>1. <<"robot", r>>[1] = "robot"
    OBVIOUS
  <2> QED
    BY <1>2, <2>1, RobotEventAdded, Zenon
<1> QED
  BY <1>1, <1>2 DEF Steps

\* What stays known when requests at most end, and no plan starts or ends.
LEMMA RequestsEnd ==
  ASSUME VacTypes, wish' \in [Visitor -> VacWish], \A x \in Visitor : wish'[x] = wish[x] \/ (wish'[x] = Nobody /\ wish[x].at # "wait"),
         plan' = plan, card' = card, ended' = ended \/ ended' = "stopped", OnlyOff(events) => OnlyOff(events')
  PROVE  /\ StartsKnown => StartsKnown'
         /\ DocksKnown => DocksKnown'
         /\ \A op \in {"start", "dock", "pause", "resume"} : Asked(op)' => Asked(op)
<1>1. Nobody.op = "none" /\ Nobody.at = "none"
  BY DEF Nobody
<1>2. \A op \in {"start", "dock", "pause", "resume"} : Asked(op)' => Asked(op)
  BY <1>1 DEF Asked
<1>3. ASSUME StartsKnown PROVE StartsKnown'
  <2>1. \A v, w \in Visitor : wish'[v].op = "start" /\ wish'[w].op = "start" => v = w
    BY <1>1, <1>3 DEF StartsKnown
  <2>2. \A v \in Visitor : StartWaits(v)' => StartWaits(v) /\ wish'[v] = wish[v]
    BY <1>1 DEF StartWaits
  <2>3. \A v \in Visitor : StartWaits(v) => StartWaits(v)' /\ wish'[v] = wish[v]
    BY DEF StartWaits
  <2> QED
    BY <1>3, <2>1, <2>2, <2>3 DEF StartsKnown
<1>4. ASSUME DocksKnown PROVE DocksKnown'
  <2>1. \A v \in Visitor : wish'[v].op = "dock" => wish'[v] = wish[v]
    BY <1>1
  <2>2. Asked("dock")' => ~Asked("resume")' /\ OnlyOff(events')
    BY <1>2, <1>4 DEF DocksKnown
  <2>3. \A v \in Visitor : wish'[v].op = "dock" /\ wish'[v].at # "off" =>
       plan' = NoPlan /\ (wish'[v].on = TRUE => ended' \in {"person", "stopped"})
    BY <1>4, <2>1 DEF DocksKnown
  <2> QED
    BY <2>2, <2>3 DEF DocksKnown
<1> QED
  BY <1>2, <1>3, <1>4

LEMMA SameTale ==
  ASSUME NEW rr, NEW ss, Tale(rr, ss), UNCHANGED <<robot, plan, seen, events, linked>>
  PROVE  Tale(rr, ss)' /\ (UNCHANGED <<ended, result>> /\ PlanKnown(rr) => PlanKnown(rr)')
  BY Zenon DEF Tale, PlanKnown, Heard

\* Only the robot changes, and no request is at a wait of its start.
LEMMA RobotChanges ==
  ASSUME VacTypes, VacTypes', VacTale, NEW r \in RobotState, Becomes(r, plan), UNCHANGED <<seen, linked, card, result, ended>>,
         r \in {"docked", "station"} => r = robot \/ robot \in {"returning", "station"},
         \A x \in Visitor : wish'[x] = wish[x] \/ (wish'[x] = Nobody /\ wish[x].at # "wait"),
         \A rr, r2 : ~muddled /\ VacClear(rr) /\ Steps(rr, r2, r, plan) => GuardKnows(r2)'
  PROVE  VacTale'
<1>1. PICK rr, ss : Tale(rr, ss) /\ (~muddled => VacClear(rr))
  BY DEF VacTale
<1>2. PICK r2, s2 : Tale(r2, s2)' /\ Steps(rr, r2, r, plan)
  BY <1>1, TaleGoesOn
<1>3. events \in Seq(Event)
  BY <1>1 DEF Tale, Story
<1>4. plan' = plan /\ (~muddled' => ~muddled)
  BY <1>3, BecomesSaid, Zenon
<1>5. ASSUME ~muddled' PROVE VacClear(r2)'
  <2>1. VacClear(rr) /\ ~muddled
    BY <1>1, <1>4, <1>5
  <2>2. PlanKnown(r2)'
    BY <1>2, <1>4, <2>1, PlanKnownStays DEF VacClear
  <2>3. OnlyOff(events) => OnlyOff(events')
    BY <1>2, OffsStay
  <2>4. StartsKnown' /\ DocksKnown'
    <3>1. wish' \in [Visitor -> VacWish]
      BY DEF VacTypes
    <3> QED
      BY <1>4, <2>1, <2>3, <3>1, RequestsEnd DEF VacClear
  <2>5. GuardKnows(r2)'
    BY <1>2, <2>1
  <2> QED
    BY <2>2, <2>4, <2>5 DEF VacClear
<1> QED
  BY <1>2, <1>5 DEF VacTale

LEMMA RobotStartsTale == ASSUME VacTypes, VacTypes', VacTale, RobotStarts PROVE VacTale'
<1>1. Becomes("cleaning", plan) /\ "cleaning" \in RobotState /\ UNCHANGED <<seen, linked, wish, guardian, card, result, ended>>
      /\ order # "none" /\ VState(robot) = "docked" /\ work' = order
  BY DEF RobotStarts, RobotState
<1>2. ASSUME NEW rr, NEW r2, VacClear(rr), Steps(rr, r2, "cleaning", plan) PROVE GuardKnows(r2)'
  <2>1. /\ linked \/ NoScript(events)
        /\ robot # "cleaning"
    BY <1>1 DEF VacTypes, VState, NoScript
  <2>2. order = "wanted" => plan # NoPlan
    BY DEF VacTypes
  <2>3. order = "wanted" => SetsOffLater(events', r2, seen.script)
    BY <1>1, <1>2, <2>1, <2>2, SetsOffKnown DEF VacClear
  <2>4. guardian.left > 0 => ~Asked("resume")
    BY <1>2 DEF VacClear, GuardKnows
  <2>5. Asked("resume")' => Asked("resume")
    BY <1>1 DEF Asked
  <2>6. plan' = plan
    BY <1>1, Zenon DEF Becomes
  <2> QED
    BY <1>1, <2>2, <2>3, <2>4, <2>5, <2>6 DEF GuardKnows
<1> QED
  BY <1>1, <1>2, RobotChanges

LEMMA RobotGoesOnTale == ASSUME VacTypes, VacTypes', VacTale, RobotGoesOn PROVE VacTale'
<1>1. UNCHANGED <<seen, linked, wish, guardian, card, result, ended>>
  BY DEF RobotGoesOn
<1>2. ASSUME NEW r \in RobotState, Becomes(r, plan), r # "cleaning",
             r \in {"docked", "station"} => robot \in {"returning", "station"}
      PROVE  VacTale'
  <2>1. ASSUME NEW rr, NEW r2, VacClear(rr) PROVE GuardKnows(r2)'
    <3>1. robot' # "cleaning" /\ (Asked("resume")' => Asked("resume"))
      BY <1>1, <1>2, Zenon DEF Becomes, Asked
    <3> QED
      BY <1>1, <2>1, <3>1 DEF VacClear, GuardKnows
  <2> QED
    BY <1>1, <1>2, <2>1, RobotChanges
<1> QED
  BY <1>2 DEF RobotGoesOn, RobotState

LEMMA PauseTale == ASSUME VacTypes, VacTypes', VacTale, NEW v \in Visitor, PauseCalls(v) PROVE VacTale'
<1> DEFINE r == IF robot = "cleaning" THEN "paused" ELSE robot
<1>1. Becomes(r, plan) /\ UNCHANGED <<seen, linked, guardian, card, result, ended>> /\ wish' = [wish EXCEPT ![v] = Nobody] /\ wish[v].at = "call"
  BY DEF PauseCalls, Leaves
<1>2. r \in RobotState /\ r # "cleaning" /\ (r \in {"docked", "station"} => r = robot)
  BY DEF VacTypes, RobotState
<1>3. \A x \in Visitor : wish'[x] = wish[x] \/ (wish'[x] = Nobody /\ wish[x].at # "wait")
  BY <1>1 DEF VacTypes
<1>4. ASSUME NEW rr, NEW r2, VacClear(rr) PROVE GuardKnows(r2)'
  <2>1. robot' # "cleaning"
    BY <1>1, <1>2, Zenon DEF Becomes
  <2>2. Asked("resume")' => Asked("resume")
    BY <1>3 DEF Asked, Nobody
  <2> QED
    BY <1>1, <1>4, <2>1, <2>2 DEF VacClear, GuardKnows
<1> HIDE DEF r
<1> QED
  BY <1>1, <1>2, <1>3, <1>4, RobotChanges

LEMMA ResumeTale == ASSUME VacTypes, VacTypes', VacTale, NEW v \in Visitor, ResumeCalls(v) PROVE VacTale'
<1>1. Becomes("cleaning", plan) /\ "cleaning" \in RobotState /\ UNCHANGED <<seen, linked, guardian, card, result, ended>>
      /\ wish' = [wish EXCEPT ![v] = Nobody] /\ wish[v].at = "call" /\ wish[v].op = "resume"
  BY DEF ResumeCalls, Leaves, RobotState
<1>2. \A x \in Visitor : wish'[x] = wish[x] \/ (wish'[x] = Nobody /\ wish[x].at # "wait")
  BY <1>1 DEF VacTypes
<1>3. ASSUME NEW rr, NEW r2, VacClear(rr) PROVE GuardKnows(r2)'
  BY <1>1, <1>3 DEF VacClear, GuardKnows, Asked
<1> QED
  BY <1>1, <1>2, <1>3, RobotChanges

LEMMA GuardSendsTale == ASSUME VacTypes, VacTypes', VacTale, GuardSends PROVE VacTale'
<1>1. UNCHANGED <<order, seen, linked, wish, card, result, ended>> /\ guardian.left > 0
  BY DEF GuardSends
<1>2. Asked("resume")' => Asked("resume")
  BY <1>1 DEF Asked
<1>3. CASE UNCHANGED <<robot, plan, events, work, muddled, spoiled>>
  <2>1. PICK rr, ss : Tale(rr, ss) /\ (~muddled => VacClear(rr))
    BY DEF VacTale
  <2>2. Tale(rr, ss)' /\ (PlanKnown(rr) => PlanKnown(rr)')
    BY <1>1, <1>3, <2>1, SameTale
  <2>3. ASSUME ~muddled' PROVE VacClear(rr)'
    <3>1. VacClear(rr)
      BY <1>3, <2>1, <2>3
    <3>2. StartsKnown' /\ DocksKnown'
      BY <1>1, <1>3, <3>1, RequestsEnd DEF VacClear, VacTypes
    <3>3. GuardKnows(rr)'
      BY <1>1, <1>2, <1>3, <3>1 DEF VacClear, GuardKnows
    <3> QED
      BY <2>2, <3>1, <3>2, <3>3 DEF VacClear
  <2> QED
    BY <2>2, <2>3 DEF VacTale
<1>4. CASE Becomes(Home(robot), plan)
  <2>1. Home(robot) \in RobotState /\ Home(robot) # "cleaning" /\ (Home(robot) \in {"docked", "station"} => Home(robot) = robot)
    BY DEF VacTypes, RobotState, Home
  <2>2. ASSUME NEW rr, NEW r2, VacClear(rr) PROVE GuardKnows(r2)'
    <3>1. robot' # "cleaning"
      BY <1>4, <2>1, Zenon DEF Becomes
    <3> QED
      BY <1>1, <1>2, <2>2, <3>1 DEF VacClear, GuardKnows
  <2> QED
    BY <1>1, <1>4, <2>1, <2>2, RobotChanges
<1> QED
  BY <1>3, <1>4 DEF GuardSends

LEMMA NewTale ==
  ASSUME VacTypes, VacTale, NEW p, Becomes(robot, p), UNCHANGED <<seen, linked>>
  PROVE  \E rr, r2, s2 :
           /\ Tale(r2, s2)' /\ Steps(rr, r2, robot, p) /\ robot' = robot /\ plan' = p
           /\ ~muddled' => /\ ~muddled /\ VacClear(rr) /\ (linked \/ ((p = NoPlan) = (plan = NoPlan)))
                           /\ ~(plan = NoPlan /\ p # NoPlan /\ Asked("dock"))
<1>1. PICK rr, ss : Tale(rr, ss) /\ (~muddled => VacClear(rr))
  BY DEF VacTale
<1>2. robot \in RobotState
  BY DEF VacTypes
<1>3. PICK r2, s2 : Tale(r2, s2)' /\ Steps(rr, r2, robot, p)
  BY <1>1, <1>2, TaleGoesOn
<1>4. events \in Seq(Event)
  BY <1>1 DEF Tale, Story
<1>5. /\ robot' = robot /\ plan' = p
      /\ ~muddled' => /\ ~muddled /\ (linked \/ ((p = NoPlan) = (plan = NoPlan)))
                      /\ ~(plan = NoPlan /\ p # NoPlan /\ Asked("dock"))
  BY <1>2, <1>4, BecomesSaid, Zenon
<1> QED
  BY <1>1, <1>3, <1>5

LEMMA PlanEndsTale == ASSUME VacTypes, VacTale, PlanEnds PROVE VacTale'
<1>1. Becomes(robot, NoPlan) /\ plan # NoPlan /\ robot # "cleaning" /\ UNCHANGED <<work, seen, linked, wish, guardian, card, result>>
      /\ ended' = IF VState(robot) = "docked" THEN "home" ELSE "away"
  BY DEF PlanEnds
<1>2. PICK rr, r2, s2 :
           /\ Tale(r2, s2)' /\ Steps(rr, r2, robot, NoPlan) /\ robot' = robot /\ plan' = NoPlan
           /\ ~muddled' => /\ ~muddled /\ VacClear(rr) /\ (linked \/ ((NoPlan = NoPlan) = (plan = NoPlan)))
  BY <1>1, NewTale
<1>3. ASSUME ~muddled' PROVE VacClear(r2)'
  <2>1. VacClear(rr) /\ linked
    BY <1>1, <1>2, <1>3
  <2>2. EndsAt(ended', robot)
    BY <1>1 DEF EndsAt
  <2>3. PlanKnown(r2)'
    BY <1>1, <1>2, <2>1, <2>2, PlanEndKnown
  <2>4. StartsKnown'
    BY <1>1, <1>2, <2>1, ScenariosAreNamed DEF VacClear, StartsKnown, StartWaits
  <2>5. OnlyOff(events) => OnlyOff(events')
    BY <1>2, OffsStay DEF VacTypes
  <2>6. DocksKnown'
    BY <1>1, <1>2, <2>1, <2>5 DEF VacClear, DocksKnown, Asked
  <2>7. GuardKnows(r2)'
    BY <1>1, <1>2, <2>1 DEF VacClear, GuardKnows, Asked
  <2> QED
    BY <2>3, <2>4, <2>6, <2>7 DEF VacClear
<1> QED
  BY <1>2, <1>3 DEF VacTale

LEMMA ScheduleTale == ASSUME VacTypes, VacTale, ScheduleStarts PROVE VacTale'
<1>1. Becomes(robot, Scheduled) /\ plan = NoPlan /\ VState(robot) = "docked" /\ UNCHANGED <<work, seen, linked, wish, guardian, card, result, ended>>
      /\ Scheduled # NoPlan
  BY Zenon DEF ScheduleStarts, Scheduled, NoPlan
<1>2. PICK rr, r2, s2 :
           /\ Tale(r2, s2)' /\ Steps(rr, r2, robot, Scheduled) /\ robot' = robot /\ plan' = Scheduled
           /\ ~muddled' => /\ ~muddled /\ VacClear(rr) /\ (linked \/ ((Scheduled = NoPlan) = (plan = NoPlan)))
                           /\ ~(plan = NoPlan /\ Scheduled # NoPlan /\ Asked("dock"))
  BY <1>1, NewTale
<1>3. ASSUME ~muddled' PROVE VacClear(r2)'
  <2>1. VacClear(rr) /\ linked /\ ~Asked("dock")
    BY <1>1, <1>2, <1>3
  <2>2. PlanKnown(r2)'
    BY <1>1, <1>2, <2>1, PlanStartKnown
  <2>3. StartsKnown'
    BY <1>1, <1>2, <2>1, ScenariosAreNamed DEF VacClear, StartsKnown, StartWaits
  <2>4. DocksKnown'
    BY <1>1, <2>1 DEF DocksKnown, Asked
  <2>5. GuardKnows(r2)'
    <3>1. robot # "cleaning"
      BY <1>1 DEF VState
    <3> QED
      BY <1>1, <1>2, <2>1, <3>1 DEF VacClear, GuardKnows, Asked
  <2> QED
    BY <2>2, <2>3, <2>4, <2>5 DEF VacClear
<1> QED
  BY <1>2, <1>3 DEF VacTale

LEMMA TurnOnTale == ASSUME VacTypes, VacTale, NEW v \in Visitor, TurnOn(v) PROVE VacTale'
<1> DEFINE s == wish[v].scenario
<1>1. wish[v].op = "start" /\ wish[v].at = "call" /\ wish' = [wish EXCEPT ![v].at = "wait"]
      /\ UNCHANGED <<work, seen, linked, guardian, card, result, ended>>
  BY DEF TurnOn, Goes
<1>2. s \in Scenario /\ s # NoPlan /\ s # Scheduled
  BY <1>1, WishField, ScenariosAreNamed, Zenon DEF WishOK
<1>3. /\ wish'[v] = [wish[v] EXCEPT !.at = "wait"] /\ \A x \in Visitor : x # v => wish'[x] = wish[x]
      /\ \A x \in Visitor : wish'[x].op = wish[x].op /\ wish'[x].scenario = wish[x].scenario /\ wish'[x].on = wish[x].on
      /\ wish'[v].at = "wait" /\ wish'[v].op = "start"
  <2>1. wish'[v] = [wish[v] EXCEPT !.at = "wait"] /\ \A x \in Visitor : x # v => wish'[x] = wish[x]
    BY <1>1 DEF VacTypes
  <2>2. wish[v] \in VacWish
    BY WishField
  <2> QED
    BY <1>1, <2>1, <2>2 DEF VacWish
<1>4. (\A op : Asked(op)' <=> Asked(op)) /\ \A x \in Visitor : wish'[x].op = "dock" => wish'[x] = wish[x]
  BY <1>1, <1>3 DEF Asked
<1>5. StartsKnown /\ plan' = s => StartsKnown'
  <2> SUFFICES ASSUME StartsKnown, plan' = s PROVE StartsKnown'
    OBVIOUS
  <2>1. \A x, y \in Visitor : wish'[x].op = "start" /\ wish'[y].op = "start" => x = y
    BY <1>3 DEF StartsKnown
  <2>2. \A x \in Visitor : StartWaits(x)' => plan' \in {wish'[x].scenario, NoPlan, Scheduled}
    BY <1>3, <2>1 DEF StartWaits
  <2>3. StartWaits(v)' /\ wish'[v].scenario = plan'
    BY <1>3 DEF StartWaits
  <2> QED
    BY <2>1, <2>2, <2>3 DEF StartsKnown
<1> HIDE DEF s
<1>6. CASE plan = NoPlan
  <2>1. Becomes(robot, s) /\ plan = NoPlan
    BY <1>6 DEF TurnOn, s
  <2>2. PICK rr, r2, s2 :
           /\ Tale(r2, s2)' /\ Steps(rr, r2, robot, s) /\ robot' = robot /\ plan' = s
           /\ ~muddled' => /\ ~muddled /\ VacClear(rr) /\ (linked \/ ((s = NoPlan) = (plan = NoPlan)))
                           /\ ~(plan = NoPlan /\ s # NoPlan /\ Asked("dock"))
    BY <1>1, <2>1, NewTale
  <2>3. ASSUME ~muddled' PROVE VacClear(r2)'
    <3>1. VacClear(rr) /\ linked /\ ~Asked("dock")
      BY <1>2, <2>1, <2>2, <2>3
    <3>2. PlanKnown(r2)'
      BY <1>2, <2>1, <2>2, <3>1, PlanStartKnown
    <3>3. DocksKnown'
      BY <1>4, <3>1 DEF DocksKnown, Asked
    <3>4. GuardKnows(r2)'
      BY <1>1, <1>4, <2>1, <2>2, <3>1 DEF VacClear, GuardKnows
    <3> QED
      BY <1>5, <2>2, <3>1, <3>2, <3>3, <3>4 DEF VacClear
  <2> QED
    BY <2>2, <2>3 DEF VacTale
<1>7. CASE plan # NoPlan
  <2>1. UNCHANGED <<robot, plan, events, order>> /\ (~muddled' => ~muddled /\ plan = s)
    BY <1>7, Zenon DEF TurnOn, s
  <2>2. PICK rr, ss : Tale(rr, ss) /\ (~muddled => VacClear(rr))
    BY DEF VacTale
  <2>3. Tale(rr, ss)' /\ (PlanKnown(rr) => PlanKnown(rr)')
    BY <1>1, <2>1, <2>2, SameTale
  <2>4. ASSUME ~muddled' PROVE VacClear(rr)'
    <3>1. VacClear(rr) /\ plan' = s
      BY <2>1, <2>2, <2>4
    <3>2. DocksKnown'
      <4>1. Asked("dock")' => ~Asked("resume")' /\ OnlyOff(events')
        BY <1>4, <2>1, <3>1 DEF VacClear, DocksKnown
      <4> QED
        BY <1>1, <1>4, <2>1, <3>1, <4>1 DEF VacClear, DocksKnown
    <3>3. GuardKnows(rr)'
      BY <1>1, <1>4, <2>1, <3>1 DEF VacClear, GuardKnows
    <3> QED
      BY <1>5, <2>3, <3>1, <3>2, <3>3 DEF VacClear
  <2> QED
    BY <2>3, <2>4 DEF VacTale
<1> QED
  BY <1>6, <1>7

LEMMA TurnOffTale == ASSUME VacTypes, VacTale, NEW v \in Visitor, TurnOff(v) PROVE VacTale'
<1>1. wish[v].at = "off" /\ wish[v].op = "dock" /\ wish' = [wish EXCEPT ![v].at = "home"] /\ Becomes(robot, NoPlan)
      /\ UNCHANGED <<seen, linked, guardian, card, result>> /\ ended' = "person" /\ work' = Stopped(work)
  BY WishField, Zenon DEF TurnOff, Goes, WishOK
<1>2. /\ \A x \in Visitor : wish'[x].op = wish[x].op
      /\ \A x \in Visitor : wish'[x].op = "start" => wish'[x] = wish[x]
  <2>1. wish[v] \in VacWish /\ wish'[v] = [wish[v] EXCEPT !.at = "home"] /\ \A x \in Visitor : x # v => wish'[x] = wish[x]
    BY <1>1, WishField DEF VacTypes
  <2> QED
    BY <1>1, <2>1 DEF VacWish
<1>3. PICK rr, r2, s2 :
           /\ Tale(r2, s2)' /\ Steps(rr, r2, robot, NoPlan) /\ robot' = robot /\ plan' = NoPlan
           /\ ~muddled' => /\ ~muddled /\ VacClear(rr) /\ (linked \/ ((NoPlan = NoPlan) = (plan = NoPlan)))
  BY <1>1, NewTale
<1>4. ASSUME ~muddled' PROVE VacClear(r2)'
  <2>1. VacClear(rr)
    BY <1>3, <1>4
  <2>2. PlanKnown(r2)'
    <3>1. CASE plan # NoPlan
      <4>1. linked /\ EndsAt(ended', robot)
        BY <1>1, <1>3, <1>4, <3>1 DEF EndsAt
      <4> QED
        BY <1>3, <3>1, <4>1, PlanEndKnown
    <3>2. CASE plan = NoPlan
      <4>1. events' = events /\ r2 = rr
        BY <1>3, <3>2 DEF Steps
      <4>2. ResultOf(ended', result') /\ \A i : EndsAt(ended', r2[i])
        BY <1>1 DEF ResultOf, EndsAt
      <4> QED
        BY <1>1, <1>3, <2>1, <3>2, <4>1, <4>2, Zenon DEF VacClear, PlanKnown
    <3> QED
      BY <3>1, <3>2
  <2>3. StartsKnown'
    BY <1>2, <1>3, <2>1, ScenariosAreNamed DEF VacClear, StartsKnown, StartWaits
  <2>4. OnlyOff(events) => OnlyOff(events')
    BY <1>3, OffsStay DEF VacTypes
  <2>5. \A op : Asked(op)' <=> Asked(op)
    BY <1>2 DEF Asked
  <2>6. Asked("dock")' => ~Asked("resume")' /\ OnlyOff(events')
    BY <2>1, <2>4, <2>5 DEF VacClear, DocksKnown
  <2>7. DocksKnown'
    BY <1>1, <1>3, <2>6 DEF DocksKnown
  <2>8. GuardKnows(r2)'
    BY <1>1, <2>1, <2>5 DEF VacClear, GuardKnows, Stopped
  <2> QED
    BY <2>2, <2>3, <2>7, <2>8 DEF VacClear
<1> QED
  BY <1>3, <1>4 DEF VacTale

LEMMA ReturnTale == ASSUME VacTypes, VacTypes', VacTale, NEW v \in Visitor, ReturnToBase(v) PROVE VacTale'
<1> DEFINE r == Home(robot)
<1>1. wish[v].at = "home" /\ wish[v].op = "dock" /\ wish' = [wish EXCEPT ![v].at = "robot"] /\ Becomes(r, plan)
      /\ UNCHANGED <<order, seen, linked, card, result, ended>>
  BY WishField, Zenon DEF ReturnToBase, Goes, WishOK
<1>2. r \in RobotState /\ r # "cleaning" /\ (r \in {"docked", "station"} => r = robot)
  BY DEF VacTypes, RobotState, Home
<1> HIDE DEF r
<1>3. /\ \A x \in Visitor : wish'[x].op = wish[x].op /\ wish'[x].on = wish[x].on
      /\ \A x \in Visitor : wish'[x].op = "start" => wish'[x] = wish[x]
      /\ \A x \in Visitor : wish[x].op = "dock" /\ wish'[x].at # "off" => wish[x].at # "off"
  <2>1. wish[v] \in VacWish /\ wish'[v] = [wish[v] EXCEPT !.at = "robot"] /\ \A x \in Visitor : x # v => wish'[x] = wish[x]
    BY <1>1, WishField DEF VacTypes
  <2> QED
    BY <1>1, <2>1 DEF VacWish
<1>4. \A op : Asked(op)' <=> Asked(op)
  BY <1>3 DEF Asked
<1>5. PICK rr, ss : Tale(rr, ss) /\ (~muddled => VacClear(rr))
  BY DEF VacTale
<1>6. PICK r2, s2 : Tale(r2, s2)' /\ Steps(rr, r2, r, plan)
  BY <1>1, <1>2, <1>5, TaleGoesOn
<1>7. events \in Seq(Event)
  BY <1>5 DEF Tale, Story
<1>8. plan' = plan /\ robot' = r /\ (~muddled' => ~muddled)
  BY <1>1, <1>2, <1>7, BecomesSaid, Zenon
<1>9. ASSUME ~muddled' PROVE VacClear(r2)'
  <2>1. VacClear(rr)
    BY <1>5, <1>8, <1>9
  <2>2. PlanKnown(r2)'
    BY <1>1, <1>6, <1>8, <2>1, PlanKnownStays DEF VacClear
  <2>3. OnlyOff(events) => OnlyOff(events')
    BY <1>2, <1>6, OffsStay
  <2>4. StartsKnown'
    <3>1. \A x \in Visitor : StartWaits(x)' <=> StartWaits(x)
      BY <1>3 DEF StartWaits
    <3>2. \A x \in Visitor : StartWaits(x) => wish'[x] = wish[x]
      BY <1>3 DEF StartWaits
    <3> QED
      BY <1>1, <1>3, <1>8, <2>1, <3>1, <3>2 DEF VacClear, StartsKnown
  <2>5. DocksKnown'
    <3>1. Asked("dock")' => ~Asked("resume")' /\ OnlyOff(events')
      BY <1>4, <2>1, <2>3 DEF VacClear, DocksKnown
    <3> QED
      BY <1>1, <1>3, <1>8, <2>1, <3>1 DEF VacClear, DocksKnown
  <2>6. GuardKnows(r2)'
    <3>1. ~Asked("resume")'
      BY <1>1, <1>4, <2>1 DEF VacClear, DocksKnown, Asked
    <3> QED
      BY <1>2, <1>8, <3>1 DEF GuardKnows
  <2> QED
    BY <2>2, <2>4, <2>5, <2>6 DEF VacClear
<1> QED
  BY <1>6, <1>9 DEF VacTale

\* A step of the gateway that leaves the robot, the plan, the cache and the events alone.
LEMMA GatewayTale ==
  ASSUME VacTale, UNCHANGED <<robot, plan, seen, events, linked>>,
         ~muddled' => ~muddled,
         \A rr, ss : Tale(rr, ss) /\ VacClear(rr) /\ ~muddled' => VacClear(rr)'
  PROVE  VacTale'
<1>1. PICK rr, ss : Tale(rr, ss) /\ (~muddled => VacClear(rr))
  BY DEF VacTale
<1>2. Tale(rr, ss)'
  BY <1>1, SameTale
<1> QED
  BY <1>1, <1>2 DEF VacTale

\* ... and of the requests ends at most one.
LEMMA QuietTale ==
  ASSUME VacTypes, VacTypes', VacTale, UNCHANGED <<robot, plan, seen, events, linked, card, ended, result, muddled>>,
         \A x \in Visitor : wish'[x] = wish[x] \/ (wish'[x] = Nobody /\ wish[x].at # "wait"),
         guardian'.left > 0 => guardian.left > 0, work' = work
  PROVE  VacTale'
<1>1. ASSUME NEW rr, NEW ss, VacClear(rr) PROVE VacClear(rr)'
  <2>1. PlanKnown(rr)'
    BY <1>1, Zenon DEF VacClear, PlanKnown, Heard
  <2>2. /\ StartsKnown' /\ DocksKnown'
        /\ \A op \in {"start", "dock", "pause", "resume"} : Asked(op)' => Asked(op)
    <3>1. wish' \in [Visitor -> VacWish]
      BY DEF VacTypes
    <3> QED
      BY <1>1, <3>1, RequestsEnd DEF VacClear
  <2>3. GuardKnows(rr)'
    BY <1>1, <2>2 DEF VacClear, GuardKnows
  <2> QED
    BY <2>1, <2>2, <2>3 DEF VacClear
<1> QED
  BY <1>1, GatewayTale

LEMMA Leaver == ASSUME VacTypes, NEW v \in Visitor, wish[v].at # "wait", Leaves(v)
                PROVE  \A x \in Visitor : wish'[x] = wish[x] \/ (wish'[x] = Nobody /\ wish[x].at # "wait")
  BY DEF VacTypes, Leaves

LEMMA QuietSteps ==
  ASSUME VacTypes, VacTypes', VacTale,
         UNCHANGED vacVars \/ PlanGoesOn \/ GuardPasses \/ GuardYields \/ \E v \in Visitor : CallFails(v)
  PROVE  VacTale'
<1>1. CASE UNCHANGED vacVars \/ PlanGoesOn
  BY <1>1, QuietTale DEF vacVars, PlanGoesOn
<1>2. CASE GuardPasses \/ GuardYields
  <2>1. guardian'.left > 0 => guardian.left > 0
    BY <1>2 DEF GuardPasses, GuardYields
  <2>2. UNCHANGED <<robot, plan, seen, events, linked, card, ended, result, muddled, wish, work>>
    BY <1>2 DEF GuardPasses, GuardYields
  <2> QED
    BY <2>1, <2>2, QuietTale
<1>3. ASSUME NEW v \in Visitor, CallFails(v) PROVE VacTale'
  <2>1. Leaves(v) /\ wish[v].at # "wait" /\ UNCHANGED <<robot, plan, seen, events, linked, card, ended, result, muddled, guardian, work>>
    BY <1>3 DEF CallFails
  <2> QED
    BY <2>1, Leaver, QuietTale
<1> QED
  BY <1>1, <1>2, <1>3

LEMMA NewRequest ==
  ASSUME VacTypes, NEW v \in Visitor, NEW w, Asks(v, w), w.op \in {"start", "dock", "pause", "resume"}
  PROVE  /\ wish'[v] = w /\ linked /\ wish[v].op = "none" /\ \A x \in Visitor : x # v => wish'[x] = wish[x]
         /\ \A op \in {"start", "dock", "pause", "resume"} : op # w.op => (Asked(op)' => Asked(op))
         /\ UNCHANGED <<robot, plan, order, work, seen, events, linked, card, result, ended>>
<1>1. wish'[v] = w /\ linked /\ wish[v].op = "none" /\ (\A x \in Visitor : x # v => wish'[x] = wish[x])
      /\ UNCHANGED <<robot, plan, order, work, seen, events, linked, card, result, ended>>
  BY DEF Asks, VacTypes, Nobody
<1>2. \A op \in {"start", "dock", "pause", "resume"} : op # w.op => (Asked(op)' => Asked(op))
  BY <1>1 DEF Asked
<1> QED
  BY <1>1, <1>2

LEMMA AskedTale ==
  ASSUME VacTypes, VacTale, NEW v \in Visitor, NEW w, Asks(v, w), ~muddled' => ~muddled,
         guardian' = guardian \/ guardian' = NoGuard,
         \/ w.op = "start" /\ w.at = "call" /\ (muddled' = (muddled \/ Asked("start"))) /\ guardian' = guardian
         \/ w.op = "pause" /\ w.at = "call" /\ guardian' = guardian
         \/ w.op = "resume" /\ w.at = "call" /\ guardian' = NoGuard /\ (~muddled' => ~Asked("dock"))
         \/ w.op = "dock" /\ w.on = seen.script /\ (seen.script = TRUE => w.at = "off") /\ guardian' = guardian
            /\ (~muddled' => ~Asked("resume") /\ NoScript(events))
  PROVE  VacTale'
<1>1. /\ wish'[v] = w /\ linked /\ wish[v].op = "none" /\ (\A x \in Visitor : x # v => wish'[x] = wish[x])
      /\ (\A op \in {"start", "dock", "pause", "resume"} : op # w.op => (Asked(op)' => Asked(op)))
      /\ UNCHANGED <<robot, plan, order, work, seen, events, linked, card, result, ended>>
  BY NewRequest
<1>2. ASSUME NEW rr, NEW ss, Tale(rr, ss), VacClear(rr), ~muddled' PROVE VacClear(rr)'
  <2>1. PlanKnown(rr)'
    BY <1>1, <1>2, Zenon DEF VacClear, PlanKnown, Heard
  <2>2. StartsKnown'
    <3>1. \A x, y \in Visitor : wish'[x].op = "start" /\ wish'[y].op = "start" => x = y
      <4>1. w.op = "start" => ~Asked("start")
        BY <1>2, Zenon
      <4> QED
        BY <1>1, <1>2, <4>1 DEF VacClear, StartsKnown, Asked
    <3>2. \A x \in Visitor : StartWaits(x)' => StartWaits(x) /\ wish'[x] = wish[x]
      BY <1>1 DEF StartWaits
    <3>3. \A x \in Visitor : StartWaits(x) => StartWaits(x)' /\ wish'[x] = wish[x]
      BY <1>1 DEF StartWaits
    <3> QED
      BY <1>1, <1>2, <3>1, <3>2, <3>3 DEF VacClear, StartsKnown
  <2>3. DocksKnown'
    <3>1. CASE w.op = "dock"
      <4>1. ~Asked("resume")' /\ NoScript(events)
        BY <1>1, <1>2, <3>1
      <4>2. OnlyOff(events')
        BY <1>1, <4>1 DEF OnlyOff, NoScript
      <4>3. w.at # "off" => plan = NoPlan /\ ~(w.on = TRUE)
        <5>1. \A i, b : ~LastScript(events, i, b)
          BY <4>1 DEF NoScript, LastScript
        <5> QED
          BY <1>2, <3>1, <5>1, Zenon DEF VacClear, PlanKnown, Heard
      <4> QED
        BY <1>1, <1>2, <4>1, <4>2, <4>3 DEF VacClear, DocksKnown
    <3>2. CASE w.op # "dock"
      <4>1. \A x \in Visitor : wish'[x].op = "dock" => wish'[x] = wish[x]
        BY <1>1, <3>2
      <4>2. Asked("dock")' => ~Asked("resume")' /\ OnlyOff(events')
        BY <1>1, <1>2, <3>2 DEF VacClear, DocksKnown
      <4> QED
        BY <1>1, <1>2, <4>1, <4>2 DEF VacClear, DocksKnown
    <3> QED
      BY <3>1, <3>2
  <2>4. GuardKnows(rr)'
    <3>1. CASE w.op = "resume"
      BY <3>1 DEF GuardKnows, NoGuard
    <3>2. CASE w.op # "resume"
      BY <1>1, <1>2, <3>2 DEF VacClear, GuardKnows
    <3> QED
      BY <3>1, <3>2
  <2> QED
    BY <2>1, <2>2, <2>3, <2>4 DEF VacClear
<1> QED
  BY <1>1, <1>2, GatewayTale

LEMMA RequestTale ==
  ASSUME VacTypes, VacTale, NEW v \in Visitor, (\E s \in Scenario : StartScenario(v, s)) \/ Dock(v) \/ Pause(v) \/ Resume(v)
  PROVE  VacTale'
<1>1. ASSUME NEW s \in Scenario, StartScenario(v, s) PROVE VacTale'
  <2> DEFINE w == [Nobody EXCEPT !.op = "start", !.at = "call", !.scenario = s]
  <2>1. w.op = "start" /\ w.at = "call"
    BY DEF Nobody
  <2>2. muddled' = (muddled \/ Asked("start")) /\ guardian' = guardian /\ Asks(v, w)
    BY <1>1, Zenon DEF StartScenario
  <2>3. ~muddled' => ~muddled
    BY <2>2
  <2> HIDE DEF w
  <2> QED
    BY <2>1, <2>2, <2>3, AskedTale, Zenon
<1>2. CASE Dock(v)
  <2> DEFINE w == [Nobody EXCEPT !.op = "dock", !.on = seen.script, !.was = VState(seen.robot),
                            !.at = IF seen.script THEN "off" ELSE IF VState(seen.robot) # "docked" THEN "home" ELSE "robot"]
  <2>1. w.op = "dock" /\ w.on = seen.script /\ (seen.script = TRUE => w.at = "off")
    BY DEF Nobody
  <2>2. /\ muddled' = \/ muddled \/ Asked("resume")
                      \/ \E i \in DOMAIN events : events[i][1] = "script"
        /\ guardian' = guardian /\ Asks(v, w)
    BY <1>2, Zenon DEF Dock
  <2>3. DOMAIN events = 1..Len(events)
    BY DEF VacTale, Tale, Story
  <2>4. ~muddled' => ~muddled /\ ~Asked("resume") /\ NoScript(events)
    BY <2>2, <2>3 DEF NoScript
  <2> HIDE DEF w
  <2> QED
    BY <2>1, <2>2, <2>4, AskedTale, Zenon
<1>3. CASE Pause(v)
  <2> DEFINE w == [Nobody EXCEPT !.op = "pause", !.at = "call"]
  <2>1. w.op = "pause" /\ w.at = "call"
    BY DEF Nobody
  <2>2. muddled' = muddled /\ guardian' = guardian /\ Asks(v, w)
    BY <1>3 DEF Pause
  <2> HIDE DEF w
  <2> QED
    BY <2>1, <2>2, AskedTale, Zenon
<1>4. CASE Resume(v)
  <2> DEFINE w == [Nobody EXCEPT !.op = "resume", !.at = "call"]
  <2>1. w.op = "resume" /\ w.at = "call"
    BY DEF Nobody
  <2>2. muddled' = (muddled \/ Asked("dock")) /\ guardian' = NoGuard /\ Asks(v, w)
    BY <1>4, Zenon DEF Resume
  <2>3. ~muddled' => ~muddled /\ ~Asked("dock")
    BY <2>2
  <2> HIDE DEF w
  <2> QED
    BY <2>1, <2>2, <2>3, AskedTale, Zenon
<1> QED
  BY <1>1, <1>2, <1>3, <1>4

LEMMA StartEndsTale == ASSUME VacTypes, VacTypes', VacTale, NEW v \in Visitor, StartEnds(v) PROVE VacTale'
<1>1. wish[v].op = "start" /\ wish[v].at = "wait" /\ wish' = [wish EXCEPT ![v] = Nobody]
      /\ UNCHANGED <<robot, plan, order, work, seen, events, linked, guardian, result, ended>>
  BY DEF StartEnds, Leaves
<1>2. (~muddled' => ~muddled /\ seen.script) /\ card' = (IF seen.script THEN wish[v].scenario ELSE card)
  BY Zenon DEF StartEnds
<1>3. wish'[v] = Nobody /\ (\A x \in Visitor : x # v => wish'[x] = wish[x]) /\ Nobody.op = "none"
  BY <1>1 DEF VacTypes, Nobody
<1>4. \A op \in {"start", "dock", "pause", "resume"} : Asked(op)' => Asked(op)
  BY <1>3 DEF Asked
<1>5. ASSUME NEW rr, NEW ss, VacClear(rr), ~muddled' PROVE VacClear(rr)'
  <2>1. PlanKnown(rr)'
    BY <1>1, <1>5, Zenon DEF VacClear, PlanKnown, Heard
  <2>2. StartsKnown'
    <3>1. \A x \in Visitor : wish'[x].op # "start"
      BY <1>1, <1>3, <1>5 DEF VacClear, StartsKnown
    <3>2. plan \in Scenario => card' = plan
      BY <1>1, <1>2, <1>5, ScenariosAreNamed DEF VacClear, StartsKnown, StartWaits
    <3> QED
      BY <1>1, <3>1, <3>2 DEF StartsKnown, StartWaits
  <2>3. DocksKnown'
    <3>1. \A x \in Visitor : wish'[x].op = "dock" => wish'[x] = wish[x]
      BY <1>3
    <3>2. Asked("dock")' => ~Asked("resume")' /\ OnlyOff(events')
      BY <1>1, <1>4, <1>5 DEF VacClear, DocksKnown
    <3> QED
      BY <1>1, <1>5, <3>1, <3>2 DEF VacClear, DocksKnown
  <2>4. GuardKnows(rr)'
    BY <1>1, <1>4, <1>5 DEF VacClear, GuardKnows
  <2> QED
    BY <2>1, <2>2, <2>3, <2>4 DEF VacClear
<1> QED
  BY <1>1, <1>2, <1>5, GatewayTale

LEMMA DockSeesTale == ASSUME VacTypes, VacTypes', VacTale, NEW v \in Visitor, DockSees(v) PROVE VacTale'
<1>1. wish[v].at = "robot" /\ wish[v].op = "dock"
      /\ UNCHANGED <<robot, plan, order, work, seen, events, linked, guardian, card, result, ended, muddled>>
  BY WishField, Zenon DEF DockSees, WishOK
<1>2. /\ \A x \in Visitor : wish'[x].op = wish[x].op /\ wish'[x].on = wish[x].on
      /\ \A x \in Visitor : wish'[x].op = "start" => wish'[x] = wish[x]
      /\ \A x \in Visitor : wish[x].op = "dock" /\ wish'[x].at # "off" => wish[x].at # "off"
  <2>1. wish[v] \in VacWish /\ wish'[v] = [wish[v] EXCEPT !.at = "script", !.ok = seen.robot \in {"returning", "docked"}]
        /\ \A x \in Visitor : x # v => wish'[x] = wish[x]
    BY <1>1, WishField DEF VacTypes, DockSees
  <2> QED
    BY <1>1, <2>1 DEF VacWish
<1>3. \A op : Asked(op)' <=> Asked(op)
  BY <1>2 DEF Asked
<1>4. ASSUME NEW rr, NEW ss, VacClear(rr) PROVE VacClear(rr)'
  <2>1. PlanKnown(rr)'
    BY <1>1, <1>4, Zenon DEF VacClear, PlanKnown, Heard
  <2>2. StartsKnown'
    <3>1. \A x \in Visitor : StartWaits(x)' <=> StartWaits(x)
      BY <1>1, <1>2 DEF StartWaits
    <3>2. \A x \in Visitor : StartWaits(x) => wish'[x] = wish[x]
      BY <1>2 DEF StartWaits
    <3> QED
      BY <1>1, <1>2, <1>4, <3>1, <3>2 DEF VacClear, StartsKnown
  <2>3. DocksKnown'
    <3>1. Asked("dock")' => ~Asked("resume")' /\ OnlyOff(events')
      BY <1>1, <1>3, <1>4 DEF VacClear, DocksKnown
    <3> QED
      BY <1>1, <1>2, <1>4, <3>1 DEF VacClear, DocksKnown
  <2>4. GuardKnows(rr)'
    BY <1>1, <1>3, <1>4 DEF VacClear, GuardKnows
  <2> QED
    BY <2>1, <2>2, <2>3, <2>4 DEF VacClear
<1> QED
  BY <1>1, <1>4, GatewayTale

\* The first change of the script that the cache has not seen is another one than it has.
LEMMA OnlyOffSeen ==
  ASSUME NEW rr, NEW ss, Tale(rr, ss), OnlyOff(events), seen.script = FALSE
  PROVE  \A i : ~LastScript(events, i, FALSE)
<1> SUFFICES ASSUME NEW i, LastScript(events, i, FALSE) PROVE FALSE
  BY Zenon
<1>1. i \in 1..Len(events) /\ events[i][1] = "script" /\ events[i][2] = FALSE /\ Len(events) \in Nat
  BY LenProperties DEF LastScript, Tale, Story
<1>2. Tells(events, rr, ss, i) /\ 1 \in 1..(Len(events) + 1) /\ i \in 1..(Len(events) + 1) /\ 1 <= i
  BY <1>1 DEF Tale, Story
<1>3. ss[i] # FALSE /\ ss[i] \in BOOLEAN
  BY <1>1, <1>2, Zenon DEF Tells, Tale, Story
<1>4. Between(events, rr, ss, 1, i)
  BY <1>2 DEF Tale, Story
<1>5. ss[1] # ss[i] /\ ss[i] = TRUE
  BY <1>3, Zenon DEF Tale
<1>6. PICK a \in 1..(i - 1) : events[a][1] = "script" /\ events[a][2] = ss[i]
  BY <1>4, <1>5 DEF Between
<1>7. a \in 1..Len(events)
  BY <1>1
<1> QED
  BY <1>5, <1>6, <1>7 DEF OnlyOff

LEMMA DockEndsTale == ASSUME VacTypes, VacTypes', VacTale, NEW v \in Visitor, DockEnds(v) PROVE VacTale'
<1> DEFINE halted == wish[v].on /\ wish[v].ok /\ ~seen.script
<1>1. wish[v].at = "script" /\ wish[v].op = "dock" /\ Leaves(v)
      /\ UNCHANGED <<robot, plan, order, work, seen, events, linked, guardian, card, muddled>>
      /\ result' = (IF halted THEN "stopped" ELSE result)
      /\ ended' = (IF halted /\ ended = "person" THEN "stopped" ELSE ended)
  BY WishField, Zenon DEF DockEnds, WishOK
<1>2. \A x \in Visitor : wish'[x] = wish[x] \/ (wish'[x] = Nobody /\ wish[x].at # "wait")
  BY <1>1, Leaver
<1>3. halted => wish[v].on = TRUE /\ seen.script = FALSE
  BY WishField DEF VacTypes, VacWish
<1> HIDE DEF halted
<1>4. ASSUME NEW rr, NEW ss, Tale(rr, ss), VacClear(rr) PROVE VacClear(rr)'
  <2>1. PlanKnown(rr)'
    <3>1. CASE ~halted
      BY <1>1, <1>4, <3>1, Zenon DEF VacClear, PlanKnown, Heard
    <3>2. CASE halted
      <4>1. plan = NoPlan /\ ended \in {"person", "stopped"} /\ OnlyOff(events)
        BY <1>1, <1>3, <1>4, <3>2 DEF VacClear, DocksKnown, Asked
      <4>2. NoScript(events) /\ seen.script = FALSE
        BY <1>3, <1>4, <3>2, <4>1, OnlyOffSeen, Zenon DEF VacClear, PlanKnown
      <4>3. ResultOf(ended', result')
        BY <1>1, <3>2, <4>1 DEF ResultOf
      <4> QED
        BY <1>1, <4>1, <4>2, <4>3, Zenon DEF PlanKnown
    <3> QED
      BY <3>1, <3>2
  <2>2. /\ StartsKnown' /\ DocksKnown'
        /\ \A op \in {"start", "dock", "pause", "resume"} : Asked(op)' => Asked(op)
    <3>1. wish' \in [Visitor -> VacWish]
      BY DEF VacTypes
    <3> QED
      BY <1>1, <1>2, <1>4, <3>1, RequestsEnd DEF VacClear
  <2>3. GuardKnows(rr)'
    BY <1>1, <1>4, <2>2 DEF VacClear, GuardKnows
  <2> QED
    BY <2>1, <2>2, <2>3 DEF VacClear
<1> QED
  BY <1>1, <1>4, GatewayTale

LEMMA EventSeenTale == ASSUME VacTypes, VacTypes', VacTale, EventSeen PROVE VacTale'
<1>1. PICK rr, ss : Tale(rr, ss) /\ (~muddled => VacClear(rr))
  BY DEF VacTale
<1>2. /\ linked /\ events # <<>> /\ events' = Tail(events)
      /\ seen' = [seen EXCEPT ![Head(events)[1]] = Head(events)[2]]
      /\ result' = (IF Head(events)[1] = "script" /\ seen.script /\ ~Head(events)[2] THEN Outcome(seen.robot) ELSE result)
      /\ UNCHANGED <<robot, plan, order, work, linked, wish, guardian, card, ended, muddled>>
  BY DEF EventSeen
<1>3. Story(events, rr, ss) /\ events \in Seq(Event) /\ Head(events) = events[1] /\ Head(events) \in Event
  BY <1>1, <1>2, HeadTailProperties DEF Tale, Story
<1> DEFINE r2 == [k \in 1..Len(events) |-> rr[k + 1]]
           s2 == [k \in 1..Len(events) |-> ss[k + 1]]
<1>4. PICK q2, u2 :
        /\ q2 = [k \in 1..Len(events) |-> rr[k + 1]] /\ u2 = [k \in 1..Len(events) |-> ss[k + 1]]
        /\ Story(Tail(events), q2, u2) /\ Len(Tail(events)) = Len(events) - 1 /\ Len(events) \in Nat \ {0}
  <2>1. Story(Tail(events), r2, s2) /\ Len(Tail(events)) = Len(events) - 1 /\ Len(events) \in Nat \ {0}
    BY <1>2, <1>3, StoryGoesOn
  <2> QED
    BY <2>1
<1>5. 1 \in 1..Len(events) /\ Tells(events, rr, ss, 1) /\ q2[1] = rr[2] /\ u2[1] = ss[2]
      /\ q2[Len(events)] = rr[Len(events) + 1] /\ u2[Len(events)] = ss[Len(events) + 1] /\ 1 + 1 = 2
  BY <1>3, <1>4 DEF Story
<1>6. seen'.robot = rr[2] /\ seen'.script = ss[2]
  <2>1. CASE events[1][1] = "robot"
    BY <1>1, <1>2, <1>3, <1>5, <2>1 DEF Tells, Tale, VacTypes
  <2>2. CASE events[1][1] = "script"
    BY <1>1, <1>2, <1>3, <1>5, <2>2 DEF Tells, Tale, VacTypes
  <2> QED
    BY <1>3, <2>1, <2>2, EventFields
<1>7. Tale(q2, u2)'
  <2>1. Len(events') + 1 = Len(events)
    BY <1>2, <1>4
  <2> QED
    BY <1>1, <1>2, <1>4, <1>5, <1>6, <2>1 DEF Tale
<1>8. ASSUME ~muddled' PROVE VacClear(q2)'
  <2>1. VacClear(rr)
    BY <1>1, <1>2, <1>8
  <2>a. GoneOn(events, events', rr, q2, ss)
    <3>1. events' = Tail(events) /\ events # <<>>
      BY <1>2
    <3>2. Story(events, rr, ss) /\ q2 = [k \in 1..Len(events) |-> rr[k + 1]]
      BY <1>3, <1>4
    <3> QED
      BY <3>1, <3>2, HeadGone, Zenon
  <2>2. /\ \A i, b : LastScript(events, i, b) =>
              \/ i = 1 /\ NoScript(events') /\ ss[2] = b
              \/ i # 1 /\ i - 1 \in 1..Len(events') /\ LastScript(events', i - 1, b) /\ q2[i - 1] = rr[i]
        /\ NoScript(events) => NoScript(events') /\ ss[2] = ss[1]
        /\ \A b : Heard(events, ss[1], b) => Heard(events', ss[2], b)
        /\ OnlyOff(events) => OnlyOff(events')
        /\ SetsOffLater(events, rr, ss[1]) => SetsOffLater(events', q2, ss[2])
    BY <2>a, Zenon DEF GoneOn
  <2>3. plan # NoPlan => Heard(events', seen'.script, TRUE)
    BY <1>1, <1>6, <2>1, <2>2, Zenon DEF VacClear, PlanKnown, Tale
  <2>4. ASSUME plan = NoPlan
        PROVE  \/ NoScript(events') /\ seen'.script = FALSE /\ ResultOf(ended', result')
               \/ \E i \in 1..Len(events') : LastScript(events', i, FALSE) /\ EndsAt(ended', q2[i])
    <3>1. CASE NoScript(events) /\ seen.script = FALSE /\ ResultOf(ended, result)
      <4>1. NoScript(events') /\ seen'.script = FALSE
        BY <1>1, <1>6, <2>2, <3>1 DEF Tale
      <4>2. result' = result
        BY <1>2, <3>1
      <4> QED
        BY <1>2, <3>1, <4>1, <4>2, Zenon
    <3>2. ASSUME NEW i \in 1..Len(events), LastScript(events, i, FALSE), EndsAt(ended, rr[i]), i # 1
          PROVE  \E k \in 1..Len(events') : LastScript(events', k, FALSE) /\ EndsAt(ended', q2[k])
      <4>1. i - 1 \in 1..Len(events') /\ LastScript(events', i - 1, FALSE) /\ q2[i - 1] = rr[i]
        BY <2>2, <3>2, Zenon
      <4> QED
        BY <1>2, <3>2, <4>1, Zenon
    <3>3. CASE LastScript(events, 1, FALSE) /\ EndsAt(ended, rr[1])
      <4>1. NoScript(events') /\ seen'.script = FALSE
        BY <1>6, <2>2, <3>3, Zenon
      <4>2. Head(events)[1] = "script" /\ Head(events)[2] = FALSE
        BY <1>3, <3>3 DEF LastScript
      <4>3. ss[1] # FALSE /\ ss[1] \in BOOLEAN
        <5>1. ss[1] \in BOOLEAN
          BY <1>3, <1>4 DEF Story
        <5> QED
          BY <1>3, <1>5, <4>2, <5>1, Zenon DEF Tells
      <4>4. seen.script = TRUE
        BY <1>1, <4>3, Zenon DEF Tale
      <4>5. result' = Outcome(rr[1])
        BY <1>1, <1>2, <4>2, <4>4 DEF Tale
      <4>6. ResultOf(ended', result')
        BY <1>2, <3>3, <4>5 DEF ResultOf, EndsAt, Outcome
      <4> QED
        BY <4>1, <4>6, Zenon
    <3> QED
      BY <2>1, <2>4, <3>1, <3>2, <3>3, Zenon DEF VacClear, PlanKnown
  <2>5. PlanKnown(q2)'
    BY <1>2, <2>3, <2>4, Zenon DEF PlanKnown
  <2>6. StartsKnown' /\ DocksKnown'
    <3>1. wish' \in [Visitor -> VacWish] /\ \A x \in Visitor : wish'[x] = wish[x]
      BY <1>2 DEF VacTypes
    <3> QED
      BY <1>2, <2>1, <2>2, <3>1, RequestsEnd DEF VacClear
  <2>7. GuardKnows(q2)'
    BY <1>1, <1>2, <1>6, <2>1, <2>2 DEF VacClear, GuardKnows, Asked, Tale
  <2> QED
    BY <2>5, <2>6, <2>7 DEF VacClear
<1> QED
  BY <1>7, <1>8 DEF VacTale

LEMMA NoEventsLeft ==
  /\ Len(<<>>) = 0 /\ NoScript(<<>>) /\ OnlyOff(<<>>)
  /\ \A known, b : Heard(<<>>, known, b) <=> known = b
  /\ \A rr : SetsOffLater(<<>>, rr, TRUE)
<1>1. Len(<<>>) = 0 /\ 1..0 = {}
  OBVIOUS
<1> QED
  BY <1>1 DEF NoScript, OnlyOff, Heard, SetsOffLater

LEMMA EmptyStory ==
  ASSUME NEW r \in RobotState, NEW b \in BOOLEAN
  PROVE  \E rr, ss : Story(<<>>, rr, ss) /\ rr[1] = r /\ ss[1] = b
<1> DEFINE r1 == [k \in 1..1 |-> r]
           s1 == [k \in 1..1 |-> b]
<1>1. Story(<<>>, r1, s1)
  BY StoryStarts, Zenon
<1>2. r1[1] = r /\ s1[1] = b
  OBVIOUS
<1> HIDE DEF r1, s1
<1> QED
  BY <1>1, <1>2

LEMMA LinkDownTale == ASSUME VacTypes, VacTypes', VacTale, LinkDown PROVE VacTale'
<1>1. linked' = FALSE /\ events' = <<>> /\ UNCHANGED <<robot, plan, order, work, seen, wish, guardian, card, result, ended>>
  BY Zenon DEF LinkDown
<1>2. PICK rr, ss : Tale(rr, ss) /\ (~muddled => VacClear(rr))
  BY DEF VacTale
<1>3. DOMAIN events = 1..Len(events)
  BY <1>2 DEF Tale, Story
<1>4. muddled' = (muddled \/ \E i \in DOMAIN events : events[i][1] = "script")
  BY Zenon DEF LinkDown
<1>5. ~muddled' => ~muddled /\ NoScript(events)
  BY <1>3, <1>4, Zenon DEF NoScript
<1>6. PICK r2, s2 : Story(<<>>, r2, s2) /\ r2[1] = seen.robot /\ s2[1] = seen.script
  BY EmptyStory DEF VacTypes
<1>7. Tale(r2, s2)'
  BY <1>1, <1>6 DEF Tale
<1>8. ASSUME ~muddled' PROVE VacClear(r2)'
  <2>1. VacClear(rr) /\ NoScript(events)
    BY <1>2, <1>5, <1>8
  <2>2. \A i, b : ~LastScript(events, i, b)
    BY <2>1 DEF NoScript, LastScript
  <2>3. PlanKnown(r2)'
    <3>1. plan # NoPlan => seen.script = TRUE
      BY <2>1, <2>2, Zenon DEF VacClear, PlanKnown, Heard
    <3>2. plan = NoPlan => seen.script = FALSE /\ ResultOf(ended, result)
      BY <2>1, <2>2, Zenon DEF VacClear, PlanKnown
    <3> QED
      BY <1>1, <3>1, <3>2, NoEventsLeft, Zenon DEF PlanKnown
  <2>4. StartsKnown' /\ DocksKnown'
    <3>1. wish' \in [Visitor -> VacWish] /\ \A x \in Visitor : wish'[x] = wish[x]
      BY <1>1 DEF VacTypes
    <3>2. OnlyOff(events')
      BY <1>1, NoEventsLeft
    <3> QED
      BY <1>1, <2>1, <3>1, <3>2, RequestsEnd DEF VacClear
  <2>5. GuardKnows(r2)'
    <3>1. SetsOffLater(events, rr, seen.script) => SetsOffLater(<<>>, r2, seen.script)
      BY <2>2, NoEventsLeft, Zenon DEF SetsOffLater
    <3>2. guardian.left > 0 => ~Asked("resume") /\ (robot = "cleaning" /\ work = "wanted" => plan # NoPlan /\ SetsOffLater(<<>>, r2, seen.script))
      BY <2>1, <3>1 DEF VacClear, GuardKnows
    <3>3. Asked("resume")' <=> Asked("resume")
      BY <1>1 DEF Asked
    <3> QED
      BY <1>1, <3>2, <3>3 DEF GuardKnows
  <2> QED
    BY <2>3, <2>4, <2>5 DEF VacClear
<1> QED
  BY <1>7, <1>8 DEF VacTale

LEMMA LinkUpTale == ASSUME VacTypes, VacTypes', VacTale, LinkUp PROVE VacTale'
<1>1. /\ ~linked /\ linked' = TRUE /\ seen' = [robot |-> robot, script |-> plan # NoPlan]
      /\ result' = (IF seen.script /\ plan = NoPlan THEN Outcome(seen.robot) ELSE result)
      /\ UNCHANGED <<robot, plan, order, work, events, wish, guardian, card, ended, muddled>>
  BY DEF LinkUp
<1>2. events = <<>> /\ events' = <<>>
  BY <1>1 DEF VacTypes
<1>3. PICK rr, ss : Tale(rr, ss) /\ (~muddled => VacClear(rr))
  BY DEF VacTale
<1>4. PICK r2, s2 : Story(<<>>, r2, s2) /\ r2[1] = robot /\ s2[1] = (plan # NoPlan)
  <2>1. robot \in RobotState /\ (plan # NoPlan) \in BOOLEAN
    BY DEF VacTypes
  <2> QED
    BY <2>1, EmptyStory, Zenon
<1>5. Tale(r2, s2)'
  <2>1. seen'.robot = robot /\ seen'.script = (plan # NoPlan)
    BY <1>1
  <2>2. Len(events') + 1 = 1
    BY <1>2, NoEventsLeft
  <2> QED
    BY <1>1, <1>2, <1>4, <2>1, <2>2 DEF Tale
<1>6. ASSUME ~muddled' PROVE VacClear(r2)'
  <2>1. VacClear(rr)
    BY <1>1, <1>3, <1>6
  <2>2. \A i, b : ~LastScript(<<>>, i, b)
    BY NoEventsLeft DEF LastScript
  <2>3. plan = NoPlan => seen.script = FALSE /\ ResultOf(ended, result)
    BY <1>2, <2>1, <2>2 DEF VacClear, PlanKnown
  <2>4. PlanKnown(r2)'
    <3>1. plan = NoPlan => seen'.script = FALSE /\ ResultOf(ended', result')
      BY <1>1, <2>3, Zenon
    <3>2. plan # NoPlan => seen'.script = TRUE
      BY <1>1, Zenon
    <3> QED
      BY <1>1, <1>2, <3>1, <3>2, NoEventsLeft, Zenon DEF PlanKnown
  <2>5. StartsKnown' /\ DocksKnown'
    <3>1. wish' \in [Visitor -> VacWish] /\ \A x \in Visitor : wish'[x] = wish[x]
      BY <1>1 DEF VacTypes
    <3> QED
      BY <1>1, <2>1, <3>1, RequestsEnd DEF VacClear
  <2>6. GuardKnows(r2)'
    <3>1. plan # NoPlan => SetsOffLater(events', r2, seen'.script)
      BY <1>1, <1>2, NoEventsLeft, Zenon
    <3>2. Asked("resume")' <=> Asked("resume")
      BY <1>1 DEF Asked
    <3> QED
      BY <1>1, <2>1, <3>1, <3>2 DEF VacClear, GuardKnows
  <2> QED
    BY <2>4, <2>5, <2>6 DEF VacClear
<1> QED
  BY <1>5, <1>6 DEF VacTale

LEMMA VacStarts == VacInit => VacInv
<1> SUFFICES ASSUME VacInit PROVE VacInv
  OBVIOUS
<1>1. VacTypes
  <2>1. wish \in [Visitor -> VacWish] /\ \A v \in Visitor : WishOK(wish[v])
    BY NobodyIsFine DEF VacInit
  <2>2. guardian \in [left : 0..GuardPolls, gap : 0..SendGap, sends : 0..MaxSends]
    BY VacuumNumbers DEF VacInit, NoGuard
  <2>3. seen \in [robot : RobotState, script : BOOLEAN]
    BY DEF VacInit, RobotState
  <2>4. muddled \in BOOLEAN /\ linked \in BOOLEAN /\ spoiled \in BOOLEAN
    BY Zenon DEF VacInit
  <2> QED
    BY <2>1, <2>2, <2>3, <2>4 DEF VacInit, VacTypes, RobotState
<1>2. PICK rr, ss : Story(<<>>, rr, ss) /\ rr[1] = "docked" /\ ss[1] = FALSE
  BY EmptyStory, Zenon DEF RobotState
<1>3. Tale(rr, ss)
  <2>1. events = <<>> /\ robot = "docked" /\ (plan # NoPlan) = FALSE /\ seen.robot = "docked" /\ seen.script = FALSE
    BY DEF VacInit
  <2>2. Len(events) + 1 = 1
    BY <2>1, NoEventsLeft
  <2> QED
    BY <1>2, <2>1, <2>2, Zenon DEF Tale
<1>4. VacClear(rr)
  <2>1. \A v \in Visitor : wish[v].op = "none"
    BY DEF VacInit, Nobody
  <2>2. PlanKnown(rr)
    BY NoEventsLeft DEF VacInit, PlanKnown, ResultOf
  <2>3. StartsKnown
    BY <2>1, ScenariosAreNamed DEF StartsKnown, StartWaits, VacInit
  <2>4. DocksKnown /\ GuardKnows(rr)
    BY <2>1 DEF DocksKnown, GuardKnows, Asked, VacInit, NoGuard
  <2> QED
    BY <2>2, <2>3, <2>4 DEF VacClear
<1> QED
  BY <1>1, <1>3, <1>4 DEF VacInv, VacTale

\* The guard does not find a robot on its way from an old plan when it is on its way for a new one: too
\* much has happened in between for the cache to be that late.
LEMMA GuardSpares ==
  ASSUME MaxDelay <= 4, VacTypes, VacTale, GuardSends, spoiled' # spoiled
  PROVE  muddled
<1> SUFFICES ASSUME ~muddled PROVE FALSE
  OBVIOUS
<1>1. PICK rr, ss : Tale(rr, ss) /\ VacClear(rr)
  BY DEF VacTale
<1>2. guardian.left > 0 /\ ~seen.script /\ VState(seen.robot) = "cleaning"
  BY DEF GuardSends, Due
<1>3. robot = "cleaning" /\ work = "wanted" /\ Becomes(Home(robot), plan)
  <2>1. Becomes(Home(robot), plan) /\ spoiled' = (spoiled \/ (robot = "cleaning" /\ work = "wanted"))
    BY Zenon DEF GuardSends
  <2>2. spoiled \in BOOLEAN
    BY DEF VacTypes
  <2> QED
    BY <2>1, <2>2
<1>4. SetsOffLater(events, rr, seen.script)
  BY <1>1, <1>2, <1>3 DEF VacClear, GuardKnows
<1>5. PICK i \in 1..Len(events), j \in 1..Len(events) :
        i < j /\ LastScript(events, i, TRUE) /\ events[j][1] = "robot" /\ VState(rr[j]) = "docked"
  BY <1>2, <1>4, Zenon DEF SetsOffLater
<1>6. events \in Seq(Event) /\ Len(events) \in Nat /\ rr \in [1..(Len(events) + 1) -> RobotState]
  BY <1>1, LenProperties DEF Tale, Story
<1>7. rr[1] = "cleaning"
  BY <1>1, <1>2 DEF Tale, VState
<1>8. rr[j] \in {"docked", "station"}
  BY <1>5 DEF VState
<1>9. Between(events, rr, ss, 1, j)
  <2>1. 1 \in 1..(Len(events) + 1) /\ j \in 1..(Len(events) + 1) /\ 1 <= j
    BY <1>6
  <2> QED
    BY <1>1, <2>1 DEF Tale, Story
<1>10. PICK a, b \in 1..(j - 1) : a < b /\ events[a][1] = "robot" /\ events[b][1] = "robot"
  BY <1>7, <1>8, <1>9 DEF Between
<1>11. i # a /\ i # b
  BY <1>5, <1>10 DEF LastScript
<1>12. Len(events) >= 4
  BY <1>5, <1>6, <1>10, <1>11
<1>13. Home(robot) = "returning" /\ "returning" \in RobotState /\ "returning" # robot
  BY <1>3 DEF Home, RobotState
<1>14. linked
  BY DEF GuardSends
<1>15. Len(events) + 1 <= MaxDelay
  BY <1>3, <1>6, <1>13, <1>14, BecomesSaid
<1> QED
  BY <1>6, <1>12, <1>15, VacuumNumbers

\* What was too much at once stays so.
LEMMA MuddleStays ==
  ASSUME VacTypes, VacTale, [VacNext]_vacVars, muddled
  PROVE  muddled'
<1>1. ASSUME NEW r, NEW p, Becomes(r, p) PROVE muddled'
  BY <1>1, Zenon DEF Becomes
<1>2. CASE RobotStarts \/ RobotGoesOn \/ PlanEnds \/ ScheduleStarts \/ GuardSends
  BY <1>1, <1>2, Zenon DEF RobotStarts, RobotGoesOn, PlanEnds, ScheduleStarts, GuardSends
<1>3. CASE PlanGoesOn \/ EventSeen \/ LinkDown \/ LinkUp \/ GuardPasses \/ GuardYields \/ UNCHANGED vacVars
  BY <1>3, Zenon DEF PlanGoesOn, EventSeen, LinkDown, LinkUp, GuardPasses, GuardYields, vacVars
<1>4. ASSUME NEW v \in Visitor,
             \/ \E s \in Scenario : StartScenario(v, s)
             \/ Dock(v) \/ Pause(v) \/ Resume(v) \/ CallFails(v) \/ StartEnds(v) \/ DockSees(v) \/ DockEnds(v)
      PROVE  muddled'
  BY <1>4, Zenon DEF StartScenario, Dock, Pause, Resume, CallFails, StartEnds, DockSees, DockEnds
<1>5. ASSUME NEW v \in Visitor, TurnOn(v) \/ TurnOff(v) \/ ReturnToBase(v) \/ PauseCalls(v) \/ ResumeCalls(v) PROVE muddled'
  BY <1>1, <1>5, Zenon DEF TurnOn, TurnOff, ReturnToBase, PauseCalls, ResumeCalls
<1> QED
  BY <1>2, <1>3, <1>4, <1>5, Zenon DEF VacNext

LEMMA SpoiledByGuard ==
  ASSUME [VacNext]_vacVars, spoiled' # spoiled
  PROVE  GuardSends
  BY Zenon DEF VacNext, vacVars, RobotStarts, RobotGoesOn, PlanGoesOn, PlanEnds, ScheduleStarts, EventSeen, LinkDown, LinkUp,
     StartScenario, Dock, Pause, Resume, Asks, CallFails, TurnOn, StartEnds, TurnOff, ReturnToBase, DockSees, DockEnds,
     PauseCalls, ResumeCalls, GuardPasses, GuardYields

LEMMA VacInvStays == VacInv /\ [VacNext]_vacVars => VacInv'
<1> SUFFICES ASSUME VacInv, [VacNext]_vacVars PROVE VacInv'
  OBVIOUS
<1>1. VacTypes /\ VacTale
  BY DEF VacInv
<1>2. events \in Seq(Event)
  BY <1>1 DEF VacTale, Tale, Story
<1>3. VacTypes'
  BY <1>1, <1>2, VacTypesStay
<1>4. VacTale'
  <2>1. CASE UNCHANGED vacVars \/ PlanGoesOn \/ GuardPasses \/ GuardYields \/ \E v \in Visitor : CallFails(v)
    BY <1>1, <1>3, <2>1, QuietSteps
  <2>2. CASE RobotStarts \/ RobotGoesOn \/ PlanEnds \/ ScheduleStarts \/ GuardSends
    BY <1>1, <1>3, <2>2, RobotStartsTale, RobotGoesOnTale, PlanEndsTale, ScheduleTale, GuardSendsTale
  <2>3. CASE EventSeen \/ LinkDown \/ LinkUp
    BY <1>1, <1>3, <2>3, EventSeenTale, LinkDownTale, LinkUpTale
  <2>4. ASSUME NEW v \in Visitor, (\E s \in Scenario : StartScenario(v, s)) \/ Dock(v) \/ Pause(v) \/ Resume(v) PROVE VacTale'
    BY <1>1, <2>4, RequestTale
  <2>5. ASSUME NEW v \in Visitor, TurnOn(v) \/ StartEnds(v) \/ TurnOff(v) \/ ReturnToBase(v) PROVE VacTale'
    BY <1>1, <1>3, <2>5, TurnOnTale, StartEndsTale, TurnOffTale, ReturnTale
  <2>6. ASSUME NEW v \in Visitor, DockSees(v) \/ DockEnds(v) \/ PauseCalls(v) \/ ResumeCalls(v) PROVE VacTale'
    BY <1>1, <1>3, <2>6, DockSeesTale, DockEndsTale, PauseTale, ResumeTale
  <2> QED
    BY <2>1, <2>2, <2>3, <2>4, <2>5, <2>6, Zenon DEF VacNext
<1> QED
  BY <1>3, <1>4 DEF VacInv

LEMMA SparedStays ==
  ASSUME MaxDelay <= 4
  PROVE  VacInv /\ GuardSparesPeople /\ [VacNext]_vacVars => GuardSparesPeople'
  BY MuddleStays, SpoiledByGuard, GuardSpares, Zenon DEF VacInv, VacTypes, GuardSparesPeople

LEMMA VacInvIsSafe == VacInv => VacTypeOK /\ CardNamesPlan /\ ResultIsTrue
<1> SUFFICES ASSUME VacInv PROVE VacTypeOK /\ CardNamesPlan /\ ResultIsTrue
  OBVIOUS
<1>1. VacTypes
  BY DEF VacInv
<1>2. PICK rr, ss : Tale(rr, ss) /\ (~muddled => VacClear(rr))
  BY DEF VacInv, VacTale
<1>3. VacTypeOK
  BY <1>1 DEF VacTypes, VacTypeOK, RobotState
<1>5. Scheduled # NoPlan
  BY DEF Scheduled, NoPlan
<1>6. CardNamesPlan
  <2> SUFFICES ASSUME Calm PROVE (RunningScenario = NoPlan <=> plan = NoPlan) /\ (plan \in Scenario => RunningScenario = plan \/ muddled)
    BY DEF CardNamesPlan
  <2>1. linked /\ events = <<>> /\ \A v \in Visitor : wish[v].op = "none"
    BY DEF Calm, Nobody
  <2>2. Len(events) + 1 = 1
    BY <2>1, NoEventsLeft
  <2>3. seen.script = (plan # NoPlan)
    BY <1>2, <2>1, <2>2 DEF Tale
  <2>4. RunningScenario = NoPlan <=> plan = NoPlan
    BY <1>5, <2>3, Zenon DEF RunningScenario
  <2>5. plan \in Scenario /\ ~muddled => card = plan
    BY <1>2, <2>1 DEF VacClear, StartsKnown, StartWaits
  <2>6. plan \in Scenario /\ ~muddled => RunningScenario = plan
    BY <2>3, <2>5, ScenariosAreNamed, Zenon DEF RunningScenario
  <2> QED
    BY <2>4, <2>6
<1>7. ResultIsTrue
  <2> SUFFICES ASSUME Calm, ~muddled, plan = NoPlan PROVE ResultOf(ended, result)
    BY DEF ResultIsTrue, ResultOf
  <2>1. events = <<>>
    BY DEF Calm
  <2>2. \A i, b : ~LastScript(events, i, b)
    BY <2>1, NoEventsLeft DEF LastScript
  <2> QED
    BY <1>2, <2>2, Zenon DEF VacClear, PlanKnown
<1> QED
  BY <1>3, <1>6, <1>7

\* "The card shows a plan when one runs" (vacuum_view and _on_ha_change of gw/core.py): whatever requests,
\* plans, late events and lost links come in whatever order, and however late the cache is, once it has
\* caught up the card shows the plan that runs, by its name, and tells how the last one ended.
THEOREM CardTellsThePlan ==
  PortalSpec => [](part = "vacuums" => VacTypeOK /\ CardNamesPlan /\ ResultIsTrue)
<1> DEFINE Inv == part = "vacuums" => VacInv
<1>1. PortalInit => Inv
  BY PartStarts, VacStarts
<1>2. Inv /\ [PortalNext]_portalVars => Inv'
  BY PartMoves, VacInvStays
<1>3. Inv => (part = "vacuums" => VacTypeOK /\ CardNamesPlan /\ ResultIsTrue)
  BY VacInvIsSafe
<1> QED
  BY <1>1, <1>2, <1>3, PTL DEF PortalSpec

\* The guard of a stop (_start_stop_guard of gw/core.py) sends home what starts after the stop, and not what
\* a person or a plan started on purpose, as long as the cache is at most four changes behind: from its
\* way home for the old plan to its way out for the new one a robot and its script make five.
THEOREM VacuumsStaySafe == ASSUME MaxDelay <= 4 PROVE PortalSpec => []VacuumsHold
<1> DEFINE Inv == part = "vacuums" => VacInv /\ GuardSparesPeople
<1>1. PortalInit => Inv
  BY PartStarts, VacStarts DEF VacInit, GuardSparesPeople
<1>2. Inv /\ [PortalNext]_portalVars => Inv'
  BY PartMoves, VacInvStays, SparedStays
<1>3. Inv => VacuumsHold
  BY VacInvIsSafe DEF VacuumsHold, VacuumsSafe
<1> QED
  BY <1>1, <1>2, <1>3, PTL DEF PortalSpec
==============================================================================
