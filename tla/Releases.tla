------------------------------- MODULE Releases -------------------------------
(***************************************************************************)
(* The update channel of the app (gw/releases.py, the handlers of it in    *)
(* gw/api.py). Operators add files with gwctl, processes of their own that *)
(* check, copy and insert in turn; an administrator publishes, stops and   *)
(* resumes in the gateway; phones fetch the manifest and then the file.    *)
(* The content of a file stands for its hash.                              *)
(***************************************************************************)
EXTENDS Integers, FiniteSets

CONSTANTS
  Operator,  \* gwctl processes
  Version,   \* version codes: 1..n
  Content,   \* contents of files
  Cert,      \* signing certificates
  Handset,   \* phones
  MaxMishaps, \* bound on files that rot and on processes that die
  MaxAdds    \* bound on commands of each operator

NoCert == "no certificate"
NoFile == "no file"

ASSUME ReleaseNumbers == Version \subseteq Nat \ {0} /\ MaxMishaps \in Nat /\ MaxAdds \in Nat

VARIABLES
  releases,  \* version -> its row: state, recorded hash, certificate, minimum
  files,     \* version -> the stored file
  pinned,    \* release_cert_sha256
  releaseCurrent, manifest, stopped, minSupported, \* the other entries of meta
  signingKey, \* the key file can be read
  gwctl,     \* operator -> its command and how far it is
  adds, mishaps,
  handset,   \* phone -> the manifest it has, the version and content it runs
  crossed    \* commands that were decided while another was under way

relVars == <<releases, files, pinned, releaseCurrent, manifest, stopped, minSupported, signingKey, gwctl, adds, mishaps, handset, crossed>>

NoRow == [state |-> "none", hash |-> NoFile, cert |-> NoCert, min |-> 0]
NoCommand == [at |-> "idle"]
NoManifest == [version |-> 0]

RelInit ==
  /\ releases = [v \in Version |-> NoRow] /\ files = [v \in Version |-> NoFile] /\ pinned = NoCert
  /\ releaseCurrent = 0 /\ manifest = NoManifest /\ stopped = FALSE /\ minSupported = 0 /\ signingKey = TRUE
  /\ gwctl = [o \in Operator |-> NoCommand] /\ adds = [o \in Operator |-> 0] /\ mishaps = 0
  /\ handset = [h \in Handset |-> [has |-> NoManifest, runs |-> 0, content |-> NoFile]] /\ crossed = {}

Gateway == <<releaseCurrent, manifest, stopped, minSupported, signingKey, handset>>

---------------------------------------------------------------------------
(* gwctl *)

Top == IF \E v \in Version : releases[v].state # "none"
       THEN CHOOSE v \in Version : releases[v].state # "none" /\ \A u \in Version : releases[u].state # "none" => u <= v
       ELSE 0

Begins(o, command) ==
  /\ gwctl[o].at = "idle" /\ adds[o] < MaxAdds /\ adds' = [adds EXCEPT ![o] = @ + 1]
  /\ gwctl' = [gwctl EXCEPT ![o] = command]
  /\ crossed' = IF \E p \in Operator \ {o} : gwctl[p].at # "idle" THEN crossed \cup Operator ELSE crossed
  /\ UNCHANGED <<releases, files, pinned, mishaps, Gateway>>

Ends(o) == gwctl' = [gwctl EXCEPT ![o] = NoCommand]

\* pin: another certificate than the pinned one is refused, then it is written.
PinChecked(o, c) == pinned \in {NoCert, c} /\ Begins(o, [at |-> "pin", cert |-> c])
Pinned(o) ==
  /\ gwctl[o].at = "pin" /\ pinned' = gwctl[o].cert /\ Ends(o)
  /\ UNCHANGED <<releases, files, adds, mishaps, crossed, Gateway>>

\* add: signed with the pinned certificate, higher than every release so far.
AddChecked(o, v, x, c) ==
  /\ pinned # NoCert /\ c = pinned /\ v > Top
  /\ Begins(o, [at |-> "copy", version |-> v, content |-> x, cert |-> c])

\* copyfile and replace.
Copied(o) ==
  /\ gwctl[o].at = "copy" /\ files' = [files EXCEPT ![gwctl[o].version] = gwctl[o].content]
  /\ gwctl' = [gwctl EXCEPT ![o].at = "insert"]
  /\ UNCHANGED <<releases, pinned, adds, mishaps, crossed, Gateway>>

\* A row that is there already makes the command fail.
Inserted(o) ==
  /\ gwctl[o].at = "insert" /\ Ends(o)
  /\ LET c == gwctl[o] IN
       releases' = IF releases[c.version].state # "none" THEN releases
                   ELSE [releases EXCEPT ![c.version] = [state |-> "pending", hash |-> c.content, cert |-> c.cert, min |-> 0]]
  /\ UNCHANGED <<files, pinned, adds, mishaps, crossed, Gateway>>

CommandDies(o) ==
  /\ gwctl[o].at # "idle" /\ mishaps < MaxMishaps /\ mishaps' = mishaps + 1 /\ Ends(o)
  /\ UNCHANGED <<releases, files, pinned, adds, crossed, Gateway>>

FileRots(v) ==
  /\ files[v] # NoFile /\ mishaps < MaxMishaps /\ mishaps' = mishaps + 1
  /\ files' = [files EXCEPT ![v] = NoFile]
  /\ UNCHANGED <<releases, pinned, gwctl, adds, crossed, Gateway>>

KeyTurns ==
  /\ mishaps < MaxMishaps /\ mishaps' = mishaps + 1 /\ signingKey' = ~signingKey
  /\ UNCHANGED <<releases, files, pinned, releaseCurrent, manifest, stopped, minSupported, gwctl, adds, handset, crossed>>

---------------------------------------------------------------------------
(* The gateway *)

FileOk(v) == releases[v].state # "none" /\ files[v] = releases[v].hash

\* The minimum never goes down and is at most the version that is published.
MinFor(v, asked) == IF asked = -1 THEN {minSupported} ELSE IF asked \in minSupported..v THEN {asked} ELSE {}

Publish(v, asked) ==
  /\ releases[v].state = "pending" /\ v > releaseCurrent /\ FileOk(v) /\ signingKey
  /\ \E m \in MinFor(v, asked) :
       /\ releases' = [u \in Version |->
            IF u = v THEN [releases[v] EXCEPT !.state = "published", !.min = m]
            ELSE IF releases[u].state = "published" THEN [releases[u] EXCEPT !.state = "superseded"] ELSE releases[u]]
       /\ releaseCurrent' = v /\ minSupported' = m /\ stopped' = FALSE
       /\ manifest' = [version |-> v, hash |-> releases[v].hash, cert |-> releases[v].cert, min |-> m]
  /\ UNCHANGED <<files, pinned, signingKey, gwctl, adds, mishaps, handset, crossed>>

Stop(x) ==
  /\ stopped # x /\ (x \/ releaseCurrent # 0) /\ stopped' = x
  /\ UNCHANGED <<releases, files, pinned, releaseCurrent, manifest, minSupported, signingKey, gwctl, adds, mishaps, handset, crossed>>

---------------------------------------------------------------------------
(* Phones *)

CurrentManifest == IF stopped THEN NoManifest ELSE manifest

\* Mutant: the file is served as it is.
ServedFile_AsIs(v) == ~stopped /\ releaseCurrent = v

\* served_file: the current release, not stopped, its hash computed anew.
ServedFile(v) == ~stopped /\ releaseCurrent = v /\ FileOk(v)

\* /app/update.json
Fetches(h) ==
  /\ CurrentManifest # handset[h].has /\ handset' = [handset EXCEPT ![h].has = CurrentManifest]
  /\ UNCHANGED <<releases, files, pinned, releaseCurrent, manifest, stopped, minSupported, signingKey, gwctl, adds, mishaps, crossed>>

\* /app/releases/<code>/app.apk of the manifest it has.
Downloads(h) ==
  /\ handset[h].has # NoManifest
  /\ LET v == handset[h].has.version IN
       /\ ServedFile(v) /\ v > handset[h].runs
       /\ handset' = [handset EXCEPT ![h].runs = v, ![h].content = files[v]]
  /\ UNCHANGED <<releases, files, pinned, releaseCurrent, manifest, stopped, minSupported, signingKey, gwctl, adds, mishaps, crossed>>

RelNext ==
  \/ \E o \in Operator :
       \/ \E c \in Cert : PinChecked(o, c)
       \/ \E v \in Version, x \in Content, c \in Cert : AddChecked(o, v, x, c)
       \/ Pinned(o) \/ Copied(o) \/ Inserted(o) \/ CommandDies(o)
  \/ \E v \in Version : FileRots(v) \/ \E asked \in {-1} \cup Version : Publish(v, asked)
  \/ \E x \in BOOLEAN : Stop(x)
  \/ \E h \in Handset : Fetches(h) \/ Downloads(h)
  \/ KeyTurns

RelSpec == RelInit /\ [][RelNext]_relVars

---------------------------------------------------------------------------
(* Properties *)

RelTypeOK ==
  /\ \A v \in Version : releases[v].state \in {"none", "pending", "published", "superseded"}
  /\ releaseCurrent \in Version \cup {0} /\ minSupported \in 0..releaseCurrent
  /\ \A o \in Operator : gwctl[o].at \in {"idle", "pin", "copy", "insert"} /\ adds[o] \in 0..MaxAdds
  /\ mishaps \in 0..MaxMishaps /\ (releaseCurrent = 0 <=> manifest = NoManifest)

\* The published row, release_current, the manifest and the minimum say the same: one release is
\* published, it is the newest that ever was, and phones below the minimum can reach it.
ChannelAgrees ==
  /\ {v \in Version : releases[v].state = "published"} = {releaseCurrent} \ {0}
  /\ \A v \in Version : releases[v].state = "superseded" => v < releaseCurrent
  /\ releaseCurrent # 0 => /\ manifest.version = releaseCurrent /\ manifest.hash = releases[releaseCurrent].hash
                    /\ manifest.cert = releases[releaseCurrent].cert /\ manifest.min = minSupported

\* "Roll-forward only: a published version_code never goes down" (releases.py), nor does the minimum.
RollForward == releaseCurrent' >= releaseCurrent /\ minSupported' >= minSupported

\* A phone gets only what the administrator published, whatever happened to the files between the
\* manifest and the download.
DownloadsWhatWasPublished ==
  \A h \in Handset : handset[h].runs # 0 => handset[h].content = releases[handset[h].runs].hash

\* What is offered can be downloaded and is signed with the pinned certificate, unless the file
\* rotted, or two commands of operators crossed (each checks before it writes).
OfferCanBeServed ==
  CurrentManifest # NoManifest /\ mishaps = 0 /\ crossed = {} => ServedFile(manifest.version) /\ manifest.cert = pinned

\* The channel holds together, and a phone gets from it what was published and nothing else.
ReleasesSafe ==
  /\ RelTypeOK
  /\ ChannelAgrees
  /\ DownloadsWhatWasPublished
  /\ OfferCanBeServed
=============================================================================
