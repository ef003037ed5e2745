------------------------------- MODULE Updates -------------------------------
(***************************************************************************)
(* The Android app's update channel: a check on every return to the screen *)
(* and a job every six hours share one folder, one set of remembered       *)
(* numbers (UpdateState) and the installer sessions of the package. A      *)
(* manifest is signed and a file is hashed (UpdateLogic.kt); here a        *)
(* manifest is its version and minimum, a file is what was written of it.  *)
(* The gateway's channel is Releases.                                      *)
(***************************************************************************)
EXTENDS Integers

CONSTANTS
  LastCode,   \* bound on version codes
  MaxAppDeaths,  \* bound on deaths of the process
  MaxOffers   \* bound on changes of the channel

ASSUME UpdateNumbers == LastCode \in Nat \ {0} /\ MaxAppDeaths \in Nat /\ MaxOffers \in Nat

Worker == {"screen", "job"}   \* the activity's executor and the thread of the job
Other(w) == CHOOSE u \in Worker : u # w
Code == 1..LastCode

VARIABLES
  offer,       \* what the channel offers: a manifest, or one with code 0
  offers, appDeaths,
  visible,     \* whether the app is on the phone's screen
  face,        \* what it shows: family data ("web"), the blocking screen ("force"), any other ("door"), or "closed"
  entry,       \* somebody on the way in or out: "none", a "prompt" is open, or a "session" (or sign-out) is queued
  place,       \* the queued session is "ahead" of the screen's check, or "behind" its run
  installed,   \* version of the app
  lastSeen, minSupported, installing,  \* UpdateState
  worker,      \* worker -> where it is in a run, its manifest, and whether it had the folder alone
  folder,      \* file name -> the worker that wrote the file, or "none"
  fetched,     \* worker -> what it wrote to its file: "whole", or "unfit": a part of it, or the wrong bytes
  session,     \* worker -> its last installer session
  answered,    \* an install result waits to be delivered
  highest,     \* history: the highest code of a manifest that was verified and compared
  orphaned,    \* history: the process died between setting `installing` last and the commit
  lateMin,     \* history: the job stored a minimum after the screen's last check, while it was on the screen or busy
  slipped,     \* history: the screen's last check ended below the minimum with somebody on the way
  crossed      \* history: two checks stored at the same time

chan == <<offer, offers>>
prefs == <<lastSeen, minSupported>>
hist == <<highest, orphaned, lateMin, crossed>>
ui == <<visible, face, entry, place, slipped>>
updVars == <<offer, offers, appDeaths, ui, installed, lastSeen, minSupported, installing, worker, folder, fetched, session, answered, hist>>

File == {"apk", "part"} \X Code
NoSession == [at |-> "none", code |-> 0]
InFlight(w) == session[w].at = "committed"
RunOf(at, code, alone) == [at |-> at, code |-> code, min |-> 0, stores |-> {}, alone |-> alone]
Rest == RunOf("idle", 0, TRUE)
InFolder == {"download", "verify", "rename", "install", "open", "commit"}

UpdInit ==
  /\ offer = [code |-> 1, min |-> 0] /\ offers = 0 /\ appDeaths = 0 /\ installed = 1
  /\ visible = FALSE /\ face = "closed" /\ entry = "none" /\ place = "behind" /\ slipped = FALSE
  /\ lastSeen = 0 /\ minSupported = 0 /\ installing = 0 /\ worker = [w \in Worker |-> Rest]
  /\ folder = [f \in File |-> "none"] /\ fetched = [w \in Worker |-> "unfit"]
  /\ session = [w \in Worker |-> NoSession] /\ answered = FALSE
  /\ highest = 0 /\ orphaned = FALSE /\ lateMin = FALSE /\ crossed = FALSE

MustUpdate == installed < minSupported
Goes(w, at) == worker' = [worker EXCEPT ![w].at = at]
RunOver(w) == worker' = [worker EXCEPT ![w] = Rest]

\* The folder and what its files hold; what was written to a deleted file nobody reads.
Leaves(files, written) ==
  /\ folder' = files
  /\ fetched' = [w \in Worker |-> IF \E f \in File : files[f] = w THEN written[w] ELSE "unfit"]

---------------------------------------------------------------------------
(* The channel and the person *)

OfferChanges ==
  /\ offers < MaxOffers /\ offers' = offers + 1
  /\ \/ \E c \in Code, m \in 0..LastCode : c > offer.code /\ c > highest /\ m <= c /\ offer' = [code |-> c, min |-> m]
     \/ offer.code # 0 /\ offer' = [code |-> 0, min |-> 0]
  /\ UNCHANGED <<appDeaths, ui, installed, prefs, installing, worker, folder, fetched, session, answered, hist>>

Queued == entry = "session"
PlaceNow == IF worker["screen"].at = "idle" THEN "ahead" ELSE "behind"

\* A check is queued on the executor, which is one thread; what waits for it already is ahead.
QueuesCheck ==
  /\ Goes("screen", "asked") /\ lateMin' = FALSE /\ slipped' = FALSE
  /\ place' = IF Queued THEN "ahead" ELSE "behind"

\* onCreate, onStart: the blocking screen when the minimum is known, else locked; family data may be
\* locked after a while. A check is queued, unless the run of an earlier one is still under way.
Opens ==
  /\ ~visible /\ visible' = TRUE
  /\ face' \in IF face = "closed" THEN {IF MustUpdate THEN "force" ELSE "door"}
              ELSE IF face = "web" THEN {"web", "door"} ELSE {face}
  /\ IF worker["screen"].at = "idle" THEN QueuesCheck ELSE UNCHANGED <<worker, lateMin, slipped, place>>
  /\ UNCHANGED <<chan, appDeaths, entry, installed, prefs, installing, folder, fetched, session, answered, highest, orphaned,
                 crossed>>

\* A prompt may be cancelled by it.
Hides ==
  /\ visible /\ visible' = FALSE
  /\ entry' \in {entry} \cup (IF entry = "prompt" THEN {"none"} ELSE {}) /\ UNCHANGED <<face, place, slipped>>
  /\ UNCHANGED <<chan, appDeaths, installed, prefs, installing, worker, folder, fetched, session, answered, hist>>

\* The page announces a release, or a person presses the button; onStart during a run starts none.
ScreenAsks ==
  /\ visible /\ worker["screen"].at = "idle" /\ QueuesCheck /\ UNCHANGED <<visible, face>>
  /\ UNCHANGED <<chan, appDeaths, entry, installed, prefs, installing, folder, fetched, session, answered, highest, orphaned,
                 crossed>>

\* The fingerprint prompt of the lock screen, or a sign-in, opens; it is given up, perhaps to the sign-in screen.
Prompts ==
  /\ visible /\ \/ face = "door" /\ entry = "none" /\ entry' = "prompt" /\ UNCHANGED face
                \/ entry = "prompt" /\ entry' = "none" /\ face' \in {face, "door"}
  /\ UNCHANGED <<visible, place, slipped>>
  /\ UNCHANGED <<chan, appDeaths, installed, prefs, installing, worker, folder, fetched, session, answered, hist>>

\* startSession: after the prompt, whatever the screen shows by then; or from the page, when its session has ended.
\* A sign-out is queued likewise, and ends at the door.
StartsSession ==
  /\ entry = "prompt" \/ (visible /\ face = "web" /\ entry = "none")
  /\ face' = "door" /\ entry' = "session" /\ place' = PlaceNow /\ UNCHANGED <<visible, slipped>>
  /\ UNCHANGED <<chan, appDeaths, installed, prefs, installing, worker, folder, fetched, session, answered, hist>>

\* openWeb, onSessionError, the end of signOut: each replaces what is on the screen, the blocking screen too.
OpensWeb ==
  /\ Queued /\ worker["screen"].at \in (IF place = "ahead" THEN {"idle", "asked"} ELSE {"idle"})
  /\ face' \in {"web", "door"}
  /\ entry' = "none" /\ place' = "behind" /\ UNCHANGED <<visible, slipped>>
  /\ UNCHANGED <<chan, appDeaths, installed, prefs, installing, worker, folder, fetched, session, answered, hist>>

\* backgroundRun: nothing while the app is on the screen.
JobStarts ==
  /\ ~visible /\ worker["job"].at = "idle" /\ Goes("job", "asked")
  /\ UNCHANGED <<chan, appDeaths, ui, installed, prefs, installing, folder, fetched, session, answered, hist>>

---------------------------------------------------------------------------
(* check *)

\* After the screen's check, whatever came of it, the minimum takes effect.
AfterCheck(w) ==
  LET blocks == w = "screen" /\ MustUpdate' IN
  /\ face' = IF blocks THEN "force" ELSE face
  /\ slipped' = (slipped \/ (blocks /\ entry # "none"))
  /\ UNCHANGED <<visible, entry, place>>

\* What is ahead of the screen's check goes first.
HasTurn(w) == worker[w].at = "asked" /\ (w = "screen" => place = "behind")

\* cleanInstalled
Cleaned == [f \in File |-> IF f[1] = "apk" /\ f[2] <= installed THEN "none" ELSE folder[f]]

\* No network, no key, a manifest that does not verify, or nothing on offer.
CheckEnds(w) ==
  /\ HasTurn(w) /\ RunOver(w) /\ Leaves(Cleaned, fetched)
  /\ UNCHANGED <<chan, appDeaths, installed, prefs, installing, session, answered, hist>>
  /\ AfterCheck(w)

\* UpdateDecision: older than one that was seen
Stale(m) == m.code < lastSeen

\* Mutant: a manifest that brings no update is not remembered.
Stores_Update(m) ==
  IF m.code <= installed THEN {} ELSE (IF m.code > lastSeen THEN {"seen"} ELSE {}) \cup (IF m.min > minSupported THEN {"min"} ELSE {})

\* remember: which of the two numbers are raised
Stores(m) == (IF m.code > lastSeen THEN {"seen"} ELSE {}) \cup (IF m.min > minSupported THEN {"min"} ELSE {})

\* The manifest verifies: the offer of now, or one that was offered before (a gateway restored from
\* a backup). A stale one ends the run; otherwise the two numbers are compared (and stored next).
Verifies(w, m) ==
  /\ HasTurn(w) /\ m.code # 0
  /\ Leaves(Cleaned, fetched)
  /\ UNCHANGED <<chan, appDeaths, installed, prefs, installing, session, answered, highest, orphaned, lateMin>>
  /\ IF Stale(m) THEN RunOver(w) /\ AfterCheck(w) /\ UNCHANGED crossed
     ELSE /\ worker' = [worker EXCEPT ![w] = [at |-> "store", code |-> m.code, min |-> m.min, stores |-> Stores(m), alone |-> TRUE]]
          /\ crossed' = (crossed \/ worker[Other(w)].at = "store") /\ UNCHANGED ui

\* The screen's check is over, and it is on the screen or comes back to it without another one.
ScreenIsPast == worker["screen"].at \notin {"asked", "store"} /\ (visible \/ worker["screen"].at # "idle")

Wanted(w, code) == code > installed /\ ~(w = "job" /\ installing = code)

\* The numbers are stored; a newer version is fetched, by the job only when none of it is in flight.
Remembers(w) ==
  LET r == worker[w] IN
  /\ r.at = "store"
  /\ lastSeen' = IF "seen" \in r.stores THEN r.code ELSE lastSeen
  /\ minSupported' = IF "min" \in r.stores THEN r.min ELSE minSupported
  /\ highest' = IF r.code > highest THEN r.code ELSE highest
  /\ lateMin' = (lateMin \/ (w = "job" /\ minSupported' # minSupported /\ ScreenIsPast))
  /\ UNCHANGED <<chan, appDeaths, installed, installing, folder, fetched, session, answered, orphaned, crossed>>
  /\ AfterCheck(w)
  /\ IF Wanted(w, r.code) THEN worker' = [worker EXCEPT ![w] = RunOf("fetch", r.code, TRUE)] ELSE RunOver(w)

---------------------------------------------------------------------------
(* fetchAndVerify *)

Part(w) == <<"part", worker[w].code>>
Apk(w) == <<"apk", worker[w].code>>

\* Everything in the folder is deleted and the download is opened.
Fetches(w) ==
  /\ worker[w].at = "fetch"
  /\ Leaves([f \in File |-> IF f = Part(w) THEN w ELSE "none"], [fetched EXCEPT ![w] = "unfit"])
  /\ LET alone == worker[Other(w)].at \notin InFolder IN
     worker' = [u \in Worker |-> IF u = w THEN RunOf("download", worker[w].code, alone)
                                 ELSE IF alone THEN worker[u] ELSE [worker[u] EXCEPT !.alone = FALSE]]
  /\ UNCHANGED <<chan, appDeaths, ui, installed, prefs, installing, session, answered, hist>>

Downloads(w) ==
  /\ worker[w].at = "download"
  /\ \/ Goes(w, "verify") /\ \E what \in {"whole", "unfit"} : Leaves(folder, [fetched EXCEPT ![w] = what])
     \/ RunOver(w) /\ Leaves([folder EXCEPT ![Part(w)] = "none"], fetched)
  /\ UNCHANGED <<chan, appDeaths, ui, installed, prefs, installing, session, answered, hist>>

Whole(f) == folder[f] # "none" /\ fetched[folder[f]] = "whole"

\* ApkVerifier.verify: there, of the size, the hash and the certificates of the manifest
Verified(w) == Whole(Part(w))

\* A file that does not verify is deleted, by its name.
ChecksFile(w) ==
  /\ worker[w].at = "verify"
  /\ IF Verified(w) THEN Goes(w, "rename") /\ UNCHANGED <<folder, fetched>>
     ELSE RunOver(w) /\ Leaves([folder EXCEPT ![Part(w)] = "none"], fetched)
  /\ UNCHANGED <<chan, appDeaths, ui, installed, prefs, installing, session, answered, hist>>

\* renameTo; and then the person must have allowed installs, or the run ends.
Renames(w) ==
  /\ worker[w].at = "rename"
  /\ IF folder[Part(w)] = "none" THEN RunOver(w) /\ UNCHANGED <<folder, fetched>>
     ELSE /\ Leaves([folder EXCEPT ![Apk(w)] = folder[Part(w)], ![Part(w)] = "none"], fetched)
          /\ Goes(w, "install") \/ RunOver(w)
  /\ UNCHANGED <<chan, appDeaths, ui, installed, prefs, installing, session, answered, hist>>

---------------------------------------------------------------------------
(* install *)

SetsInstalling(w) ==
  /\ worker[w].at = "install" /\ installing' = worker[w].code /\ Goes(w, "open") /\ orphaned' = FALSE
  /\ UNCHANGED <<chan, appDeaths, ui, installed, prefs, folder, fetched, session, answered, highest, lateMin, crossed>>

\* abandonOwn, createSession: a session that was committed is answered with "aborted".
OpensSession(w) ==
  /\ worker[w].at = "open" /\ Goes(w, "commit")
  /\ answered' = (answered \/ \E u \in Worker : InFlight(u))
  /\ session' = [u \in Worker |-> IF u = w THEN [at |-> "open", code |-> worker[w].code] ELSE NoSession]
  /\ UNCHANGED <<chan, appDeaths, ui, installed, prefs, installing, folder, fetched, hist>>

InstallFails(w) == session' = [session EXCEPT ![w] = NoSession] /\ installing' = 0

\* The file is copied into the session and committed; anything that fails abandons it.
Commits(w) ==
  /\ worker[w].at = "commit" /\ RunOver(w)
  /\ \/ /\ session[w].at = "open" /\ folder[Apk(w)] # "none" /\ UNCHANGED installing
        /\ session' = [session EXCEPT ![w] = [at |-> "committed", code |-> worker[w].code, good |-> Whole(Apk(w)), alone |-> worker[w].alone]]
     \/ InstallFails(w)
  /\ UNCHANGED <<chan, appDeaths, ui, installed, prefs, folder, fetched, answered, hist>>

---------------------------------------------------------------------------
(* The system's installer and InstallReceiver *)

\* The process dies: the runs end where they are, the app is closed.
AppDies ==
  /\ worker' = [w \in Worker |-> Rest]
  /\ visible' = FALSE /\ face' = "closed" /\ entry' = "none" /\ place' = "behind" /\ slipped' = FALSE
  /\ orphaned' = (orphaned \/ \E w \in Worker : worker[w].at \in {"open", "commit"})
  /\ session' = [w \in Worker |-> IF session[w].at = "open" THEN NoSession ELSE session[w]]
  /\ UNCHANGED <<chan, folder, fetched, prefs, highest, lateMin, crossed>>

Killed == appDeaths < MaxAppDeaths /\ appDeaths' = appDeaths + 1 /\ AppDies /\ UNCHANGED <<installed, installing, answered>>

\* A good newer file replaces the app, whose process dies with it; the system may ask the person before.
Installs(w) ==
  LET s == session[w] IN
  /\ InFlight(w) /\ s.good /\ s.code > installed
  /\ installed' = s.code /\ answered' = TRUE /\ UNCHANGED <<installing, appDeaths>>
  /\ worker' = [u \in Worker |-> Rest]
  /\ visible' = FALSE /\ face' = "closed" /\ entry' = "none" /\ place' = "behind" /\ slipped' = FALSE
  /\ orphaned' = (orphaned \/ \E u \in Worker : worker[u].at \in {"open", "commit"})
  /\ session' = [u \in Worker |-> IF u = w \/ session[u].at = "open" THEN NoSession ELSE session[u]]
  /\ UNCHANGED <<chan, folder, fetched, prefs, highest, lateMin, crossed>>

\* The system refuses the file, or the person declines.
Refuses(w) ==
  /\ InFlight(w) /\ session' = [session EXCEPT ![w] = NoSession] /\ answered' = TRUE
  /\ UNCHANGED <<chan, appDeaths, ui, installed, prefs, installing, worker, folder, fetched, hist>>

\* onReceive: success, failure and a declined confirmation all take the mark away.
Receives ==
  /\ answered /\ answered' = FALSE /\ installing' = 0
  /\ UNCHANGED <<chan, appDeaths, ui, installed, prefs, worker, folder, fetched, session, hist>>

UpdNext ==
  \/ OfferChanges \/ Opens \/ Hides \/ ScreenAsks \/ Prompts \/ StartsSession \/ OpensWeb \/ JobStarts \/ Killed
  \/ \E w \in Worker :
       \/ CheckEnds(w) \/ Remembers(w) \/ Fetches(w) \/ Downloads(w) \/ ChecksFile(w) \/ Renames(w)
       \/ SetsInstalling(w) \/ OpensSession(w) \/ Commits(w) \/ Installs(w)
       \/ \E m \in {offer} \cup {[code |-> c, min |-> 0] : c \in 1..highest} : Verifies(w, m)
       \/ Refuses(w)
  \/ Receives

UpdSpec == UpdInit /\ [][UpdNext]_updVars

---------------------------------------------------------------------------
(* Properties *)

UpdTypeOK ==
  /\ {installed, highest} \subseteq 0..LastCode /\ lastSeen <= highest /\ minSupported <= highest
  /\ installing <= highest /\ face \in {"closed", "door", "web", "force"}
  /\ entry \in {"none", "prompt", "session"} /\ place \in {"ahead", "behind"} /\ (place = "ahead" => Queued)
  /\ \A w \in Worker : worker[w].code <= LastCode /\ (worker[w].at \in InFolder => worker[w].code > installed) /\ session[w].code <= highest
  /\ \A f \in File : folder[f] \in Worker \cup {"none"} /\ (f[1] = "apk" /\ folder[f] # "none" => f[2] <= highest)

\* ApkVerifier: "Only then is it handed to the installer": what is committed is the file that was
\* verified. The screen's run and the job's can be in the folder together (a job that was started
\* before the app came to the screen): one then clears it, and opens its own partial file, between
\* the other's check and rename.
OnlyVerifiedIsHandedOver == \A w \in Worker : InFlight(w) => session[w].good

\* A run that has the folder for itself hands over what it verified.
VerifiedWhenAlone == \A w \in Worker : InFlight(w) => session[w].good \/ ~session[w].alone

\* The job leaves a version alone while `installing` says it is in flight. So the mark must stand for
\* something that ends: a run, a session, a result. A process that dies inside install leaves it for good.
InstallingIsReal ==
  installing # 0 /\ ~orphaned =>
    \/ \E w \in Worker : worker[w].at \in {"open", "commit"} \/ InFlight(w)
    \/ answered

\* "the highest version_code of any manifest this phone has already verified" (UpdateLogic.kt):
\* older ones are refused by it, so it may not fall, but for two checks that store at once.
SeenIsHighest == crossed \/ lastSeen >= highest

\* "below the minimum supported version ... nothing of the family is shown" (MainActivity.kt): family data is
\* on the screen only until the check that a return to the screen starts has ended. Excepted are a minimum that the
\* job learnt after that check, on the screen or during the download, which a return to the screen does not check
\* again; and somebody on the way in or out when the check ended: openWeb does not look at the blocking
\* screen, and replaces it until the next check.
BlockedBelowMinimum ==
  visible /\ face = "web" /\ MustUpdate => worker["screen"].at \in {"asked", "store"} \/ lateMin \/ slipped

\* What the app remembers of its updates and hands to the installer, with the screen, the job and
\* the death of the process in every order.
UpdatesSafe ==
  /\ UpdTypeOK
  /\ VerifiedWhenAlone
  /\ InstallingIsReal
  /\ SeenIsHighest
  /\ BlockedBelowMinimum
=============================================================================
