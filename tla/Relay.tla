------------------------------- MODULE Relay --------------------------------
(***************************************************************************)
(* The fetch relay (relay/relay.py) and its control command (relayctl.py). *)
(* Requests run in threads. Each passes the kill switch, the daily cap and *)
(* the signature, takes one of the global slots, is counted, and fetches   *)
(* hop by hop: circuit breaker, slot and token of the host, the page. What *)
(* must outlive the process is in relay.json, which both programs load,    *)
(* change and save: a lock excludes the threads from each other, nothing   *)
(* excludes the command. Both save by way of the same temporary file.      *)
(*                                                                         *)
(* The rules for urls, addresses, headers and bodies only decide between a *)
(* page and a refusal here.                                                *)
(***************************************************************************)
EXTENDS Integers, FiniteSets, Sequences

CONSTANTS
  Thread,      \* threads of the server
  Ctl,         \* the control command
  Host,        \* hosts of the allow-list
  Damaged,     \* a state file that does not parse (also: an empty one)
  NoFile,      \* no temporary file
  Cap,         \* DAILY_CAP
  Threshold,   \* BREAKER_THRESHOLD
  CoolDown,    \* BREAKER_COOLDOWN
  TsWindow,    \* TS_WINDOW
  DayLength,   \* ticks in a day
  AuthLimit,   \* AUTH_FAIL_PER_MIN
  Slots,       \* values of GLOBAL_CONCURRENCY, which the environment sets
  HostSlots,   \* HOST_CONCURRENCY
  MaxHops,     \* MAX_REDIRECTS
  LastTick,    \* bound on the clock
  MaxRequests, \* bound on requests
  MaxEvents    \* bound on commands and restarts of the container together

Tick0 == 0..LastTick
Writer == Thread \cup {Ctl}
Sig == Int \X Host  \* a signature is over the time and the url

ASSUME RelayNumbers ==
  /\ {Cap, Threshold, DayLength, HostSlots} \cup Slots \subseteq Nat \ {0}
  /\ {CoolDown, TsWindow, AuthLimit, MaxHops, LastTick, MaxRequests, MaxEvents} \subseteq Nat
ASSUME RelayNames == IsFiniteSet(Thread) /\ Ctl \notin Thread /\ "free" \notin Thread /\ Host # {}

VARIABLES
  tick,
  file, tmp,  \* relay.json and relay.json.tmp
  lock,       \* the thread that holds _lock
  wr,         \* each writer's way through load, open, write, rename
  req,        \* each thread's request
  seen,       \* _seen: <<signature, expiry>> pairs
  fails,      \* _auth_fail of the source: the time of the last failures and how many were then
  limit,      \* the value set
  slots,      \* free global slots
  hostSlots,  \* free slots of each host
  arrived,    \* requests so far
  events,     \* commands and restarts so far
  off,        \* history: the last command that was carried out is "off"
  raced,      \* history: command and relay each had a copy of the file at once
  served      \* history: signatures accepted; fetches counted on each day

relayFiles == <<file, tmp, lock, wr>>
relayMemory == <<seen, fails, slots, hostSlots>>
relayHistory == <<off, raced, served>>
relayCount == <<limit, arrived, events>>
relayVars == <<tick, relayFiles, req, relayMemory, relayCount, relayHistory>>

Day == tick \div DayLength
Fresh == [killed |-> FALSE, day |-> -1, used |-> 0,
          streak |-> [h \in Host |-> 0], until |-> [h \in Host |-> 0]]
Parsed(f) == IF f = Damaged THEN Fresh ELSE f  \* load_state

State == [killed : BOOLEAN, day : -1..LastTick, used : Nat,
          streak : [Host -> 0..Threshold], until : [Host -> 0..LastTick + CoolDown]]
ASSUME RelayFileNames == Damaged \notin State /\ NoFile \notin State

NoWrite == [at |-> "none", copy |-> Fresh, fd |-> "none"]
NoRequest == [pc |-> "idle", sig |-> <<0, CHOOSE h \in Host : TRUE>>, honest |-> TRUE,
              host |-> CHOOSE h \in Host : TRUE, hop |-> 0, bad |-> FALSE, slot |-> FALSE]

RelayTypeOK ==
  /\ tick \in Tick0
  /\ file \in State \cup {Damaged} /\ tmp \in State \cup {Damaged, NoFile}
  /\ lock \in Thread \cup {"free"}
  /\ wr \in [Writer -> [at : {"none", "loaded", "opened", "written"}, copy : State,
                        fd : {"none", "tmp", "file", "gone"}]]
  /\ req \in [Thread ->
       [pc : {"idle", "kill", "cap", "auth", "slot", "use", "check", "host", "fetch", "record", "end"},
        sig : Sig, honest : BOOLEAN, host : Host, hop : 0..MaxHops, bad : BOOLEAN, slot : BOOLEAN]]
  /\ seen \subseteq Sig \X Int /\ fails \in [at : Tick0, n : Nat]
  /\ limit \in Slots /\ slots \in 0..limit /\ hostSlots \in [Host -> 0..HostSlots]
  /\ {arrived, events} \subseteq Nat
  /\ off \in BOOLEAN /\ raced \in BOOLEAN
  /\ served \in [sigs : Seq(Sig), days : [0..LastTick -> Nat]]

---------------------------------------------------------------------------
(* Loading and saving relay.json *)

\* One writer at a time, each with its own temporary file: no writer is in the way.
Load(w, copy) ==
  /\ wr' = [wr EXCEPT ![w] = [at |-> "loaded", copy |-> copy, fd |-> "none"]]
  /\ raced' = (raced \/ \E v \in Writer \ {w} : wr[v].at # "none")

\* open(tmp, "w") makes the file empty, also when another writer has it open.
OpenTmp(w) ==
  /\ wr[w].at = "loaded"
  /\ tmp' = Damaged
  /\ wr' = [wr EXCEPT ![w] = [at |-> "opened", copy |-> wr[w].copy, fd |-> "tmp"]]
  /\ UNCHANGED <<tick, file, lock, req, relayMemory, relayCount, relayHistory>>

\* What is in a file after new is written over old.
Over(old, new) == IF old = Damaged THEN {new} ELSE {new, Damaged}

WriteTmp(w) ==
  /\ wr[w].at = "opened"
  /\ CASE wr[w].fd = "tmp"  -> tmp' \in Over(tmp, wr[w].copy) /\ UNCHANGED file
       [] wr[w].fd = "file" -> file' \in Over(file, wr[w].copy) /\ UNCHANGED tmp
       [] wr[w].fd = "gone" -> UNCHANGED <<file, tmp>>
  /\ wr' = [wr EXCEPT ![w].at = "written"]
  /\ UNCHANGED <<tick, lock, req, relayMemory, relayCount, relayHistory>>

\* os.replace; others that have the temporary file open now write to relay.json.
Replace(w) ==
  /\ tmp # NoFile
  /\ file' = tmp /\ tmp' = NoFile
  /\ wr' = [v \in Writer |->
              IF v = w THEN NoWrite
              ELSE [wr[v] EXCEPT !.fd = CASE @ = "tmp" -> "file" [] @ = "file" -> "gone" [] OTHER -> @]]

\* Another writer was faster: there is nothing to rename.
NothingToReplace(w) == tmp = NoFile /\ wr' = [wr EXCEPT ![w] = NoWrite] /\ UNCHANGED <<file, tmp>>

---------------------------------------------------------------------------
(* A request *)

At(r, pc) == req[r].pc = pc
Goto(r, pc) == req' = [req EXCEPT ![r].pc = pc]
Refuse(r) == Goto(r, "end")
GoesOn(r, pc, host, hop, bad, slot) ==
  req' = [req EXCEPT ![r] = [pc |-> pc, sig |-> req[r].sig, honest |-> req[r].honest,
                             host |-> host, hop |-> hop, bad |-> bad, slot |-> slot]]

Arrive(r, ts, h, honest) ==
  /\ At(r, "idle") /\ arrived < MaxRequests
  /\ req' = [req EXCEPT ![r] = [pc |-> "kill", sig |-> <<ts, h>>, honest |-> honest,
                                host |-> h, hop |-> 0, bad |-> FALSE, slot |-> FALSE]]
  /\ arrived' = arrived + 1
  /\ UNCHANGED <<tick, relayFiles, relayMemory, limit, events, relayHistory>>

CheckKill(r) ==
  /\ At(r, "kill")
  /\ IF Parsed(file).killed THEN Refuse(r) ELSE Goto(r, "cap")
  /\ UNCHANGED <<tick, relayFiles, relayMemory, relayCount, relayHistory>>

\* daily_use: a new day starts at zero; the file is saved in any case.
Today(st, more) ==
  [killed |-> st.killed, day |-> Day, used |-> (IF st.day = Day THEN st.used ELSE 0) + more,
   streak |-> st.streak, until |-> st.until]

LoadUse(r) ==
  /\ At(r, "cap") \/ At(r, "use")
  /\ lock = "free" /\ wr[r].at = "none"
  /\ lock' = r
  /\ Load(r, Today(Parsed(file), IF At(r, "use") THEN 1 ELSE 0))
  /\ UNCHANGED <<tick, file, tmp, req, relayMemory, relayCount, off, served>>

\* breaker_record
Recorded(st, h, bad) ==
  LET opens == bad /\ st.streak[h] + 1 >= Threshold IN
  [killed |-> st.killed, day |-> st.day, used |-> st.used,
   streak |-> [st.streak EXCEPT ![h] = IF bad /\ ~opens THEN @ + 1 ELSE 0],
   until |-> [st.until EXCEPT ![h] = IF opens THEN tick + CoolDown ELSE @]]

LoadRecord(r) ==
  /\ At(r, "record")
  /\ lock = "free" /\ wr[r].at = "none"
  /\ lock' = r
  /\ Load(r, Recorded(Parsed(file), req[r].host, req[r].bad))
  /\ UNCHANGED <<tick, file, tmp, req, relayMemory, relayCount, off, served>>

\* The lock is released whether or not the file could be renamed.
Saved(r) ==
  /\ wr[r].at = "written"
  /\ \/ /\ Replace(r)
        /\ CASE At(r, "cap") -> IF wr[r].copy.used >= Cap THEN Refuse(r) ELSE Goto(r, "auth")
             [] At(r, "use") -> Goto(r, "check")
             [] OTHER -> Goto(r, "end")
        /\ served' = IF At(r, "use") THEN [sigs |-> served.sigs, days |-> [served.days EXCEPT ![wr[r].copy.day] = @ + 1]]
                     ELSE served
     \/ NothingToReplace(r) /\ Goto(r, "end") /\ UNCHANGED served
  /\ lock' = "free"
  /\ UNCHANGED <<tick, relayMemory, relayCount, off, raced>>

\* check_auth: too many failures, a time out of the window, a signature seen before.
Recent == IF tick - fails.at < 1 THEN fails.n ELSE 0
Failures(n) == fails' = [at |-> tick, n |-> n]

\* Mutant: a signature is forgotten when its expiry comes.
Known_Early == {e \in seen : e[2] > tick}

\* An entry is forgotten after its expiry.
Known == {e \in seen : e[2] >= tick}

CheckAuth(r) ==
  /\ At(r, "auth") /\ lock = "free"
  /\ LET signed == req[r].honest /\ tick - req[r].sig[1] \in -TsWindow..TsWindow
         fresh == \A e \in Known : e[1] # req[r].sig
     IN  \/ Recent >= AuthLimit /\ Refuse(r) /\ Failures(Recent) /\ UNCHANGED <<seen, served>>
         \/ /\ Recent < AuthLimit /\ signed /\ fresh
            /\ Goto(r, "slot") /\ Failures(Recent)
            /\ seen' = Known \cup {<<req[r].sig, tick + 2 * TsWindow>>}
            /\ served' = [sigs |-> Append(served.sigs, req[r].sig), days |-> served.days]
         \/ /\ Recent < AuthLimit /\ ~(signed /\ fresh)
            /\ Refuse(r) /\ Failures(Recent + 1)
            /\ seen' = IF signed THEN Known ELSE seen
            /\ UNCHANGED served
  /\ UNCHANGED <<tick, relayFiles, slots, hostSlots, relayCount, off, raced>>

\* A global slot, or a refusal after two seconds without one.
TakeSlot(r) ==
  /\ At(r, "slot")
  /\ \/ /\ slots > 0 /\ slots' = slots - 1
        /\ GoesOn(r, "use", req[r].host, req[r].hop, req[r].bad, TRUE)
     \/ slots = 0 /\ Refuse(r) /\ UNCHANGED slots
  /\ UNCHANGED <<tick, relayFiles, seen, fails, hostSlots, relayCount, relayHistory>>

\* validate_url: not https, or a host that is not on the allow-list (any more).
UrlRefused(r) ==
  /\ At(r, "check") /\ Refuse(r)
  /\ UNCHANGED <<tick, relayFiles, relayMemory, relayCount, relayHistory>>

\* breaker_check, without the lock
CheckBreaker(r) ==
  /\ At(r, "check")
  /\ IF Parsed(file).until[req[r].host] > tick THEN Refuse(r) ELSE Goto(r, "host")
  /\ UNCHANGED <<tick, relayFiles, relayMemory, relayCount, relayHistory>>

TakeHost(r) ==
  /\ At(r, "host")
  /\ \/ /\ hostSlots[req[r].host] > 0
        /\ hostSlots' = [hostSlots EXCEPT ![req[r].host] = @ - 1]
        /\ Goto(r, "fetch")
     \/ hostSlots[req[r].host] = 0 /\ Refuse(r) /\ UNCHANGED hostSlots
  /\ UNCHANGED <<tick, relayFiles, seen, fails, slots, relayCount, relayHistory>>

GiveHostBack(r) == hostSlots' = [hostSlots EXCEPT ![req[r].host] = @ + 1]

\* A page, judged by looks_blocked.
Fetched(r, bad) ==
  /\ At(r, "fetch") /\ GiveHostBack(r)
  /\ GoesOn(r, "record", req[r].host, req[r].hop, bad, req[r].slot)
  /\ UNCHANGED <<tick, relayFiles, seen, fails, slots, relayCount, relayHistory>>

\* A redirect to a host of the allow-list goes through the same checks.
Redirected(r, h) ==
  /\ At(r, "fetch") /\ GiveHostBack(r)
  /\ IF req[r].hop < MaxHops
     THEN GoesOn(r, "check", h, req[r].hop + 1, req[r].bad, req[r].slot)
     ELSE Refuse(r)
  /\ UNCHANGED <<tick, relayFiles, seen, fails, slots, relayCount, relayHistory>>

\* HostGate.take: no token within three seconds.
NoToken(r) ==
  /\ At(r, "fetch") /\ GiveHostBack(r)
  /\ Refuse(r)
  /\ UNCHANGED <<tick, relayFiles, seen, fails, slots, relayCount, relayHistory>>

\* An address that is not public, a page that is refused, no answer in time, an error.
HopFails(r) ==
  /\ At(r, "fetch") /\ GiveHostBack(r)
  /\ Refuse(r)
  /\ UNCHANGED <<tick, relayFiles, seen, fails, slots, relayCount, relayHistory>>

\* The answer is sent; what was taken is given back.
End(r) ==
  /\ At(r, "end")
  /\ slots' = IF req[r].slot THEN slots + 1 ELSE slots
  /\ req' = [req EXCEPT ![r] = NoRequest]
  /\ UNCHANGED <<tick, relayFiles, seen, fails, hostSlots, relayCount, relayHistory>>

Save(r) == OpenTmp(r) \/ WriteTmp(r) \/ Saved(r)

RequestStep(r) ==
  \/ CheckKill(r) \/ LoadUse(r) \/ LoadRecord(r) \/ Save(r)
  \/ CheckAuth(r) \/ TakeSlot(r) \/ CheckBreaker(r) \/ TakeHost(r)
  \/ \E bad \in BOOLEAN : Fetched(r, bad)
  \/ \E h \in Host : Redirected(r, h)
  \/ UrlRefused(r) \/ NoToken(r) \/ HopFails(r) \/ End(r)

---------------------------------------------------------------------------
(* relay-off, relay-on, relay-reset *)

Commanded(st, cmd) ==
  CASE cmd = "off" -> [st EXCEPT !.killed = TRUE]
    [] cmd = "on" -> [st EXCEPT !.killed = FALSE]
    [] cmd = "reset" -> [st EXCEPT !.streak = Fresh.streak, !.until = Fresh.until]

Command(cmd) ==
  /\ wr[Ctl].at = "none" /\ events < MaxEvents
  /\ Load(Ctl, Commanded(Parsed(file), cmd))
  /\ events' = events + 1
  /\ off' = (off /\ cmd # "on")
  /\ UNCHANGED <<tick, file, tmp, lock, req, relayMemory, limit, arrived, served>>

CommandSaved ==
  /\ wr[Ctl].at = "written"
  /\ \/ Replace(Ctl) /\ off' = wr[Ctl].copy.killed
     \/ NothingToReplace(Ctl) /\ UNCHANGED off
  /\ UNCHANGED <<tick, lock, req, relayMemory, relayCount, raced, served>>

CommandStep == OpenTmp(Ctl) \/ WriteTmp(Ctl) \/ CommandSaved

\* The container stops and starts: the threads are gone wherever they were.
Restart ==
  /\ events < MaxEvents /\ events' = events + 1
  /\ lock' = "free" /\ wr' = [w \in Writer |-> IF w = Ctl THEN wr[w] ELSE NoWrite]
  /\ req' = [r \in Thread |-> NoRequest]
  /\ seen' = {} /\ fails' = [at |-> 0, n |-> 0]
  /\ slots' = limit /\ hostSlots' = [h \in Host |-> HostSlots]
  /\ served' = [sigs |-> <<>>, days |-> served.days]
  /\ UNCHANGED <<tick, file, tmp, limit, arrived, off, raced>>

RelayTick ==
  /\ tick < LastTick /\ tick' = tick + 1
  /\ UNCHANGED <<relayFiles, req, relayMemory, relayCount, relayHistory>>

---------------------------------------------------------------------------
RelayInit ==
  /\ tick = 0
  /\ file = Fresh /\ tmp = NoFile /\ lock = "free"
  /\ wr = [w \in Writer |-> NoWrite]
  /\ req = [r \in Thread |-> NoRequest]
  /\ seen = {} /\ fails = [at |-> 0, n |-> 0]
  /\ limit \in Slots /\ slots = limit /\ hostSlots = [h \in Host |-> HostSlots]
  /\ arrived = 0 /\ events = 0
  /\ off = FALSE /\ raced = FALSE
  /\ served = [sigs |-> <<>>, days |-> [d \in 0..LastTick |-> 0]]

RelayNext ==
  \/ \E r \in Thread :
        \/ \E ts \in tick - TsWindow..tick + TsWindow, h \in Host, honest \in BOOLEAN :
              Arrive(r, ts, h, honest)
        \/ RequestStep(r)
  \/ \E cmd \in {"off", "on", "reset"} : Command(cmd)
  \/ CommandStep \/ Restart \/ RelayTick

RelaySpec == RelayInit /\ [][RelayNext]_relayVars

---------------------------------------------------------------------------
\* While the process lives no signature is accepted twice: it is remembered for as
\* long as its time is inside the window (check_auth).
AcceptedOnce == \A i, j \in DOMAIN served.sigs : served.sigs[i] = served.sigs[j] => i = j

\* The cap is read before the request is counted, so requests that are on their way
\* together overshoot it, by no more than the threads there are (do_GET, daily_use).
CapBound == ~raced => \A d \in DOMAIN served.days : served.days[d] <= Cap + Cardinality(Thread) - 1

\* As long as relayctl and the relay never had a copy of the file at once, the
\* command's word stands: counting, the new day and the breakers leave it alone.
\* Without that condition it does not hold: a count that was loaded before the
\* command saved brings the relay back.
OffHolds == off /\ ~raced => file # Damaged /\ file.killed

\* Whatever a request runs into, what it took is given back: the slots, and the lock.
SlotsKept ==
  /\ lock \in Thread => wr[lock].at # "none"
  /\ slots + Cardinality({r \in Thread : req[r].slot}) = limit
  /\ \A h \in Host :
        hostSlots[h] + Cardinality({r \in Thread : At(r, "fetch") /\ req[r].host = h}) = HostSlots

\* A breaker that opened stays open for its time unless a command resets it.
BreakerStays ==
  \A h \in Host :
    /\ ~raced /\ wr[Ctl].at = "none" /\ file # Damaged
    /\ file.until[h] > tick
    => file' # Damaged /\ file'.until[h] >= file.until[h]

\* Replay, daily cap, kill switch and slots hold under every interleaving of the threads and relayctl.
RelaySafe ==
  /\ RelayTypeOK
  /\ AcceptedOnce
  /\ CapBound
  /\ OffHolds
  /\ SlotsKept
=============================================================================
