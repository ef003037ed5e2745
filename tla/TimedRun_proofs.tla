-------------------------- MODULE TimedRun_proofs ---------------------------
(***************************************************************************)
(* Proofs about a timed run from the button to the automatic OFF, for any  *)
(* runs, requests, times and bounds. The argument goes from the service to *)
(* the plug: the chain of requests is a behaviour of RunStore; what Home   *)
(* Assistant may come to run was published, with one end for the plug; and *)
(* a run the plug was switched on for keeps its end in all of that.        *)
(***************************************************************************)
EXTENDS TimedRun, RunStore_proofs

-----------------------------------------------------------------------------
(* Minutes.                                                                *)

LEMMA WholeMinutes == ASSUME NEW k \in Nat PROVE (k * Minute) % Minute = 0
  BY TimesAssumption

LEMMA MinutesAndRest ==
  ASSUME NEW k \in Nat, NEW d \in 0..(Minute - 1)
  PROVE  (k * Minute + d) % Minute = d
  BY TimesAssumption

LEMMA RestType == ASSUME NEW t \in Nat PROVE t % Minute \in 0..(Minute - 1)
  BY TimesAssumption

\* Between two full minutes the rest grows by one with every tick.
LEMMA NextTick ==
  ASSUME NEW t \in Nat, (t + 1) % Minute # 0
  PROVE  (t + 1) % Minute = (t % Minute) + 1
<1> DEFINE k == t \div Minute
           d == t % Minute
<1>1. k \in Nat /\ d \in 0..(Minute - 1) /\ t = k * Minute + d
  BY TimesAssumption
<1> HIDE DEF k, d
<1>2. CASE d + 1 = Minute
  <2>1. t + 1 = (k + 1) * Minute
    BY TimesAssumption, <1>1, <1>2
  <2> QED
    BY <2>1, <1>1, WholeMinutes
<1>3. CASE d + 1 < Minute
  <2>1. t + 1 = k * Minute + (d + 1)
    BY TimesAssumption, <1>1
  <2>2. d + 1 \in 0..(Minute - 1)
    BY <1>1, <1>3, TimesAssumption
  <2> QED
    BY <2>1, <2>2, <1>1, MinutesAndRest DEF d
<1> QED
  BY <1>1, <1>2, <1>3, TimesAssumption

\* ceil_minute returns a full minute.
LEMMA CeilIsMinute == ASSUME NEW t \in Nat PROVE CeilMinute(t) % Minute = 0
<1>1. (t + Minute - 1) \div Minute \in Nat
  BY TimesAssumption
<1> QED
  BY <1>1, WholeMinutes DEF CeilMinute

-----------------------------------------------------------------------------
(* The service under the requests is the service alone.                    *)

Busy == {"arming", "turn_on", "withdraw", "delete", "moving"}

\* A request that will name a run to the service has one.
OwnRun ==
  /\ pc \in [Req -> Steps] /\ mine \in [Req -> RunId \cup {NoSet}]
  /\ \A q \in Req : pc[q] \in Busy => mine[q] \in RunId

LEMMA OwnRunStep == OwnRun /\ [RunNext]_runVars => OwnRun'
<1> USE DEF OwnRun, Steps, Busy, Goto
<1>1. ASSUME OwnRun, UNCHANGED reqVars PROVE OwnRun'
  BY <1>1 DEF reqVars
<1>2. ASSUME OwnRun, NEW q \in Req, NEW r \in RunId, NEW m \in Minutes,
             StartPost(q, r, m) \/ ExtendPost(q, r, m)
      PROVE  OwnRun'
  BY <1>2 DEF StartPost, ExtendPost
<1>3. ASSUME OwnRun, NEW q \in Req, Poll(q) \/ ExtendPoll(q) PROVE OwnRun'
  BY <1>3 DEF Poll, ExtendPoll
<1>4. ASSUME OwnRun, NEW q \in Req, TurnOn(q) PROVE OwnRun'
  BY <1>4 DEF TurnOn
<1>5. ASSUME OwnRun, NEW q \in Req, Withdraw(q) \/ Delete(q) PROVE OwnRun'
  BY <1>5 DEF Withdraw, Delete
<1>6. ASSUME OwnRun, NEW q \in Req, EndBegin(q) \/ OffBegin(q) PROVE OwnRun'
  BY <1>6 DEF EndBegin, OffBegin
<1>7. ASSUME OwnRun, NEW q \in Req, TurnOff(q) PROVE OwnRun'
  BY <1>7 DEF TurnOff
<1>8. ASSUME OwnRun, NEW q \in Req, ReadOff(q) PROVE OwnRun'
  BY <1>8 DEF ReadOff
<1>9. ASSUME OwnRun, NEW q \in Req, Close(q) PROVE OwnRun'
  BY <1>9 DEF Close, Running, ActiveOn
<1>10. ApplierStep \/ ServiceStep \/ MinutePasses \/ HaStop \/ HaStart \/ Press \/ Sync
        \/ UNCHANGED runVars => UNCHANGED reqVars
  BY DEF ApplierStep, ServiceStep, MinutePasses, HaStop, HaStart, Press, Sync, runVars
<1> QED
  BY <1>1, <1>2, <1>3, <1>4, <1>5, <1>6, <1>7, <1>8, <1>9, <1>10 DEF RunNext, RequestStep

LEMMA OwnRunAlways == RunSpec => []OwnRun
<1>1. RunInit => OwnRun
  BY DEF RunInit, OwnRun, Steps, Busy
<1> QED
  BY <1>1, OwnRunStep, PTL DEF RunSpec

\* What a step does to the service: one of its operations on runs, or nothing.
StoreMove ==
  \/ \E r \in RunId, m \in Minutes : StartRun(ThePlug, r, m)
  \/ \E r \in RunId, m \in Minutes : ExtendRun(r, m) /\ "extend" \in Kinds
  \/ \E r \in RunId, how \in {"cancelled", "withdrawn"} : CancelRun(r, how)
  \/ ExpireRuns \/ Republish \/ Crash \/ Restart \/ Tick
  \/ UNCHANGED storeVars

LEMMA MovesOfStore == OwnRun /\ [RunNext]_runVars => StoreMove
<1> USE DEF StoreMove
<1>1. ASSUME NEW q \in Req, NEW r \in RunId, NEW m \in Minutes,
             StartPost(q, r, m) \/ ExtendPost(q, r, m)
      PROVE  StoreMove
  BY <1>1 DEF StartPost, ExtendPost
<1>2. ASSUME OwnRun, NEW q \in Req, Withdraw(q) \/ Delete(q) PROVE StoreMove
  BY <1>2 DEF Withdraw, Delete, OwnRun, Busy
<1>3. ASSUME NEW q \in Req,
             Poll(q) \/ ExtendPoll(q) \/ TurnOn(q) \/ EndBegin(q) \/ OffBegin(q) \/ TurnOff(q)
               \/ ReadOff(q) \/ Close(q)
      PROVE  StoreMove
  BY <1>3 DEF Poll, ExtendPoll, TurnOn, EndBegin, OffBegin, TurnOff, ReadOff, Close
<1>4. ApplierStep \/ ServiceStep \/ MinutePasses \/ HaStop \/ HaStart \/ Press \/ Sync
        \/ UNCHANGED runVars => StoreMove
  BY DEF ApplierStep, ServiceStep, MinutePasses, HaStop, HaStart, Press, Sync, runVars
<1> QED
  BY <1>1, <1>2, <1>3, <1>4 DEF RunNext, RequestStep

\* Every behaviour of the requests, the plug and the service together is one of the
\* service, so what RunStore promises of the runs holds here.
THEOREM RunRefinesStore == RunSpec => StoreSpec
<1>1. RunInit => StoreInit
  BY DEF RunInit
<1>2. StoreMove => [StoreStep]_storeVars
  BY PlugAssumption DEF StoreMove, StoreStep
<1> QED
  BY <1>1, <1>2, MovesOfStore, OwnRunAlways, PTL DEF RunSpec, StoreSpec

-----------------------------------------------------------------------------
(* What Home Assistant may come to run.                                    *)

\* A set with one end at most for the plug, and with files for it.
OneEnd(set) ==
  /\ set[ThePlug].rendered
  /\ \A e, f \in set[ThePlug].ends : e = f

Managed == managed[ThePlug]

WasPublished(set) == \E pub \in published : pub[2] = set

\* The inductive invariant on the sets: all that was published has one end at most;
\* what is in force, what a failed pass goes back to and a whole out/ were published;
\* out/ carries the highest number; and a claim names what is in force.
SetsInv ==
  /\ Managed
  /\ \A pub \in published : OneEnd(pub[2]) /\ pub[1] <= out.seq
  /\ out.whole => <<out.seq, out.set>> \in published
  /\ WasPublished(inForce) /\ WasPublished(good)
  /\ claim # NoSet => claim \in published /\ claim[2] = inForce /\ good = inForce

LEMMA RenderedOneEnd == TypeOK /\ OneActive /\ Managed => OneEnd(Rendered)
<1> SUFFICES ASSUME TypeOK, OneActive, Managed PROVE OneEnd(Rendered)
  OBVIOUS
<1>1. Rendered[ThePlug].rendered
      /\ Rendered[ThePlug].ends = {<<x, endsAt[x]>> : x \in ActiveOn(ThePlug)}
  BY PlugAssumption DEF Rendered, Render, Managed
<1>2. \A x, y \in ActiveOn(ThePlug) : x = y
  BY DEF ActiveOn, OneActive
<1> QED
  BY <1>1, <1>2 DEF OneEnd

LEMMA SetsInit == RunInit /\ TypeOK /\ OneActive => SetsInv
<1> SUFFICES ASSUME RunInit, TypeOK, OneActive PROVE SetsInv
  OBVIOUS
<1>1. Managed /\ published = {<<1, Rendered>>} /\ out = [seq |-> 1, set |-> Rendered, whole |-> TRUE]
  BY PlugAssumption DEF RunInit, StoreInit, Managed
<1>2. OneEnd(Rendered)
  BY <1>1, RenderedOneEnd
<1> QED
  BY <1>1, <1>2 DEF RunInit, SetsInv, WasPublished

\* What an operation of the service leaves in out/.
OutMoves ==
  /\ managed' = managed
  /\ PublishWhole \/ PublishTorn \/ UNCHANGED <<out, published>>

LEMMA MoveOfOut == StoreMove => OutMoves
<1> USE DEF OutMoves, PublishOutcome, Publication
<1>1. ASSUME NEW r \in RunId, NEW m \in Minutes, StartRun(ThePlug, r, m) PROVE OutMoves
  BY <1>1 DEF StartRun, AddRun
<1>2. ASSUME NEW r \in RunId, NEW m \in Minutes, ExtendRun(r, m) PROVE OutMoves
  BY <1>2 DEF ExtendRun, MoveEnd
<1>3. ASSUME NEW r \in RunId, NEW how \in {"cancelled", "withdrawn"}, CancelRun(r, how)
      PROVE  OutMoves
  BY <1>3 DEF CancelRun, CloseRun
<1>4. ASSUME ExpireRuns \/ Republish \/ Restart PROVE OutMoves
  BY <1>4 DEF ExpireRuns, EndRuns, Republish, Restart
<1>5. ASSUME Crash \/ Tick \/ UNCHANGED storeVars PROVE OutMoves
  BY <1>5 DEF Crash, Tick, storeVars, pubVars
<1> QED
  BY <1>1, <1>2, <1>3, <1>4, <1>5 DEF StoreMove

\* The sets of the applier change only in its own step, which leaves the service alone.
ArmMoves ==
  \/ UNCHANGED armVars
  \/ ApplierStep

LEMMA MoveOfArms == [RunNext]_runVars => ArmMoves
<1>1. ASSUME NEW q \in Req, RequestStep(q) PROVE UNCHANGED armVars
  BY <1>1 DEF RequestStep, StartPost, ExtendPost, Poll, TurnOn, Withdraw, ExtendPoll, EndBegin,
              OffBegin, TurnOff, ReadOff, Close, Delete
<1>2. ServiceStep \/ MinutePasses \/ HaStop \/ HaStart \/ Press \/ Sync \/ UNCHANGED runVars
        => UNCHANGED armVars
  BY DEF ServiceStep, MinutePasses, HaStop, HaStart, Press, Sync, runVars
<1> QED
  BY <1>1, <1>2 DEF RunNext, ArmMoves

LEMMA SetsAfterMove ==
  ASSUME TypeOK, TypeOK', OneActive', NotAhead', SetsInv, OutMoves, UNCHANGED armVars
  PROVE  SetsInv'
<1> USE DEF armVars
<1>1. Managed'
  BY DEF OutMoves, SetsInv, Managed
<1>2. CASE PublishWhole
  <2>1. OneEnd(Rendered')
    <3>1. TypeOK' /\ OneActive' /\ Managed' => OneEnd(Rendered)'
      BY RenderedOneEnd, PTL
    <3>2. OneEnd(Rendered)' => OneEnd(Rendered')
      BY DEF OneEnd
    <3> QED
      BY <3>1, <3>2, <1>1
  <2>2. out'.seq = seq' /\ out'.set = Rendered' /\ published' = published \cup {<<seq', Rendered'>>}
    BY <1>2 DEF PublishWhole
  <2>3. \A pub \in published' : pub[1] <= out'.seq
    BY <2>2 DEF NotAhead
  <2>4. \A pub \in published' : OneEnd(pub[2])
    BY <2>1, <2>2 DEF SetsInv
  <2>5. \A set : WasPublished(set) => \E pub \in published' : pub[2] = set
    BY <2>2 DEF WasPublished
  <2>6. \E pub \in published' : pub[2] = inForce'
    BY <2>5 DEF SetsInv
  <2>7. \E pub \in published' : pub[2] = good'
    BY <2>5 DEF SetsInv
  <2>8. claim' # NoSet => claim' \in published' /\ claim'[2] = inForce' /\ good' = inForce'
    BY <2>2 DEF SetsInv
  <2> QED
    BY <1>1, <2>2, <2>3, <2>4, <2>6, <2>7, <2>8 DEF SetsInv, WasPublished, OneEnd, Managed
<1>3. CASE PublishTorn
  <2>1. out'.seq = out.seq /\ published' = published /\ (out'.whole => out' = out)
    BY <1>3 DEF PublishTorn, TypeOK
  <2> QED
    BY <1>1, <2>1 DEF SetsInv, WasPublished, OneEnd, Managed
<1>4. CASE UNCHANGED <<out, published>>
  BY <1>1, <1>4 DEF SetsInv, WasPublished, OneEnd, Managed
<1> QED
  BY <1>2, <1>3, <1>4 DEF OutMoves

LEMMA SetsAfterPass ==
  ASSUME SetsInv, ApplierStep
  PROVE  SetsInv'
<1>1. UNCHANGED <<managed, out, published>>
  BY DEF ApplierStep, storeVars, pubVars
<1>2. CASE \E c \in published : claim' = c /\ Arming!Claim /\ good' = inForce
  BY <1>1, <1>2 DEF Arming!Claim, SetsInv, WasPublished, OneEnd, Managed
<1>3. CASE Arming!TakeBack /\ UNCHANGED good
  BY <1>1, <1>3 DEF Arming!TakeBack, SetsInv, WasPublished, OneEnd, Managed
<1>4. CASE out.whole /\ inForce' = out.set /\ Arming!Change /\ UNCHANGED good
  <2>1. WasPublished(out.set)
    BY <1>4 DEF SetsInv, WasPublished
  <2> QED
    BY <1>1, <1>4, <2>1 DEF Arming!Change, SetsInv, WasPublished, OneEnd, Managed
<1>5. CASE inForce' = good /\ Arming!Change /\ UNCHANGED good
  BY <1>1, <1>5 DEF Arming!Change, SetsInv, WasPublished, OneEnd, Managed
<1> QED
  BY <1>2, <1>3, <1>4, <1>5 DEF ApplierStep

LEMMA SetsAlways == RunSpec => []SetsInv
<1>1. TypeOK /\ TypeOK' /\ OneActive' /\ RevInv' /\ SetsInv /\ OwnRun /\ [RunNext]_runVars => SetsInv'
  <2> SUFFICES ASSUME TypeOK, TypeOK', OneActive', RevInv', SetsInv, OwnRun, [RunNext]_runVars
               PROVE  SetsInv'
    OBVIOUS
  <2>1. NotAhead'
    BY DEF RevInv
  <2> QED
    BY <2>1, MovesOfStore, MoveOfOut, MoveOfArms, SetsAfterMove, SetsAfterPass DEF ArmMoves
<1> QED
  BY <1>1, SetsInit, RunRefinesStore, OwnRunAlways, StoreTypeCorrect, AtMostOneActive, RevAlways,
     PTL DEF RunSpec

-----------------------------------------------------------------------------
(* Types.                                                                  *)

\* A request closes a run once, or twice when its switch-off was confirmed.
ClosesOk ==
  \A q \in Req : /\ pc[q] = "idle" => closes[q] = 0
                 /\ pc[q] \in {"turn_off", "read_off"} => closes[q] \in 0..1
                 /\ pc[q] = "close" => closes[q] # 0

\* What the types need besides those of the service and of OwnRun.
RequestTypes ==
  /\ deadline \in [Req -> Nat] /\ oldEnd \in [Req -> Nat] /\ closes \in [Req -> 0..2]
  /\ ClosesOk

LEMMA RequestTypesStep ==
  ASSUME TypeOK, OwnRun, RequestTypes, [RunNext]_runVars
  PROVE  RequestTypes'
<1> USE GatewayAssumption DEF RequestTypes, ClosesOk, Goto
<1>0. now \in Nat /\ now + 1 \in Nat /\ now + ArmWait \in Nat /\ endsAt \in [RunId -> Nat]
      /\ pc \in [Req -> Steps]
  BY DEF TypeOK, OwnRun
<1>1. ASSUME UNCHANGED reqVars PROVE RequestTypes'
  BY <1>1 DEF reqVars
<1>2. ASSUME NEW q \in Req, NEW r \in RunId, NEW m \in Minutes,
             StartPost(q, r, m) \/ ExtendPost(q, r, m)
      PROVE  RequestTypes'
  BY <1>0, <1>2 DEF StartPost, ExtendPost, Steps
<1>3. ASSUME NEW q \in Req, Poll(q) \/ ExtendPoll(q) PROVE RequestTypes'
  BY <1>0, <1>3 DEF Poll, ExtendPoll, Steps
<1>4. ASSUME NEW q \in Req, TurnOn(q) PROVE RequestTypes'
  BY <1>0, <1>4 DEF TurnOn, Steps
<1>5. ASSUME NEW q \in Req, Withdraw(q) \/ Delete(q) PROVE RequestTypes'
  BY <1>0, <1>5 DEF Withdraw, Delete, Steps
<1>6. ASSUME NEW q \in Req, EndBegin(q) \/ OffBegin(q) PROVE RequestTypes'
  BY <1>0, <1>6 DEF EndBegin, OffBegin, Steps
<1>7. ASSUME NEW q \in Req, TurnOff(q) PROVE RequestTypes'
  BY <1>0, <1>7 DEF TurnOff, Steps
<1>8. ASSUME NEW q \in Req, ReadOff(q) PROVE RequestTypes'
  BY <1>0, <1>8 DEF ReadOff, Steps
<1>9. ASSUME NEW q \in Req, Close(q) PROVE RequestTypes'
  BY <1>0, <1>9 DEF Close, Steps
<1>10. ApplierStep \/ ServiceStep \/ MinutePasses \/ HaStop \/ HaStart \/ Press \/ Sync
        \/ UNCHANGED runVars => UNCHANGED reqVars
  BY DEF ApplierStep, ServiceStep, MinutePasses, HaStop, HaStart, Press, Sync, runVars
<1> QED
  BY <1>1, <1>2, <1>3, <1>4, <1>5, <1>6, <1>7, <1>8, <1>9, <1>10 DEF RunNext, RequestStep

\* The plug: it changed in the past.
PlugTypes ==
  /\ haUp \in BOOLEAN /\ on \in BOOLEAN /\ changedAt \in Nat /\ by \in RunId \cup {NoSet}
  /\ seen \in BOOLEAN /\ trouble \in Nat
  /\ changedAt <= now
  /\ ~HaMayStop => haUp

LEMMA PlugTypesStep ==
  ASSUME TypeOK, OwnRun, PlugTypes, [RunNext]_runVars
  PROVE  PlugTypes'
<1> USE DEF PlugTypes, SwitchOn, SwitchOff
<1>0. now \in Nat
  BY DEF TypeOK
<1>1. trouble' \in Nat
  <2>1. ASSUME NEW q \in Req, RequestStep(q) PROVE Trouble \/ UNCHANGED trouble
    BY <2>1 DEF RequestStep, StartPost, ExtendPost, Poll, TurnOn, Withdraw, ExtendPoll, EndBegin,
                OffBegin, TurnOff, ReadOff, Close, Delete
  <2>2. ApplierStep \/ ServiceStep \/ MinutePasses \/ HaStop \/ HaStart \/ Press \/ Sync
          \/ UNCHANGED runVars => Trouble \/ UNCHANGED trouble
    BY DEF ApplierStep, ServiceStep, MinutePasses, HaStop, HaStart, Press, Sync, runVars
  <2> QED
    BY <2>1, <2>2 DEF RunNext, Trouble
<1>2. ASSUME NEW q \in Req, TurnOn(q) PROVE PlugTypes'
  <2>1. mine[q] \in RunId /\ UNCHANGED <<now, seen>>
    BY <1>2 DEF TurnOn, OwnRun, Busy, storeVars
  <2>2. haUp' = haUp /\ on' \in BOOLEAN /\ by' \in RunId \cup {NoSet}
        /\ changedAt' \in {changedAt, now}
    BY <1>2, <2>1 DEF TurnOn, plugVars
  <2> QED
    BY <1>0, <1>1, <2>1, <2>2
<1>3. ASSUME NEW q \in Req, TurnOff(q) PROVE PlugTypes'
  <2>1. UNCHANGED <<now, seen>>
    BY <1>3 DEF TurnOff, storeVars
  <2>2. haUp' = haUp /\ on' \in BOOLEAN /\ by' \in RunId \cup {NoSet}
        /\ changedAt' \in {changedAt, now}
    BY <1>3 DEF TurnOff, plugVars
  <2> QED
    BY <1>0, <1>1, <2>1, <2>2
<1>4. ASSUME NEW q \in Req, ReadOff(q) PROVE PlugTypes'
  BY <1>1, <1>4 DEF ReadOff, storeVars, plugVars
<1>5. ASSUME UNCHANGED <<plugVars, seen, now>> PROVE PlugTypes'
  BY <1>1, <1>5 DEF plugVars
<1>6. ASSUME NEW q \in Req, NEW r \in RunId, NEW m \in Minutes,
             StartPost(q, r, m) \/ ExtendPost(q, r, m)
      PROVE  UNCHANGED <<plugVars, seen, now>>
  BY <1>6 DEF StartPost, ExtendPost, StartRun, AddRun, ExtendRun, MoveEnd
<1>7. ASSUME NEW q \in Req, Withdraw(q) \/ Delete(q) PROVE UNCHANGED <<plugVars, seen, now>>
  BY <1>7 DEF Withdraw, Delete, CancelRun, CloseRun, storeVars
<1>8. ASSUME NEW q \in Req, Poll(q) \/ ExtendPoll(q) \/ EndBegin(q) \/ OffBegin(q) \/ Close(q)
      PROVE  UNCHANGED <<plugVars, seen, now>>
  BY <1>8 DEF Poll, ExtendPoll, EndBegin, OffBegin, Close, storeVars
<1>9. ApplierStep \/ UNCHANGED runVars => UNCHANGED <<plugVars, seen, now>>
  BY DEF ApplierStep, runVars, storeVars
<1>10. ServiceStep => UNCHANGED <<plugVars, seen, now>>
  BY DEF ServiceStep, ExpireRuns, EndRuns, Republish, Crash, Restart
<1>11. ASSUME MinutePasses PROVE PlugTypes'
  <2>1. now' = now + 1 /\ seen' = seen /\ haUp' = haUp
        /\ on' \in BOOLEAN /\ by' \in RunId \cup {NoSet} /\ changedAt' \in {changedAt, now'}
    BY <1>11 DEF MinutePasses, Tick, plugVars
  <2> QED
    BY <1>0, <1>1, <2>1
<1>12. ASSUME HaStop PROVE PlugTypes'
  BY <1>1, <1>12 DEF HaStop, storeVars
<1>13. ASSUME HaStart PROVE PlugTypes'
  <2>1. UNCHANGED <<now, seen>> /\ haUp' = TRUE /\ changedAt' = now
    BY <1>13 DEF HaStart, storeVars
  <2>2. (on' = FALSE /\ by' = NoSet) \/ UNCHANGED <<on, by>>
    BY <1>13 DEF HaStart
  <2>3. on' \in BOOLEAN
    BY <2>2
  <2>4. by' \in RunId \cup {NoSet} /\ seen' \in BOOLEAN /\ now' = now
    BY <2>1, <2>2
  <2> QED
    BY <1>0, <1>1, <2>1, <2>3, <2>4
<1>14. ASSUME Press PROVE PlugTypes'
  BY <1>0, <1>1, <1>14 DEF Press, storeVars
<1>15. ASSUME Sync PROVE PlugTypes'
  BY <1>1, <1>15 DEF Sync, storeVars, plugVars
<1> QED
  BY <1>2, <1>3, <1>4, <1>5, <1>6, <1>7, <1>8, <1>9, <1>10, <1>11, <1>12, <1>13, <1>14, <1>15
  DEF RunNext, RequestStep

LEMMA ThingsTyped == RunSpec => [](TypeOK /\ OwnRun /\ RequestTypes /\ PlugTypes)
<1>1. RunInit => RequestTypes /\ PlugTypes
  <2>1. RunInit => RequestTypes
    BY DEF RunInit, RequestTypes, ClosesOk
  <2>2. RunInit => PlugTypes
    <3>1. RunInit => now = 0 /\ changedAt = 0
      BY DEF RunInit, StoreInit
    <3>2. RunInit => haUp /\ haUp \in BOOLEAN /\ on \in BOOLEAN /\ seen \in BOOLEAN
                     /\ by \in RunId \cup {NoSet}
      BY Zenon DEF RunInit
    <3>3. RunInit => trouble \in Nat
      BY DEF RunInit
    <3> QED
      BY <3>1, <3>2, <3>3 DEF PlugTypes
  <2> QED
    BY <2>1, <2>2
<1>2. TypeOK /\ OwnRun /\ RequestTypes /\ PlugTypes /\ [RunNext]_runVars
        => RequestTypes' /\ PlugTypes'
  BY RequestTypesStep, PlugTypesStep
<1> QED
  BY <1>1, <1>2, RunRefinesStore, OwnRunAlways, StoreTypeCorrect, PTL DEF RunSpec

\* The whole state keeps its types, the sets and claims of the applier included.
THEOREM RunTypesCorrect == RunSpec => []TypesOK
<1>1. TypeOK /\ OwnRun /\ RequestTypes /\ PlugTypes /\ SetsInv => TypesOK
  BY DEF TypeOK, OwnRun, RequestTypes, PlugTypes, SetsInv, WasPublished, TypesOK
<1> QED
  BY <1>1, ThingsTyped, SetsAlways, PTL

-----------------------------------------------------------------------------
(* The fail-safe.                                                          *)

\* The inductive invariant of FailSafeBound: at the last full minute the plug had not
\* been on for longer than MaxOn.
MinuteBound == haUp /\ on => now - changedAt <= MaxOn + (now % Minute)

LEMMA FreshlyChanged ==
  ASSUME TypeOK, changedAt' = now, now' = now
  PROVE  MinuteBound'
<1>1. now \in Nat /\ now % Minute \in Nat
  BY RestType DEF TypeOK
<1> QED
  BY <1>1, TimesAssumption DEF MinuteBound

LEMMA MinuteBoundStep ==
  ASSUME TypeOK, PlugTypes, MinuteBound, [RunNext]_runVars
  PROVE  MinuteBound'
<1> USE DEF SwitchOn, SwitchOff
<1>1. ASSUME UNCHANGED <<plugVars, now>> PROVE MinuteBound'
  BY <1>1 DEF MinuteBound, plugVars
<1>2. ASSUME NEW q \in Req, TurnOn(q) PROVE MinuteBound'
  <2>1. now' = now /\ (UNCHANGED plugVars \/ (haUp' = haUp /\ haUp /\ changedAt' = IF on THEN changedAt ELSE now))
    BY <1>2 DEF TurnOn, storeVars
  <2>2. CASE on /\ haUp
    BY <2>1, <2>2, <1>1 DEF MinuteBound, plugVars
  <2> QED
    BY <1>1, <2>1, <2>2, FreshlyChanged
<1>3. ASSUME NEW q \in Req, TurnOff(q) PROVE MinuteBound'
  <2>1. now' = now /\ (UNCHANGED plugVars \/ on' = FALSE)
    BY <1>3 DEF TurnOff, storeVars
  <2> QED
    BY <1>1, <2>1 DEF MinuteBound
<1>4. ASSUME NEW q \in Req, ReadOff(q) PROVE UNCHANGED <<plugVars, now>>
  BY <1>4 DEF ReadOff, storeVars
<1>6. ASSUME NEW q \in Req, NEW r \in RunId, NEW m \in Minutes,
             StartPost(q, r, m) \/ ExtendPost(q, r, m)
      PROVE  UNCHANGED <<plugVars, now>>
  BY <1>6 DEF StartPost, ExtendPost, StartRun, AddRun, ExtendRun, MoveEnd
<1>7. ASSUME NEW q \in Req, Withdraw(q) \/ Delete(q) PROVE UNCHANGED <<plugVars, now>>
  BY <1>7 DEF Withdraw, Delete, CancelRun, CloseRun, storeVars
<1>8. ASSUME NEW q \in Req, Poll(q) \/ ExtendPoll(q) \/ EndBegin(q) \/ OffBegin(q) \/ Close(q)
      PROVE  UNCHANGED <<plugVars, now>>
  BY <1>8 DEF Poll, ExtendPoll, EndBegin, OffBegin, Close, storeVars
<1>9. ApplierStep \/ Sync \/ UNCHANGED runVars => UNCHANGED <<plugVars, now>>
  BY DEF ApplierStep, Sync, runVars, storeVars
<1>10. ServiceStep => UNCHANGED <<plugVars, now>>
  BY DEF ServiceStep, ExpireRuns, EndRuns, Republish, Crash, Restart
<1>11. ASSUME MinutePasses PROVE MinuteBound'
  <2>1. now' = now + 1 /\ now \in Nat /\ changedAt \in Nat
    BY <1>11 DEF MinutePasses, Tick, TypeOK, PlugTypes
  <2>2. on' = FALSE \/ (UNCHANGED plugVars /\ ~(haUp /\ on /\ now' % Minute = 0 /\ FailSafe(now')))
    BY <1>11 DEF MinutePasses
  <2>3. CASE now' % Minute = 0 /\ UNCHANGED plugVars
    BY <2>1, <2>2, <2>3, TimesAssumption DEF MinuteBound, FailSafe, plugVars
  <2>4. CASE now' % Minute # 0 /\ UNCHANGED plugVars
    <3>1. now' % Minute = (now % Minute) + 1
      BY <2>1, <2>4, NextTick
    <3>2. now % Minute \in Nat
      BY <2>1, RestType
    <3> QED
      BY <2>1, <2>4, <3>1, <3>2, TimesAssumption DEF MinuteBound, plugVars
  <2> QED
    BY <2>2, <2>3, <2>4 DEF MinuteBound
<1>12. ASSUME HaStop PROVE MinuteBound'
  BY <1>12 DEF HaStop, MinuteBound
<1>13. ASSUME HaStart \/ Press PROVE MinuteBound'
  BY <1>13, FreshlyChanged DEF HaStart, Press, storeVars
<1> QED
  BY <1>1, <1>2, <1>3, <1>4, <1>6, <1>7, <1>8, <1>9, <1>10, <1>11, <1>12, <1>13
  DEF RunNext, RequestStep

\* Whatever requests, hands, faults and restarts do: while Home Assistant is up, the
\* plug is never on for a minute more than max_on_minutes.
THEOREM FailSafeHolds == RunSpec => []FailSafeBound
<1>1. RunInit => MinuteBound
  BY DEF RunInit, MinuteBound
<1>2. TypeOK /\ PlugTypes /\ MinuteBound /\ [RunNext]_runVars => MinuteBound'
  BY MinuteBoundStep
<1>3. TypeOK /\ PlugTypes /\ MinuteBound => FailSafeBound
  <2> SUFFICES ASSUME TypeOK, PlugTypes, MinuteBound, haUp, on PROVE now - changedAt < MaxOn + Minute
    BY DEF FailSafeBound
  <2>1. now \in Nat /\ changedAt \in Nat /\ now % Minute \in 0..(Minute - 1)
    BY RestType DEF TypeOK, PlugTypes
  <2> QED
    BY <2>1, TimesAssumption DEF MinuteBound
<1> QED
  BY <1>1, <1>2, <1>3, ThingsTyped, PTL DEF RunSpec

-----------------------------------------------------------------------------
(* Extensions.                                                             *)

\* While an extension waits the old end lies ahead: there was more time left than the
\* gateway waits for.
OldEndAhead == \A q \in Req : pc[q] = "moving" => now <= deadline[q] /\ deadline[q] < oldEnd[q]

LEMMA OldEndStep ==
  ASSUME TypeOK, OwnRun, RequestTypes, OldEndAhead, [RunNext]_runVars
  PROVE  OldEndAhead'
<1> USE DEF OldEndAhead, Goto
<1>0. now \in Nat /\ pc \in [Req -> Steps] /\ deadline \in [Req -> Nat] /\ oldEnd \in [Req -> Nat]
      /\ endsAt \in [RunId -> Nat]
  BY DEF TypeOK, OwnRun, RequestTypes
<1>1. ASSUME UNCHANGED <<pc, deadline, oldEnd, now>> PROVE OldEndAhead'
  BY <1>1
<1>2. ASSUME NEW q \in Req, NEW r \in RunId, NEW m \in Minutes, StartPost(q, r, m)
      PROVE  OldEndAhead'
  <2>1. now' = now /\ oldEnd' = oldEnd /\ \A x \in Req \ {q} : pc'[x] = pc[x] /\ deadline'[x] = deadline[x]
    BY <1>0, <1>2 DEF StartPost, StartRun, AddRun
  <2>2. pc'[q] # "moving"
    BY <1>0, <1>2 DEF StartPost
  <2> QED
    BY <2>1, <2>2
<1>3. ASSUME NEW q \in Req, NEW r \in RunId, NEW m \in Minutes, ExtendPost(q, r, m)
      PROVE  OldEndAhead'
  <2>1. now' = now /\ \A x \in Req \ {q} : /\ pc'[x] = pc[x] /\ deadline'[x] = deadline[x]
                                          /\ oldEnd'[x] = oldEnd[x]
    BY <1>0, <1>3 DEF ExtendPost, ExtendRun, MoveEnd
  <2>2. endsAt[r] - now >= MinRemaining /\ deadline'[q] = now + ArmWait /\ oldEnd'[q] = endsAt[r]
    BY <1>0, <1>3 DEF ExtendPost, ExtendRun
  <2> QED
    BY <1>0, <2>1, <2>2, MarginAssumption, GatewayAssumption, TimesAssumption
<1>4. ASSUME NEW q \in Req, Poll(q) \/ ExtendPoll(q) PROVE OldEndAhead'
  BY <1>0, <1>4 DEF Poll, ExtendPoll, storeVars
<1>5. ASSUME NEW q \in Req, Withdraw(q) \/ Delete(q) PROVE OldEndAhead'
  BY <1>0, <1>5 DEF Withdraw, Delete, CancelRun, CloseRun, storeVars
<1>6. ASSUME NEW q \in Req, TurnOn(q) \/ EndBegin(q) \/ OffBegin(q) \/ TurnOff(q) PROVE OldEndAhead'
  BY <1>0, <1>6 DEF TurnOn, EndBegin, OffBegin, TurnOff, storeVars
<1>7. ASSUME NEW q \in Req, ReadOff(q) \/ Close(q) PROVE OldEndAhead'
  BY <1>0, <1>7 DEF ReadOff, Close, storeVars
<1>8. ASSUME MinutePasses PROVE OldEndAhead'
  <2>1. now' = now + 1 /\ UNCHANGED <<pc, deadline, oldEnd>>
    BY <1>8 DEF MinutePasses, Tick, reqVars
  <2>2. \A q \in Req : pc[q] = "moving" => now < deadline[q]
    BY <1>8 DEF MinutePasses
  <2> QED
    BY <1>0, <2>1, <2>2
<1>9. ApplierStep \/ HaStop \/ HaStart \/ Press \/ Sync \/ UNCHANGED runVars
        => UNCHANGED <<pc, deadline, oldEnd, now>>
  BY DEF ApplierStep, HaStop, HaStart, Press, Sync, runVars, reqVars, storeVars
<1>10. ServiceStep => UNCHANGED <<pc, deadline, oldEnd, now>>
  BY DEF ServiceStep, ExpireRuns, EndRuns, Republish, Crash, Restart, reqVars
<1> QED
  BY <1>1, <1>2, <1>3, <1>4, <1>5, <1>6, <1>7, <1>8, <1>9, <1>10 DEF RunNext, RequestStep

\* What is claimed for an active run is in force with its current end and no other.
LEMMA ArmedInForce ==
  ASSUME TypeOK, SetsInv, RevCovered, NEW r \in RunId, Armed(r)
  PROVE  inForce[ThePlug].ends = {<<r, endsAt[r]>>}
<1>1. claim \in published /\ claim[2] = inForce /\ inForce[ThePlug].rendered
  BY DEF Armed, SetsInv, OneEnd
<1>2. entity[r] = ThePlug
  BY PlugAssumption DEF TypeOK
<1> QED
  BY <1>1, <1>2 DEF Armed, RevCovered

\* An extension is confirmed only before the end it moves, and then the new end is
\* what Home Assistant runs, whatever else was started, failed or rolled back.
THEOREM ExtensionsInTime == RunSpec => ExtensionInTime
<1> DEFINE Confirms(q) == pc[q] = "moving" /\ pc'[q] = "done" /\ svc /\ Armed(mine[q])
           InTime(q) == now < oldEnd[q] /\ inForce[ThePlug].ends = {<<mine[q], endsAt[mine[q]]>>}
<1>1. RunInit => OldEndAhead
  BY DEF RunInit, OldEndAhead
<1>2. TypeOK /\ OwnRun /\ RequestTypes /\ OldEndAhead /\ [RunNext]_runVars => OldEndAhead'
  BY OldEndStep
<1>3. TypeOK /\ OwnRun /\ RequestTypes /\ OldEndAhead /\ SetsInv /\ RevCovered
        => \A q \in Req : Confirms(q) => InTime(q)
  <2> SUFFICES ASSUME TypeOK, OwnRun, RequestTypes, OldEndAhead, SetsInv, RevCovered,
                      NEW q \in Req, Confirms(q)
               PROVE  InTime(q)
    OBVIOUS
  <2>1. mine[q] \in RunId
    BY DEF OwnRun, Busy
  <2>2. now < oldEnd[q]
    BY DEF OldEndAhead, TypeOK, RequestTypes
  <2> QED
    BY <2>1, <2>2, ArmedInForce
<1>4. (TypeOK /\ OwnRun /\ RequestTypes /\ OldEndAhead /\ SetsInv /\ RevCovered)
        /\ [RunNext]_runVars
      => [\A q \in Req : pc[q] = "moving" /\ pc'[q] = "done" /\ svc /\ Armed(mine[q])
            => now < oldEnd[q] /\ inForce[ThePlug].ends = {<<mine[q], endsAt[mine[q]]>>}]_runVars
  BY <1>3
<1> QED
  BY <1>1, <1>2, <1>4, ThingsTyped, SetsAlways, RunRefinesStore, RevSeqSound, PTL
  DEF RunSpec, ExtensionInTime

-----------------------------------------------------------------------------
(* Ends that are kept.                                                     *)

\* No run is so short that it may be over before its start has armed it: with runs of
\* one minute and RUN_ARM_WAIT_S of one minute it may.
LongRuns == \A m \in Minutes : ArmWait + 1 < m * Minute

NoExtensions == "extend" \notin Kinds

\* The set holds an end of run r after t; so does all that may come in force.
Held(set, r, t) == \E e \in set[ThePlug].ends : e[1] = r /\ t < e[2]
HeldAll(r, t) == /\ Held(inForce, r, t) /\ Held(good, r, t)
                 /\ out.whole => Held(out.set, r, t)

\* Rows only go from active to closed, and ends only move later.
RowsMove ==
  \A r \in RunId : status[r] # "none" =>
    /\ status'[r] # "none" /\ (status'[r] = "active" => status[r] = "active")
    /\ endsAt'[r] >= endsAt[r]
    /\ NoExtensions => endsAt'[r] = endsAt[r]

LEMMA MoveOfRows == TypeOK /\ StoreMove => RowsMove
<1> USE DEF RowsMove
<1>1. ASSUME TypeOK, NEW r \in RunId, NEW m \in Minutes, StartRun(ThePlug, r, m) PROVE RowsMove
  BY <1>1 DEF StartRun, AddRun, Over, ActiveOn, TypeOK
<1>2. ASSUME TypeOK, NEW r \in RunId, NEW m \in Minutes, ExtendRun(r, m), "extend" \in Kinds
      PROVE  RowsMove
  <2>1. endsAt[r] + m * Minute \in Nat /\ endsAt[r] + m * Minute >= endsAt[r]
    BY <1>2, MinutesLater DEF TypeOK
  <2>2. CeilMinute(endsAt[r] + m * Minute) >= endsAt[r] + m * Minute
        /\ CeilMinute(endsAt[r] + m * Minute) \in Nat
    BY <2>1, CeilMinuteType
  <2>3. endsAt' = [endsAt EXCEPT ![r] = CeilMinute(endsAt[r] + m * Minute)] /\ status' = status
    BY <1>2 DEF ExtendRun, MoveEnd
  <2>4. CeilMinute(endsAt[r] + m * Minute) >= endsAt[r]
    BY <1>2, <2>1, <2>2 DEF TypeOK
  <2> QED
    BY <1>2, <2>3, <2>4 DEF TypeOK, NoExtensions
<1>3. ASSUME TypeOK, NEW r \in RunId, NEW how \in {"cancelled", "withdrawn"}, CancelRun(r, how)
      PROVE  RowsMove
  BY <1>3 DEF CancelRun, CloseRun, TypeOK
<1>4. ASSUME TypeOK, ExpireRuns PROVE RowsMove
  BY <1>4 DEF ExpireRuns, EndRuns, Late, TypeOK
<1>5. ASSUME TypeOK, Republish \/ Crash \/ Restart \/ Tick \/ UNCHANGED storeVars PROVE RowsMove
  BY <1>5 DEF Republish, Crash, Restart, Tick, storeVars, rows, TypeOK
<1> QED
  BY <1>1, <1>2, <1>3, <1>4, <1>5 DEF StoreMove

\* What is held of a run that stays active is held after every step.
LEMMA HeldStays ==
  ASSUME TypeOK, TypeOK', SetsInv, SetsInv', RowsMove, OutMoves, ArmMoves,
         NEW r \in RunId, NEW t \in Nat, status[r] # "none", status'[r] = "active",
         HeldAll(r, t), t < endsAt[r]
  PROVE  Held(inForce', r, t) /\ Held(good', r, t) /\ (out'.whole => Held(out'.set, r, t))
<1>1. CASE ApplierStep
  <2>1. out' = out
    BY <1>1 DEF ApplierStep, storeVars, pubVars
  <2>2. inForce' \in {inForce, good} \/ (out.whole /\ inForce' = out.set)
    BY <1>1 DEF ApplierStep, Arming!Claim, Arming!TakeBack
  <2>3. good' \in {inForce, good}
    BY <1>1 DEF ApplierStep
  <2> QED
    BY <2>1, <2>2, <2>3 DEF HeldAll
<1>2. CASE UNCHANGED armVars
  <2>1. Held(inForce', r, t) /\ Held(good', r, t)
    BY <1>2 DEF armVars, HeldAll
  <2>2. CASE PublishWhole
    <3>1. managed'[ThePlug] /\ entity'[r] = ThePlug /\ ThePlug \in Plug
      BY PlugAssumption DEF SetsInv, Managed, TypeOK
    <3>2. r \in ActiveOn(ThePlug)'
      BY <3>1 DEF ActiveOn
    <3>3. Rendered'[ThePlug].ends = {<<x, endsAt'[x]>> : x \in ActiveOn(ThePlug)'}
      BY <3>1 DEF Rendered, Render
    <3>4. <<r, endsAt'[r]>> \in out'.set[ThePlug].ends
      BY <2>2, <3>2, <3>3 DEF PublishWhole
    <3>5. t < endsAt'[r]
      BY DEF RowsMove, TypeOK
    <3> QED
      BY <2>1, <3>4, <3>5 DEF Held
  <2>3. CASE PublishTorn
    BY <2>1, <2>3 DEF PublishTorn, HeldAll, TypeOK
  <2>4. CASE UNCHANGED <<out, published>>
    BY <2>1, <2>4 DEF HeldAll
  <2> QED
    BY <2>2, <2>3, <2>4 DEF OutMoves
<1> QED
  BY <1>1, <1>2 DEF ArmMoves

\* What is claimed for a run is held: the claimed set is in force and the one to go
\* back to, and out/ carries no lower number.
LEMMA ArmedHeld ==
  ASSUME TypeOK, SetsInv, RevCovered, NEW r \in RunId, NEW t \in Nat, Armed(r), t < endsAt[r]
  PROVE  HeldAll(r, t)
<1>1. inForce[ThePlug].ends = {<<r, endsAt[r]>>} /\ good = inForce
  BY ArmedInForce DEF Armed, SetsInv
<1>2. Held(inForce, r, t) /\ Held(good, r, t)
  <2>1. Held(inForce, r, t)
    BY <1>1 DEF Held
  <2> QED
    BY <1>1, <2>1
<1>3. ASSUME out.whole PROVE Held(out.set, r, t)
  <2>1. <<out.seq, out.set>> \in published /\ claim \in published
    BY <1>3 DEF SetsInv, Armed
  <2>2. claim[1] <= out.seq /\ out.set[ThePlug].rendered
    BY <2>1 DEF SetsInv, OneEnd
  <2>3. claim[1] \in Nat /\ out.seq \in Nat /\ revSeq[r] \in Nat
    BY <2>1 DEF TypeOK
  <2>4. out.seq >= revSeq[r] /\ status[r] = "active"
    BY <2>2, <2>3 DEF Armed
  <2>5. entity[r] = ThePlug
    BY PlugAssumption DEF TypeOK
  <2>6. out.set[ThePlug].ends = {<<r, endsAt[r]>>}
    BY <2>1, <2>2, <2>4, <2>5 DEF RevCovered
  <2> QED
    BY <2>6 DEF Held
<1> QED
  BY <1>2, <1>3 DEF HeldAll

LEMMA HeldEarlier ==
  ASSUME TypeOK, SetsInv, NEW r \in RunId, NEW t \in Nat, NEW u \in Nat, u <= t, HeldAll(r, t)
  PROVE  HeldAll(r, u)
<1>1. ASSUME NEW set, WasPublished(set), Held(set, r, t) PROVE Held(set, r, u)
  <2>1. set[ThePlug].ends \subseteq RunId \X Nat
    BY <1>1, PlugAssumption DEF WasPublished, TypeOK, RenderedSet, Content
  <2> QED
    BY <1>1, <2>1 DEF Held
<1>2. out.whole => WasPublished(out.set)
  BY DEF SetsInv, WasPublished
<1> QED
  BY <1>1, <1>2 DEF HeldAll, SetsInv

\* Without extensions every end ever published is the end of its run as it stands.
ExactInv ==
  NoExtensions => \A pub \in published : \A e \in pub[2][ThePlug].ends :
                     status[e[1]] # "none" /\ e[2] = endsAt[e[1]]

LEMMA ExactStep ==
  ASSUME TypeOK, TypeOK', SetsInv', ExactInv, RowsMove, OutMoves
  PROVE  ExactInv'
<1> SUFFICES ASSUME NoExtensions, NEW pub \in published', NEW e \in pub[2][ThePlug].ends
             PROVE  status'[e[1]] # "none" /\ e[2] = endsAt'[e[1]]
  BY DEF ExactInv
<1>1. CASE pub \in published
  <2>1. e[1] \in RunId
    BY <1>1, PlugAssumption DEF TypeOK, RenderedSet, Content
  <2>2. status[e[1]] # "none" /\ e[2] = endsAt[e[1]]
    BY <1>1 DEF ExactInv
  <2> QED
    BY <2>1, <2>2 DEF RowsMove
<1>2. CASE pub \notin published
  <2>1. PublishWhole /\ pub = <<seq', Rendered'>>
    BY <1>2 DEF OutMoves, PublishWhole, PublishTorn
  <2>2. managed'[ThePlug] /\ ThePlug \in Plug
    BY PlugAssumption DEF SetsInv, Managed
  <2>3. Rendered'[ThePlug].ends = {<<x, endsAt'[x]>> : x \in ActiveOn(ThePlug)'}
    BY <2>2 DEF Rendered, Render
  <2> QED
    BY <2>1, <2>3 DEF ActiveOn
<1> QED
  BY <1>1, <1>2

-----------------------------------------------------------------------------
(* From the start to the end.                                              *)

\* A start that waits or switches on does so before the end of its run.
ArmingOk(q) == pc[q] = "arming" =>
  status[mine[q]] # "none" /\ now <= deadline[q] /\ deadline[q] + 1 < endsAt[mine[q]]
TurnOnOk(q) == pc[q] = "turn_on" =>
  /\ status[mine[q]] # "none" /\ now <= deadline[q] /\ deadline[q] < endsAt[mine[q]]
  /\ status[mine[q]] = "active" => HeldAll(mine[q], deadline[q])
OnOk == on /\ by # NoSet =>
  /\ status[by] # "none"
  /\ status[by] = "active" => changedAt < endsAt[by] /\ HeldAll(by, changedAt)

\* The inductive invariant of StartedHasEnd: what the end of the run will need is held
\* from the moment the start is armed.
StartInv == (\A q \in Req : ArmingOk(q) /\ TurnOnOk(q)) /\ OnOk

\* Everything a step of the plug rests on.
Base == /\ TypeOK /\ OwnRun /\ RequestTypes /\ PlugTypes /\ SetsInv /\ RevCovered /\ ExactInv
        /\ StartInv

Moves == RowsMove /\ OutMoves /\ ArmMoves

\* Request q stays where it is, in time.
Same(q) == /\ pc'[q] = pc[q] /\ mine'[q] = mine[q] /\ deadline'[q] = deadline[q]
           /\ pc[q] \in {"arming", "turn_on"} => now' <= deadline[q]
Elsewhere(q) == pc'[q] \notin {"arming", "turn_on"}

LEMMA SameStays ==
  ASSUME Base, TypeOK', SetsInv', Moves, NEW q \in Req, Same(q) \/ Elsewhere(q)
  PROVE  (ArmingOk(q) /\ TurnOnOk(q))'
<1> USE DEF Base, Moves
<1>1. CASE Elsewhere(q)
  BY <1>1 DEF Elsewhere, ArmingOk, TurnOnOk
<1>2. CASE pc'[q] \in {"arming", "turn_on"} /\ Same(q)
  <2> DEFINE r == mine[q]
             t == deadline[q]
  <2>1. r \in RunId /\ t \in Nat /\ status[r] # "none" /\ t < endsAt[r]
        /\ mine'[q] = r /\ deadline'[q] = t /\ now' <= t
    BY <1>2 DEF Same, OwnRun, Busy, RequestTypes, StartInv, ArmingOk, TurnOnOk, TypeOK
  <2>2. status'[r] # "none" /\ endsAt'[r] >= endsAt[r] /\ endsAt'[r] \in Nat /\ endsAt[r] \in Nat
        /\ (status'[r] = "active" => status[r] = "active")
    BY <2>1 DEF RowsMove, TypeOK
  <2>3. ArmingOk(q)'
    <3>1. ASSUME pc'[q] = "arming" PROVE t + 1 < endsAt[r]
      BY <1>2, <3>1 DEF Same, StartInv, ArmingOk
    <3> HIDE DEF r, t
    <3>2. ASSUME pc'[q] = "arming" PROVE t + 1 < endsAt'[r]
      BY <2>1, <2>2, <3>1, <3>2
    <3> QED
      BY <2>1, <2>2, <3>2 DEF ArmingOk
  <2>4. ASSUME pc'[q] = "turn_on", status'[r] = "active" PROVE HeldAll(r, t)
    BY <1>2, <2>2, <2>4 DEF Same, StartInv, TurnOnOk
  <2>5. ASSUME pc'[q] = "turn_on", status'[r] = "active"
        PROVE  Held(inForce', r, t) /\ Held(good', r, t) /\ (out'.whole => Held(out'.set, r, t))
    <3> HIDE DEF r, t
    <3> QED
      BY <2>1, <2>4, <2>5, HeldStays
  <2>6. TurnOnOk(q)'
    <3>1. t < endsAt'[r]
      BY <2>1, <2>2
    <3> HIDE DEF r, t
    <3> QED
      BY <2>1, <2>2, <2>5, <3>1 DEF TurnOnOk, HeldAll, Held
  <2> QED
    BY <2>3, <2>6
<1> QED
  BY <1>1, <1>2 DEF Elsewhere

\* The plug stays on for the same run, or is off, or on for none.
OnSame == (on /\ by' = by /\ changedAt' = changedAt) \/ by' = NoSet \/ ~on'

LEMMA OnStays ==
  ASSUME Base, TypeOK', SetsInv', Moves, OnSame
  PROVE  OnOk'
<1> USE DEF Base, Moves
<1>1. SUFFICES ASSUME on, by' = by, changedAt' = changedAt, by # NoSet PROVE OnOk'
  BY DEF OnSame, OnOk
<1>2. by \in RunId /\ changedAt \in Nat /\ status[by] # "none" /\ endsAt[by] \in Nat
  BY <1>1 DEF PlugTypes, StartInv, OnOk, TypeOK
<1>3. status'[by] # "none" /\ endsAt'[by] >= endsAt[by] /\ endsAt'[by] \in Nat
      /\ (status'[by] = "active" => status[by] = "active")
  BY <1>2 DEF RowsMove, TypeOK
<1>4. ASSUME status'[by] = "active"
      PROVE  /\ changedAt < endsAt'[by] /\ Held(inForce', by, changedAt)
             /\ Held(good', by, changedAt) /\ (out'.whole => Held(out'.set, by, changedAt))
  <2>1. changedAt < endsAt[by] /\ HeldAll(by, changedAt)
    BY <1>1, <1>3, <1>4 DEF StartInv, OnOk
  <2>2. changedAt < endsAt'[by]
    BY <1>2, <1>3, <2>1
  <2> QED
    BY <1>2, <1>4, <2>1, <2>2, HeldStays
<1> QED
  BY <1>1, <1>3, <1>4 DEF OnOk, HeldAll, Held

\* Each step, case by case. Home Assistant's restart (<1>16) moves changedAt: it leaves
\* the plug on only if an end lies ahead, and without extensions that is the end of
\* the run in every set that may come in force.
LEMMA StartInvStep ==
  ASSUME LongRuns, ~HaMayStop \/ NoExtensions, Base, TypeOK', SetsInv', Moves, RunNext
  PROVE  StartInv'
<1> USE DEF Base, Goto, SwitchOn, SwitchOff
<1>0. /\ now \in Nat /\ pc \in [Req -> Steps] /\ mine \in [Req -> RunId \cup {NoSet}]
      /\ deadline \in [Req -> Nat] /\ endsAt \in [RunId -> Nat]
  BY DEF TypeOK, OwnRun, RequestTypes
<1>1. ASSUME NEW q \in Req, pc[q] \in {"arming", "turn_on"} PROVE now <= deadline[q]
  BY <1>1 DEF StartInv, ArmingOk, TurnOnOk
<1>2. ASSUME \A q \in Req : Same(q) \/ Elsewhere(q), OnSame PROVE StartInv'
  BY <1>2, SameStays, OnStays DEF StartInv
<1>3. ASSUME UNCHANGED <<reqVars, plugVars, now>> PROVE StartInv'
  <2>1. \A q \in Req : Same(q)
    BY <1>1, <1>3 DEF Same, reqVars
  <2>2. OnSame
    BY <1>3 DEF OnSame, plugVars
  <2> QED
    BY <1>2, <2>1, <2>2
<1>4. ASSUME NEW q \in Req, NEW r \in RunId, NEW m \in Minutes, StartPost(q, r, m) PROVE StartInv'
  <2>1. OnSame
    BY <1>4 DEF StartPost, OnSame, plugVars
  <2>2. now' = now /\ status'[r] = "active" /\ endsAt'[r] = CeilMinute(now + m * Minute)
    BY <1>0, <1>4 DEF StartPost, StartRun, AddRun, TypeOK
  <2>3. \A x \in Req \ {q} : Same(x)
    BY <1>0, <1>1, <1>4, <2>2 DEF StartPost, Same
  <2>4. (ArmingOk(q) /\ TurnOnOk(q))'
    <3>1. pc'[q] \in {"arming", "failed"} /\ mine'[q] = r /\ deadline'[q] = now + ArmWait
      BY <1>0, <1>4 DEF StartPost
    <3>2. now + m * Minute \in Nat /\ m * Minute \in Nat /\ ArmWait \in Nat
      BY <1>0, MinutesLater, TimesAssumption, GatewayAssumption
    <3>3. CeilMinute(now + m * Minute) >= now + m * Minute /\ CeilMinute(now + m * Minute) \in Nat
      BY <3>2, CeilMinuteType
    <3>4. ArmWait + 1 < m * Minute
      BY DEF LongRuns
    <3>5. now + ArmWait + 1 < endsAt'[r] /\ now' <= now + ArmWait
      BY <1>0, <2>2, <3>2, <3>3, <3>4
    <3> QED
      BY <2>2, <3>1, <3>5 DEF ArmingOk, TurnOnOk
  <2> QED
    BY <2>1, <2>3, <2>4, SameStays, OnStays DEF StartInv
<1>5. ASSUME NEW q \in Req, Poll(q) PROVE StartInv'
  <2>1. OnSame /\ now' = now /\ UNCHANGED <<storeVars, armVars, mine>>
    BY <1>5 DEF Poll, OnSame, plugVars, storeVars
  <2>2. \A x \in Req \ {q} : Same(x)
    BY <1>0, <1>1, <1>5, <2>1 DEF Poll, Same
  <2>3. CASE svc /\ Armed(mine[q]) /\ Goto(q, "turn_on")
    <3> DEFINE r == mine[q]
    <3>1. pc[q] = "arming" /\ pc'[q] = "turn_on" /\ mine'[q] = r /\ deadline'[q] = now + 1
      BY <1>0, <1>5, <2>1, <2>3 DEF Poll
    <3>2. r \in RunId /\ status[r] # "none" /\ now + 1 < endsAt[r] /\ now + 1 \in Nat
      BY <1>0, <3>1 DEF OwnRun, Busy, StartInv, ArmingOk
    <3>3. HeldAll(r, now + 1)
      BY <2>3, <3>2, ArmedHeld
    <3>4. UNCHANGED <<status, endsAt, inForce, good, out>>
      BY <2>1 DEF storeVars, rows, armVars, pubVars
    <3>5. (ArmingOk(q) /\ TurnOnOk(q))'
      <4> HIDE DEF r
      <4> QED
        BY <1>0, <2>1, <3>1, <3>2, <3>3, <3>4 DEF ArmingOk, TurnOnOk, HeldAll, Held
    <3> QED
      BY <2>1, <2>2, <3>5, SameStays, OnStays DEF StartInv
  <2>4. CASE pc'[q] # "turn_on"
    <3>1. Elsewhere(q)
      BY <1>0, <1>5, <2>4 DEF Poll, Elsewhere
    <3> QED
      BY <1>2, <2>1, <2>2, <3>1
  <2> QED
    BY <1>0, <1>5, <2>3, <2>4 DEF Poll
<1>6. ASSUME NEW q \in Req, TurnOn(q) PROVE StartInv'
  <2> DEFINE r == mine[q]
             t == deadline[q]
  <2>1. now' = now /\ UNCHANGED <<status, endsAt, inForce, good, out, mine>> /\ Elsewhere(q)
    BY <1>0, <1>6 DEF TurnOn, storeVars, rows, armVars, pubVars, Elsewhere
  <2>2. \A x \in Req \ {q} : Same(x)
    BY <1>0, <1>1, <1>6, <2>1 DEF TurnOn, Same
  <2>3. r \in RunId /\ t \in Nat /\ now <= t /\ t < endsAt[r] /\ status[r] # "none"
        /\ (status[r] = "active" => HeldAll(r, t))
    BY <1>0, <1>6 DEF TurnOn, OwnRun, Busy, StartInv, TurnOnOk
  <2>4. CASE UNCHANGED plugVars
    BY <1>2, <2>1, <2>2, <2>4 DEF OnSame, plugVars
  <2>5. CASE by' = r /\ changedAt' = IF on THEN changedAt ELSE now
    <3>1. changedAt' \in Nat /\ changedAt' <= now
      BY <1>0, <2>5 DEF PlugTypes
    <3> HIDE DEF r, t
    <3>2. changedAt' < endsAt[r] /\ changedAt' <= t
      BY <1>0, <2>3, <3>1
    <3>3. status[r] = "active" => HeldAll(r, changedAt')
      BY <2>3, <3>1, <3>2, HeldEarlier
    <3>4. OnOk'
      BY <2>1, <2>3, <2>5, <3>2, <3>3 DEF OnOk, HeldAll, Held
    <3> QED
      BY <2>1, <2>2, <3>4, SameStays DEF StartInv
  <2> QED
    BY <1>6, <2>4, <2>5 DEF TurnOn
<1>7. ASSUME NEW q \in Req, TurnOff(q) PROVE StartInv'
  <2>1. now' = now /\ Elsewhere(q) /\ OnSame
    BY <1>0, <1>7 DEF TurnOff, storeVars, Elsewhere, OnSame, plugVars
  <2>2. \A x \in Req \ {q} : Same(x)
    BY <1>0, <1>1, <1>7, <2>1 DEF TurnOff, Same
  <2> QED
    BY <1>2, <2>1, <2>2
<1>8. ASSUME NEW q \in Req, ReadOff(q) \/ EndBegin(q) \/ OffBegin(q) \/ ExtendPoll(q) PROVE StartInv'
  <2>1. now' = now /\ Elsewhere(q) /\ OnSame
    BY <1>0, <1>8 DEF ReadOff, EndBegin, OffBegin, ExtendPoll, storeVars, Elsewhere, OnSame, plugVars
  <2>2. \A x \in Req \ {q} : Same(x)
    BY <1>0, <1>1, <1>8, <2>1 DEF ReadOff, EndBegin, OffBegin, ExtendPoll, Same
  <2> QED
    BY <1>2, <2>1, <2>2
<1>9. ASSUME NEW q \in Req, Close(q) PROVE StartInv'
  <2>1. now' = now /\ Elsewhere(q) /\ OnSame
    BY <1>0, <1>9 DEF Close, storeVars, Elsewhere, OnSame, plugVars
  <2>2. \A x \in Req \ {q} : Same(x)
    BY <1>0, <1>1, <1>9, <2>1 DEF Close, Same
  <2> QED
    BY <1>2, <2>1, <2>2
<1>10. ASSUME NEW q \in Req, Withdraw(q) \/ Delete(q) PROVE StartInv'
  <2>1. now' = now /\ Elsewhere(q) /\ OnSame
    BY <1>0, <1>10 DEF Withdraw, Delete, CancelRun, CloseRun, storeVars, Elsewhere, OnSame, plugVars
  <2>2. \A x \in Req \ {q} : Same(x)
    BY <1>0, <1>1, <1>10, <2>1 DEF Withdraw, Delete, Same
  <2> QED
    BY <1>2, <2>1, <2>2
<1>11. ASSUME NEW q \in Req, NEW r \in RunId, NEW m \in Minutes, ExtendPost(q, r, m) PROVE StartInv'
  <2>1. now' = now /\ Elsewhere(q) /\ OnSame
    BY <1>0, <1>11 DEF ExtendPost, ExtendRun, MoveEnd, Elsewhere, OnSame, plugVars
  <2>2. \A x \in Req \ {q} : Same(x)
    BY <1>0, <1>1, <1>11, <2>1 DEF ExtendPost, Same
  <2> QED
    BY <1>2, <2>1, <2>2
<1>12. ASSUME ApplierStep \/ Sync PROVE StartInv'
  BY <1>3, <1>12 DEF ApplierStep, Sync, storeVars
<1>13. ASSUME ServiceStep PROVE StartInv'
  <2>1. UNCHANGED <<reqVars, plugVars, now>>
    BY <1>13 DEF ServiceStep, ExpireRuns, EndRuns, Republish, Crash, Restart
  <2> QED
    BY <1>3, <2>1
<1>14. ASSUME MinutePasses PROVE StartInv'
  <2>1. now' = now + 1 /\ UNCHANGED reqVars /\ OnSame
    BY <1>14 DEF MinutePasses, Tick, OnSame, plugVars
  <2>2. \A q \in Req : pc[q] \in {"arming", "turn_on"} => now < deadline[q]
    BY <1>14 DEF MinutePasses
  <2>3. \A q \in Req : Same(q)
    BY <1>0, <2>1, <2>2 DEF Same, reqVars
  <2> QED
    BY <1>2, <2>1, <2>3
<1>15. ASSUME HaStop \/ Press PROVE StartInv'
  <2>1. UNCHANGED <<reqVars, now>> /\ OnSame
    BY <1>15 DEF HaStop, Press, storeVars, OnSame
  <2>2. \A q \in Req : Same(q)
    BY <1>1, <2>1 DEF Same, reqVars
  <2> QED
    BY <1>2, <2>1, <2>2
<1>16. ASSUME HaStart PROVE StartInv'
  <2>1. UNCHANGED <<reqVars, storeVars, armVars>> /\ now' = now /\ changedAt' = now /\ NoExtensions
    BY <1>16 DEF HaStart, storeVars, PlugTypes
  <2>2. \A q \in Req : Same(q)
    BY <1>1, <2>1 DEF Same, reqVars
  <2>3. UNCHANGED <<status, endsAt, inForce, good, out>>
    BY <2>1 DEF storeVars, rows, armVars, pubVars
  <2>4. CASE on' /\ by' # NoSet
    <3>1. on /\ by' = by /\ \E e \in inForce[ThePlug].ends : now < e[2]
      BY <1>16, <2>4 DEF HaStart
    <3>2. by \in RunId /\ status[by] # "none"
      BY <2>4, <3>1 DEF PlugTypes, StartInv, OnOk
    <3>3. ASSUME status[by] = "active" PROVE now < endsAt[by] /\ HeldAll(by, now)
      <4>1. HeldAll(by, changedAt)
        BY <2>4, <3>1, <3>3 DEF StartInv, OnOk
      <4>2. ASSUME NEW set, WasPublished(set), Held(set, by, changedAt)
            PROVE  <<by, endsAt[by]>> \in set[ThePlug].ends
                     /\ \A e \in set[ThePlug].ends : e = <<by, endsAt[by]>>
        <5>1. PICK e \in set[ThePlug].ends : e[1] = by
          BY <4>2 DEF Held
        <5>2. e[2] = endsAt[by] /\ e \in RunId \X Nat
          BY <2>1, <4>2, <5>1, PlugAssumption DEF ExactInv, WasPublished, TypeOK, RenderedSet, Content
        <5>3. e = <<by, endsAt[by]>>
          BY <5>1, <5>2
        <5> QED
          BY <4>2, <5>1, <5>3 DEF WasPublished, SetsInv, OneEnd
      <4>3. <<by, endsAt[by]>>[1] = by /\ <<by, endsAt[by]>>[2] = endsAt[by]
        OBVIOUS
      <4>4. now < endsAt[by]
        BY <3>1, <4>1, <4>2, <4>3 DEF HeldAll, SetsInv
      <4>5. ASSUME NEW set, WasPublished(set), Held(set, by, changedAt) PROVE Held(set, by, now)
        BY <4>2, <4>3, <4>4, <4>5 DEF Held
      <4>6. out.whole => WasPublished(out.set)
        BY DEF SetsInv, WasPublished
      <4> QED
        BY <4>1, <4>4, <4>5, <4>6 DEF HeldAll, SetsInv
    <3>4. OnOk'
      BY <2>1, <2>3, <3>1, <3>2, <3>3 DEF OnOk, HeldAll, Held
    <3> QED
      BY <2>2, <3>4, SameStays DEF StartInv
  <2>5. CASE ~(on' /\ by' # NoSet)
    BY <1>2, <2>2, <2>5 DEF OnSame
  <2> QED
    BY <2>4, <2>5
<1> QED
  BY <1>4, <1>5, <1>6, <1>7, <1>8, <1>9, <1>10, <1>11, <1>12, <1>13, <1>14, <1>15, <1>16
  DEF RunNext, RequestStep

LEMMA SafeInit == RunInit /\ SetsInv => ExactInv /\ StartInv
<1> SUFFICES ASSUME RunInit, SetsInv PROVE ExactInv /\ StartInv
  OBVIOUS
<1>1. published = {<<1, Rendered>>} /\ status = [x \in RunId |-> "none"] /\ managed[ThePlug]
  BY DEF RunInit, StoreInit, SetsInv, Managed
<1>2. Rendered[ThePlug].ends = {}
  <2>1. ActiveOn(ThePlug) = {}
    BY <1>1 DEF ActiveOn
  <2> QED
    BY <1>1, <2>1, PlugAssumption DEF Rendered, Render
<1>3. ExactInv
  BY <1>1, <1>2 DEF ExactInv
<1>4. StartInv
  BY DEF RunInit, StartInv, ArmingOk, TurnOnOk, OnOk
<1> QED
  BY <1>3, <1>4

LEMMA SafeAlways ==
  ASSUME LongRuns, ~HaMayStop \/ NoExtensions
  PROVE  RunSpec => []Base
<1>1. Base /\ TypeOK' /\ OwnRun' /\ RequestTypes' /\ PlugTypes' /\ SetsInv' /\ RevCovered'
        /\ [RunNext]_runVars => Base'
  <2> SUFFICES ASSUME Base, TypeOK', OwnRun', RequestTypes', PlugTypes', SetsInv', RevCovered',
                      [RunNext]_runVars
               PROVE  ExactInv' /\ StartInv'
    BY DEF Base
  <2>1. Moves
    BY MovesOfStore, MoveOfOut, MoveOfArms, MoveOfRows DEF Moves, Base
  <2>2. ExactInv'
    BY <2>1, ExactStep DEF Base, Moves
  <2>3. CASE RunNext
    BY <2>1, <2>2, <2>3, StartInvStep
  <2>4. CASE UNCHANGED runVars
    <3>1. /\ UNCHANGED <<pc, mine, deadline, now, status, endsAt, out, on, by, changedAt>>
          /\ UNCHANGED <<inForce, good>>
      BY <2>4 DEF runVars, reqVars, plugVars, storeVars, rows, pubVars, armVars
    <3> QED
      BY <2>2, <3>1 DEF Base, StartInv, ArmingOk, TurnOnOk, OnOk, HeldAll, Held
  <2> QED
    BY <2>2, <2>3, <2>4
<1>2. TypeOK /\ OwnRun /\ RequestTypes /\ PlugTypes /\ SetsInv /\ RevCovered /\ ExactInv /\ StartInv
        => Base
  BY DEF Base
<1> QED
  BY <1>1, <1>2, SafeInit, ThingsTyped, SetsAlways, RunRefinesStore, RevSeqSound, PTL DEF RunSpec

\* Home Assistant holds an end for every run the plug is on for, from the moment the
\* plug is switched on, through every later publication, roll-back, restart of either
\* program and other request - as long as an end that is moved need not survive a
\* stop of Home Assistant, and no run is shorter than the wait for it.
THEOREM StartedAlwaysHasEnd ==
  ASSUME LongRuns, ~HaMayStop \/ NoExtensions
  PROVE  RunSpec => []StartedHasEnd
<1>1. Base => StartedHasEnd
  BY DEF Base, StartInv, OnOk, HeldAll, Held, StartedHasEnd
<1> QED
  BY <1>1, SafeAlways, PTL

-----------------------------------------------------------------------------
(* The end.                                                                *)

\* Ends are full minutes, in which the automations run.
Aligned == \A r \in RunId : endsAt[r] % Minute = 0

LEMMA AlignedStep == TypeOK /\ Aligned /\ StoreMove => Aligned'
<1> USE DEF Aligned
<1>1. ASSUME TypeOK, Aligned, NEW r \in RunId, NEW m \in Minutes, StartRun(ThePlug, r, m) PROVE Aligned'
  <2>1. CeilMinute(now + m * Minute) % Minute = 0
    BY <1>1, MinutesLater, CeilIsMinute DEF TypeOK
  <2>2. endsAt' = [endsAt EXCEPT ![r] = CeilMinute(now + m * Minute)]
    BY <1>1 DEF StartRun, AddRun
  <2> QED
    BY <1>1, <2>1, <2>2 DEF TypeOK
<1>2. ASSUME TypeOK, Aligned, NEW r \in RunId, NEW m \in Minutes, ExtendRun(r, m) PROVE Aligned'
  <2>1. CeilMinute(endsAt[r] + m * Minute) % Minute = 0
    BY <1>2, MinutesLater, CeilIsMinute DEF TypeOK
  <2>2. endsAt' = [endsAt EXCEPT ![r] = CeilMinute(endsAt[r] + m * Minute)]
    BY <1>2 DEF ExtendRun, MoveEnd
  <2> QED
    BY <1>2, <2>1, <2>2 DEF TypeOK
<1>3. ASSUME Aligned, NEW r \in RunId, NEW how \in {"cancelled", "withdrawn"}, CancelRun(r, how)
      PROVE  Aligned'
  BY <1>3 DEF CancelRun, CloseRun
<1>4. ASSUME Aligned, ExpireRuns \/ Republish \/ Crash \/ Restart \/ Tick \/ UNCHANGED storeVars
      PROVE  Aligned'
  BY <1>4 DEF ExpireRuns, EndRuns, Republish, Crash, Restart, Tick, storeVars, rows
<1> QED
  BY <1>1, <1>2, <1>3, <1>4 DEF StoreMove

LEMMA OffByEndStep ==
  ASSUME LongRuns, NoExtensions, Base, Aligned, OffByEnd, RowsMove, RunNext
  PROVE  OffByEnd'
<1> USE DEF Base, SwitchOn, SwitchOff
<1>0. now \in Nat /\ endsAt \in [RunId -> Nat]
  BY DEF TypeOK
<1>1. ASSUME now' = now, on' /\ haUp' => on /\ haUp, by' \in {by, NoSet} PROVE OffByEnd'
  <2>1. by \in RunId \/ by = NoSet
    BY DEF PlugTypes
  <2>2. ASSUME haUp', on', by' # NoSet, status'[by'] = "active" PROVE now' < endsAt'[by']
    <3>1. haUp /\ on /\ by' = by /\ by \in RunId
      BY <1>1, <2>1, <2>2
    <3>2. status[by] # "none"
      BY <2>2, <3>1 DEF StartInv, OnOk
    <3>3. status[by] = "active" /\ endsAt'[by] = endsAt[by]
      BY <2>2, <3>1, <3>2 DEF RowsMove
    <3> QED
      BY <1>1, <2>2, <3>1, <3>3 DEF OffByEnd
  <2> QED
    BY <2>2 DEF OffByEnd
<1>2. ASSUME UNCHANGED <<plugVars, now>> PROVE OffByEnd'
  BY <1>1, <1>2 DEF plugVars
<1>3. ASSUME NEW q \in Req, TurnOn(q) PROVE OffByEnd'
  <2>1. now' = now /\ UNCHANGED <<status, endsAt>>
    BY <1>3 DEF TurnOn, storeVars, rows
  <2>2. now < endsAt[mine[q]]
    <3>1. mine[q] \in RunId /\ now <= deadline[q] /\ deadline[q] < endsAt[mine[q]] /\ deadline[q] \in Nat
      BY <1>3 DEF TurnOn, OwnRun, Busy, StartInv, TurnOnOk, RequestTypes
    <3> QED
      BY <1>0, <3>1
  <2>3. UNCHANGED plugVars \/ by' = mine[q]
    BY <1>3 DEF TurnOn
  <2> QED
    BY <1>2, <2>1, <2>2, <2>3 DEF OffByEnd
<1>4. ASSUME NEW q \in Req, TurnOff(q) PROVE OffByEnd'
  <2>1. now' = now /\ (UNCHANGED plugVars \/ on' = FALSE)
    BY <1>4 DEF TurnOff, storeVars
  <2> QED
    BY <1>2, <2>1 DEF OffByEnd
<1>5. ASSUME NEW q \in Req, NEW r \in RunId, NEW m \in Minutes,
             StartPost(q, r, m) \/ ExtendPost(q, r, m)
      PROVE  UNCHANGED <<plugVars, now>>
  BY <1>5 DEF StartPost, ExtendPost, StartRun, AddRun, ExtendRun, MoveEnd
<1>6. ASSUME NEW q \in Req, Withdraw(q) \/ Delete(q) PROVE UNCHANGED <<plugVars, now>>
  BY <1>6 DEF Withdraw, Delete, CancelRun, CloseRun, storeVars
<1>7. ASSUME NEW q \in Req,
             Poll(q) \/ ExtendPoll(q) \/ EndBegin(q) \/ OffBegin(q) \/ Close(q) \/ ReadOff(q)
      PROVE  UNCHANGED <<plugVars, now>>
  BY <1>7 DEF Poll, ExtendPoll, EndBegin, OffBegin, Close, ReadOff, storeVars
<1>8. ApplierStep \/ Sync => UNCHANGED <<plugVars, now>>
  BY DEF ApplierStep, Sync, storeVars
<1>9. ServiceStep => UNCHANGED <<plugVars, now>>
  BY DEF ServiceStep, ExpireRuns, EndRuns, Republish, Crash, Restart
<1>10. ASSUME MinutePasses PROVE OffByEnd'
  <2>1. now' = now + 1 /\ UNCHANGED <<status, endsAt>>
    BY <1>10 DEF MinutePasses, Tick, rows
  <2>2. SUFFICES ASSUME haUp', on', by' # NoSet, status'[by'] = "active", ~(now' < endsAt'[by'])
                 PROVE  FALSE
    BY DEF OffByEnd
  <2>3. UNCHANGED plugVars /\ ~(haUp /\ on /\ now' % Minute = 0 /\ RunEnds(now'))
    BY <1>10, <2>2 DEF MinutePasses
  <2>4. haUp /\ on /\ by \in RunId /\ status[by] = "active"
    BY <2>1, <2>2, <2>3 DEF plugVars, PlugTypes
  <2>5. now < endsAt[by] /\ endsAt[by] <= now + 1
    BY <1>0, <2>1, <2>2, <2>3, <2>4 DEF OffByEnd, plugVars
  <2>6. now' = endsAt[by] /\ now' % Minute = 0
    BY <1>0, <2>1, <2>4, <2>5 DEF Aligned
  <2>7. changedAt < endsAt[by] /\ Held(inForce, by, changedAt)
    BY <2>2, <2>3, <2>4 DEF StartInv, OnOk, HeldAll, plugVars
  <2>8. PICK e \in inForce[ThePlug].ends : e[1] = by
    BY <2>7 DEF Held
  <2>9. e[2] = endsAt[by]
    BY <2>8 DEF SetsInv, WasPublished, ExactInv
  <2>10. RunEnds(now')
    <3>1. e[2] <= now' /\ now' < e[2] + Grace /\ changedAt < e[2]
      BY <1>0, <2>4, <2>6, <2>7, <2>9, MarginAssumption, TimesAssumption
    <3> QED
      BY <2>8, <3>1 DEF RunEnds
  <2> QED
    BY <2>3, <2>4, <2>6, <2>10
<1>11. ASSUME HaStop \/ Press PROVE OffByEnd'
  BY <1>11 DEF HaStop, Press, OffByEnd
<1>12. ASSUME HaStart PROVE OffByEnd'
  <2>1. now' = now /\ UNCHANGED <<status, endsAt>>
    BY <1>12 DEF HaStart, storeVars, rows
  <2>2. SUFFICES ASSUME on', by' # NoSet, status'[by'] = "active" PROVE now' < endsAt'[by']
    BY DEF OffByEnd
  <2>3. on /\ by' = by /\ \E e \in inForce[ThePlug].ends : now < e[2]
    BY <1>12, <2>2 DEF HaStart
  <2>4. Held(inForce, by, changedAt)
    BY <2>1, <2>2, <2>3 DEF StartInv, OnOk, HeldAll
  <2>5. PICK e \in inForce[ThePlug].ends : e[1] = by
    BY <2>4 DEF Held
  <2>6. e[2] = endsAt[by] /\ \A f \in inForce[ThePlug].ends : f = e
    BY <2>5 DEF SetsInv, WasPublished, ExactInv, OneEnd
  <2> QED
    BY <2>1, <2>3, <2>6
<1> QED
  BY <1>2, <1>3, <1>4, <1>5, <1>6, <1>7, <1>8, <1>9, <1>10, <1>11, <1>12 DEF RunNext, RequestStep

\* The plug is off when the run's end, as it stands in the service, is reached, and
\* never on for a minute more than max_on_minutes, whatever the requests, the faults
\* of the service and the stops of Home Assistant do to a run that is not extended.
\* (An extension whose pass fails after the old end falls back on the fail-safe.)
THEOREM RunAlwaysBounded ==
  ASSUME LongRuns, NoExtensions
  PROVE  RunSpec => []RunIsBounded
<1>1. RunInit => Aligned /\ OffByEnd
  <2>1. (0 * Minute) % Minute = 0 /\ 0 * Minute = 0
    BY WholeMinutes, TimesAssumption
  <2> QED
    BY <2>1 DEF RunInit, StoreInit, Aligned, OffByEnd
<1>2. Base /\ Aligned /\ OffByEnd /\ [RunNext]_runVars => Aligned' /\ OffByEnd'
  <2> SUFFICES ASSUME Base, Aligned, OffByEnd, [RunNext]_runVars PROVE Aligned' /\ OffByEnd'
    OBVIOUS
  <2>1. StoreMove
    BY MovesOfStore DEF Base
  <2>2. Aligned' /\ RowsMove
    BY <2>1, AlignedStep, MoveOfRows DEF Base
  <2>3. CASE UNCHANGED runVars
    BY <2>2, <2>3 DEF runVars, plugVars, storeVars, rows, OffByEnd
  <2>4. CASE RunNext
    BY <2>2, <2>4, OffByEndStep
  <2> QED
    BY <2>2, <2>3, <2>4
<1>3. TypesOK /\ OffByEnd /\ FailSafeBound => RunIsBounded
  BY DEF RunIsBounded
<1>4. RunSpec => []Base
  BY SafeAlways
<1> QED
  BY <1>1, <1>2, <1>3, <1>4, RunTypesCorrect, FailSafeHolds, PTL DEF RunSpec
=============================================================================
