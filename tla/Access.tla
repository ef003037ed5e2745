------------------------------- MODULE Access -------------------------------
(***************************************************************************)
(* Who may use the gateway (portal/gateway/gw/people.py, db.py, auth.py    *)
(* and the handlers of api.py that call them): people, phones with device  *)
(* tokens and update keys, web and app sessions, enrolment codes.          *)
(*                                                                         *)
(* The gateway runs on one event loop: a handler is not interrupted by     *)
(* another one unless it waits for the body (people_create and             *)
(* people_patch authenticate first and act later). gwctl is another        *)
(* process on the same database and may write between what a handler has   *)
(* read and what it writes. A sign-in, an enrolment, the opening of an app *)
(* session and a patch, of the gateway or of gwctl, are therefore two      *)
(* steps; what the other handlers write is the same whatever gwctl did     *)
(* after their checks. A tick is longer than a handler.                    *)
(***************************************************************************)
EXTENDS Integers, Sequences, FiniteSets

CONSTANTS
  Person,      \* ids of people
  FirstAdmin,  \* the admin bootstrap creates
  NoPerson,      \* no row in the table people
  MaxPerPerson, MaxTotal, \* MAX_PHONES_PER_PERSON, MAX_PHONES_TOTAL
  Sliding, Idle, AbsTtl, EnrolTtl, \* PHONE_SLIDING_S, SESSION_IDLE_S, SESSION_ABS_S, ENROL_TTL_S
  LastTick,    \* bound on the clock
  MaxSent,     \* bound on requests that wait for their body
  MaxDeeds     \* bound on changes

Roles == {"admin", "household"}
Patches == \* the fields of a patch that matter to others, one at a time
  {[field |-> "role", value |-> r] : r \in Roles}
    \cup {[field |-> f, value |-> v] : f \in {"active", "web"}, v \in BOOLEAN}

ASSUME AccessNumbers ==
  /\ {MaxPerPerson, MaxTotal, Sliding, Idle, AbsTtl, EnrolTtl, LastTick, MaxSent, MaxDeeds} \subseteq Nat
  /\ FirstAdmin \in Person /\ NoPerson \notin [role : Roles, active : BOOLEAN, web : BOOLEAN]

VARIABLES
  db,      \* tables: people, and phones, sessions and codes in the order of their creation
  clockA,  \* the time
  sent,    \* requests admitted as an admin's that wait for their body
  ctlJob,  \* a patch of gwctl between its checks and its transaction: the row it will write
  overlapped, \* the people were changed while a patch of the other process was between the two
  task,    \* the handler of the gateway that has checked and not yet written
  brink,   \* phones used at the very instant of their expiry
  deeds    \* changes so far

accessVars == <<db, clockA, sent, ctlJob, overlapped, task, brink, deeds>>

PhoneId(d) == DOMAIN d.phones
SessionId(d) == DOMAIN d.sessions
CodeId(d) == DOMAIN d.codes
IsPerson(d, p) == d.people[p] # NoPerson
Active(d, p) == IsPerson(d, p) /\ d.people[p].active

---------------------------------------------------------------------------
(* Credentials *)

\* update_key_principal asks the same, and slides nothing.
\* phone_principal, phone_principal_valid, _phone_ok
PhoneGood(d, f) ==
  ~d.phones[f].revoked /\ d.phones[f].expires >= clockA /\ Active(d, d.phones[f].owner)

Timely(s) == s.kept /\ clockA <= s.ends /\ clockA <= s.last + Idle

\* session_principal: what a request is held to; phone 0 is a web session.
SessionGood(d, i) ==
  LET s == d.sessions[i]
  IN  /\ Timely(s)
      /\ IF s.phone = 0 THEN Active(d, s.owner) /\ d.people[s.owner].web ELSE PhoneGood(d, s.phone)

\* session_principal_raw_valid: what an open stream is held to.
StreamGood(d, i) ==
  Timely(d.sessions[i]) /\ (d.sessions[i].phone # 0 => PhoneGood(d, d.sessions[i].phone))

\* A use slides the expiry of a phone, and the idle clock of a session (written at most once
\* a minute, which is less than a tick).
UsePhone(d, f) == [d EXCEPT !.phones[f].expires = clockA + Sliding]

UseSession(d, i) == [d EXCEPT !.sessions[i].last = clockA]
Drop(d, S) ==
  [d EXCEPT !.sessions = [i \in DOMAIN @ |-> IF i \in S THEN [@[i] EXCEPT !.kept = FALSE] ELSE @[i]]]

\* The sessions of a person, of a phone.
SessionsOf(d, p) == {i \in SessionId(d) : d.sessions[i].owner = p}
SessionsBy(d, f) == {i \in SessionId(d) : d.sessions[i].phone = f}

\* An admin's own web session (need, need_web): what may change the people.
AdminSession(d, i) ==
  SessionGood(d, i) /\ d.sessions[i].phone = 0 /\ d.people[d.sessions[i].owner].role = "admin"

\* _active_phones
Counted(d, P) == {f \in PhoneId(d) :
  d.phones[f].owner \in P /\ ~d.phones[f].revoked /\ d.phones[f].expires > clockA}

RoomFor(d, p) == Cardinality(Counted(d, {p})) < MaxPerPerson /\ Cardinality(Counted(d, Person)) < MaxTotal

\* `crossed` is no column: gwctl shut the person out after the check that admitted this row.
NewPhone(p, from) ==
  [owner |-> p, expires |-> clockA + Sliding, revoked |-> FALSE, from |-> from, crossed |-> task.crossed]
NewSession(p, f, ends) ==
  [owner |-> p, phone |-> f, last |-> clockA, ends |-> ends, kept |-> TRUE, crossed |-> task.crossed]

---------------------------------------------------------------------------
(* What the operations of People do to the tables *)

Added(d, p, role) ==
  [d EXCEPT !.people[p] = [role |-> role, active |-> TRUE, web |-> role = "admin"]]

\* The row a patch writes: all of it, from the row it read.
Patched(row, ch) ==
  CASE ch.field = "role"   -> [row EXCEPT !.role = ch.value]
    [] ch.field = "active" -> [row EXCEPT !.active = ch.value]
    [] ch.field = "web"    -> [row EXCEPT !.web = ch.value]

\* Mutant: the last admin may be demoted, only not deactivated.
LastAdmin_Demoted(d, p, row) ==
  /\ d.people[p].role = "admin" /\ d.people[p].active /\ ~row.active
  /\ ~\E q \in Person \ {p} : Active(d, q) /\ d.people[q].role = "admin"

\* "the last active admin can neither be demoted nor deactivated"
LastAdmin(d, p, row) ==
  /\ d.people[p].role = "admin" /\ d.people[p].active /\ ~(row.role = "admin" /\ row.active)
  /\ ~\E q \in Person \ {p} : Active(d, q) /\ d.people[q].role = "admin"

\* The transaction of a patch.
Written(d, p, row) ==
  LET e == Drop([d EXCEPT !.people[p] = row],
                IF ~row.active THEN SessionsOf(d, p)
                ELSE IF ~row.web THEN SessionsOf(d, p) \cap SessionsBy(d, 0) ELSE {})
  IN  IF row.active THEN e
      ELSE [e EXCEPT !.phones = [f \in DOMAIN @ |->
             IF @[f].owner = p THEN [@[f] EXCEPT !.revoked = TRUE] ELSE @[f]]]

PhoneRevoked(d, f) ==
  Drop([d EXCEPT !.phones[f].revoked = TRUE], SessionsBy(d, f))

\* One live code per person: an older one is used up.
CodeMade(d, p) ==
  [d EXCEPT !.codes =
     Append([c \in DOMAIN @ |-> IF @[c].owner = p THEN [@[c] EXCEPT !.used = TRUE] ELSE @[c]],
            [owner |-> p, expires |-> clockA + EnrolTtl, used |-> FALSE])]

---------------------------------------------------------------------------
(* The handlers *)

AccessInit ==
  /\ db = [people |-> [p \in Person |-> IF p = FirstAdmin
                        THEN [role |-> "admin", active |-> TRUE, web |-> TRUE] ELSE NoPerson],
           phones |-> <<>>, sessions |-> <<>>, codes |-> <<>>]
  /\ clockA = 0 /\ sent = {} /\ ctlJob = <<>> /\ overlapped = FALSE /\ task = <<>> /\ brink = {} /\ deeds = 0

\* The other process is between the checks and the transaction of a patch.
GatewayPatches == task # <<>> /\ task.does = "patch"

\* A change by gwctl, which asks no handler; it may cross a patch.
CtlDoes(d) ==
  /\ deeds < MaxDeeds
  /\ db' = d /\ deeds' = deeds + 1
  /\ overlapped' = (overlapped \/ ((ctlJob # <<>> \/ GatewayPatches) /\ d.people # db.people))
  /\ UNCHANGED task

\* A change by the gateway in one step.
Does(d) == task = <<>> /\ CtlDoes(d)
Alone == UNCHANGED <<clockA, sent, ctlJob, brink>>

\* A handler has read and checked; `of` is the code or the phone it is about.
Checked(does, p, of, row) ==
  /\ task = <<>> /\ deeds < MaxDeeds /\ deeds' = deeds + 1
  /\ task' = [does |-> does, who |-> p, of |-> of, row |-> row, crossed |-> FALSE]
  /\ UNCHANGED <<clockA, ctlJob, overlapped>>

\* ... and now writes: the row of a person, a session or a phone is not asked for again.
Finishes(d) ==
  /\ db' = d /\ task' = <<>>
  /\ overlapped' = (overlapped \/ (ctlJob # <<>> /\ d.people # db.people))
  /\ UNCHANGED <<clockA, sent, ctlJob, brink, deeds>>

\* login: the credentials were right (SignIn), and the row read before them lets the person in.
WebLogin(p) ==
  /\ Active(db, p) /\ db.people[p].web
  /\ Checked("login", p, 0, NoPerson) /\ UNCHANGED <<db, sent, brink>>
SignedIn ==
  /\ task # <<>> /\ task.does = "login"
  /\ Finishes([db EXCEPT !.sessions = Append(@, NewSession(task.who, 0, clockA + AbsTtl))])

\* app_login: the same check, then the limits and the phone.
AppLogin(p) ==
  /\ Active(db, p) /\ db.people[p].web
  /\ Checked("appLogin", p, 0, NoPerson) /\ UNCHANGED <<db, sent, brink>>
AppSignedIn ==
  /\ task # <<>> /\ task.does = "appLogin"
  /\ Finishes(IF RoomFor(db, task.who) THEN [db EXCEPT !.phones = Append(@, NewPhone(task.who, 0))] ELSE db)

\* enrol: a code becomes a phone, if the transaction finds it still unused.
Enrol(c) ==
  /\ ~db.codes[c].used /\ db.codes[c].expires >= clockA /\ Active(db, db.codes[c].owner)
  /\ Checked("enrol", db.codes[c].owner, c, NoPerson) /\ UNCHANGED <<db, sent, brink>>
Enrolled ==
  LET c == task.of
  IN  /\ task # <<>> /\ task.does = "enrol"
      /\ Finishes(IF RoomFor(db, task.who) /\ ~db.codes[c].used
                  THEN [db EXCEPT !.phones = Append(@, NewPhone(task.who, c)), !.codes[c].used = TRUE] ELSE db)

\* A request with a device token slides the expiry and then does its work.
Slides(f) ==
  PhoneGood(db, f) /\ brink' = IF db.phones[f].expires = clockA THEN brink \cup {f} ELSE brink
ByPhone(f, d) == Slides(f) /\ Does(d) /\ UNCHANGED <<clockA, sent, ctlJob>>

\* A request that changes nothing here: a device, a schedule, a robot.
DeviceRequest(f) == UsePhone(db, f) # db /\ ByPhone(f, UsePhone(db, f))

\* create_app_session: the app's web view; it lives no longer than the token.
AppSession(f) ==
  /\ Slides(f) /\ db' = UsePhone(db, f)
  /\ Checked("session", db.phones[f].owner, f, NoPerson) /\ UNCHANGED sent
AppSessionOpen ==
  LET f == task.of
      tidy == Drop(db, {i \in SessionsBy(db, f) : db.sessions[i].ends < clockA \/ db.sessions[i].last < clockA - Idle})
      ends == IF clockA + AbsTtl < db.phones[f].expires THEN clockA + AbsTtl ELSE db.phones[f].expires
  IN  /\ task # <<>> /\ task.does = "session"
      /\ Finishes([tidy EXCEPT !.sessions = Append(@, NewSession(task.who, f, ends))])

\* app_logout: the calling phone only.
AppLogout(f) == ByPhone(f, PhoneRevoked(UsePhone(db, f), f))

\* A request with a session: a dead one's row goes, a live one slides.
SessionRequest(i) ==
  LET d == IF SessionGood(db, i) THEN UseSession(db, i)
           ELSE [db EXCEPT !.sessions[i].kept = FALSE]
  IN  d # db /\ Does(d) /\ Alone

Logout(i) ==
  /\ SessionGood(db, i)
  /\ Does([db EXCEPT !.sessions[i].kept = FALSE])
  /\ Alone

\* phone_revoke: an admin any phone, others their own; an app session only its phone.
Revoke(i, f) ==
  LET s == db.sessions[i]
  IN  /\ SessionGood(db, i)
      /\ db.people[s.owner].role = "admin" \/ db.phones[f].owner = s.owner
      /\ s.phone \in {0, f}
      /\ Does(PhoneRevoked(UseSession(db, i), f))
      /\ Alone

\* enrol_code_create: no body, hence in one step.
EnrolCode(i, p) ==
  /\ AdminSession(db, i) /\ Active(db, p) /\ RoomFor(db, p)
  /\ Does(CodeMade(UseSession(db, i), p))
  /\ Alone

\* people_create, people_patch: admitted now, acting when the body is there.
Admit(i) ==
  /\ task = <<>> /\ AdminSession(db, i) /\ i \notin sent /\ Cardinality(sent) < MaxSent
  /\ sent' = sent \cup {i} /\ db' = UseSession(db, i)
  /\ UNCHANGED <<clockA, ctlJob, overlapped, task, brink, deeds>>

Create(i, p, role) ==
  /\ i \in sent /\ ~IsPerson(db, p)
  /\ sent' = sent \ {i} /\ Does(Added(db, p, role))
  /\ UNCHANGED <<clockA, ctlJob, brink>>

\* The row is read and the checks made, then it is written.
Patch(i, p, ch) ==
  LET row == Patched(db.people[p], ch)
  IN  /\ i \in sent /\ IsPerson(db, p) /\ ~LastAdmin(db, p, row)
      /\ sent' = sent \ {i} /\ Checked("patch", p, 0, row) /\ UNCHANGED <<db, brink>>
PatchWritten == GatewayPatches /\ Finishes(Written(db, task.who, task.row))

\* setup_complete, reset_credentials (gwctl's): all sessions of the person end.
CredentialsChanged(p) ==
  /\ IsPerson(db, p)
  /\ CtlDoes(Drop(db, SessionsOf(db, p))) /\ db' # db
  /\ Alone

\* gwctl: create, enrolment codes and revocations as above, with no session.
CtlCreate(p, role) == ~IsPerson(db, p) /\ CtlDoes(Added(db, p, role)) /\ Alone
CtlCode(p) == Active(db, p) /\ RoomFor(db, p) /\ CtlDoes(CodeMade(db, p)) /\ Alone
CtlRevoke(f) == ~db.phones[f].revoked /\ CtlDoes(PhoneRevoked(db, f)) /\ Alone

\* A patch of gwctl, in the same two steps; it may shut out whom a handler has just let in.
CtlRead(p, ch) ==
  /\ ctlJob = <<>> /\ IsPerson(db, p) /\ ~LastAdmin(db, p, Patched(db.people[p], ch))
  /\ deeds < MaxDeeds /\ deeds' = deeds + 1
  /\ ctlJob' = <<p, Patched(db.people[p], ch)>>
  /\ UNCHANGED <<db, clockA, sent, overlapped, task, brink>>
CtlWrite ==
  LET p == ctlJob[1]
      row == ctlJob[2]
      d == Written(db, p, row)
  IN  /\ ctlJob # <<>>
      /\ db' = d /\ ctlJob' = <<>>
      /\ overlapped' = (overlapped \/ (GatewayPatches /\ d.people # db.people))
      /\ task' = IF task # <<>> /\ task.who = p /\ ~(row.active /\ row.web)
                 THEN [task EXCEPT !.crossed = TRUE] ELSE task
      /\ UNCHANGED <<clockA, sent, brink, deeds>>

AccessTick ==
  /\ task = <<>> /\ clockA < LastTick /\ clockA' = clockA + 1
  /\ UNCHANGED <<db, sent, ctlJob, overlapped, task, brink, deeds>>

AccessNext ==
  \/ \E p \in Person : WebLogin(p) \/ AppLogin(p) \/ CredentialsChanged(p) \/ CtlCode(p)
  \/ \E p \in Person, role \in Roles : CtlCreate(p, role) \/ \E i \in sent : Create(i, p, role)
  \/ \E p \in Person, ch \in Patches : CtlRead(p, ch) \/ \E i \in sent : Patch(i, p, ch)
  \/ \E c \in CodeId(db) : Enrol(c)
  \/ \E f \in PhoneId(db) : DeviceRequest(f) \/ AppSession(f) \/ AppLogout(f) \/ CtlRevoke(f)
  \/ \E i \in SessionId(db) : SessionRequest(i) \/ Logout(i) \/ Admit(i)
  \/ \E i \in SessionId(db), f \in PhoneId(db) : Revoke(i, f)
  \/ \E i \in SessionId(db), p \in Person : EnrolCode(i, p)
  \/ SignedIn \/ AppSignedIn \/ Enrolled \/ AppSessionOpen \/ PatchWritten
  \/ CtlWrite \/ AccessTick

AccessSpec == AccessInit /\ [][AccessNext]_accessVars

---------------------------------------------------------------------------
(* Properties. A patch that another change of the people crosses may undo it
   (`overlapped`): then there may be no admin, but nobody holds more than he
   should. Whom gwctl shuts out between the check of a sign-in and its row
   keeps what the sign-in makes (`crossed`). *)

AccessTypeOK ==
  /\ clockA \in 0..LastTick /\ sent \subseteq SessionId(db) /\ brink \subseteq PhoneId(db)
  /\ \A p \in Person : IsPerson(db, p) =>
       db.people[p] \in [role : Roles, active : BOOLEAN, web : BOOLEAN]
  /\ \A f \in PhoneId(db) : db.phones[f] \in
       [owner : Person, expires : 0..LastTick + Sliding, revoked : BOOLEAN, from : 0..Len(db.codes),
        crossed : BOOLEAN]
  /\ \A i \in SessionId(db) : db.sessions[i] \in
       [owner : Person, phone : 0..Len(db.phones), last : 0..LastTick, ends : 0..LastTick + AbsTtl,
        kept : BOOLEAN, crossed : BOOLEAN]
  /\ \A c \in CodeId(db) : db.codes[c] \in
       [owner : Person, expires : 0..LastTick + EnrolTtl, used : BOOLEAN]

\* Somebody can still manage the system (people.patch: "nobody could manage the system any
\* more"), also when two admins demote each other with requests admitted before.
AdminLeft ==
  overlapped \/ \E p \in Person : Active(db, p) /\ db.people[p].role = "admin"

\* An open stream asks less of a session than a request does (it does not look at the person
\* of a web session); that is enough, because what takes the right away also takes the row,
\* unless the row comes after it.
StreamsMayTrust ==
  \A i \in SessionId(db) : StreamGood(db, i) /\ ~db.sessions[i].crossed => SessionGood(db, i)

\* A deactivated person keeps nothing that would work again after a reactivation: phones are
\* revoked for good, and a session that is left is of a revoked phone. A sign-in that a
\* deactivation crossed is the exception.
InactiveHoldsNothing ==
  \A p \in Person : IsPerson(db, p) /\ ~db.people[p].active =>
    /\ \A f \in PhoneId(db) : db.phones[f].owner = p => db.phones[f].revoked \/ db.phones[f].crossed
    /\ \A i \in SessionId(db) : db.sessions[i].owner = p /\ db.sessions[i].kept =>
         IF db.sessions[i].phone = 0 THEN db.sessions[i].crossed ELSE db.phones[db.sessions[i].phone].revoked

\* A code makes one phone at most, and a person has one code that could.
CodesAreSingle ==
  /\ \A f, g \in PhoneId(db) : db.phones[f].from # 0 /\ db.phones[f].from = db.phones[g].from => f = g
  /\ \A c, e \in CodeId(db) : c # e /\ db.codes[c].owner = db.codes[e].owner => db.codes[c].used \/ db.codes[e].used

\* The limits hold whichever way phones come (enrolment, sign-in in the app, codes made
\* before); the instant of its expiry, at which a phone is no longer counted but may still
\* slide, is the exception.
DeviceLimits ==
  /\ \A p \in Person : Cardinality(Counted(db, {p}) \ brink) <= MaxPerPerson
  /\ Cardinality(Counted(db, Person) \ brink) <= MaxTotal

\* What the changes of people, codes, phones and sessions keep together, whatever their order.
AccessSafe ==
  /\ AccessTypeOK
  /\ AdminLeft
  /\ StreamsMayTrust
  /\ InactiveHoldsNothing
  /\ CodesAreSingle
  /\ DeviceLimits
=============================================================================
