------------------------------- MODULE SignIn -------------------------------
(***************************************************************************)
(* The sign-in of one person at the gateway (portal/gateway/gw/people.py,  *)
(* auth.py, the setup page of web.py): setup links, password and           *)
(* authenticator, and the throttle in front of the check that the web and  *)
(* the app share. Every handler is atomic once the body is there.          *)
(***************************************************************************)
EXTENDS Integers, FiniteSets

CONSTANTS
  FailWindow,  \* FAIL_WINDOW
  FreeFails,   \* ACCOUNT_FREE_FAILS
  IpLimit,     \* IP_FAIL_LIMIT
  StepLength,  \* of an authenticator's code (30 s)
  LinkTtl,     \* SETUP_TTL_S
  LastSecond,  \* bound on the clock
  MaxLinks,    \* bound on setup links
  MaxTries     \* bound on attempts

ASSUME SignInNumbers ==
  /\ {FreeFails, IpLimit, LinkTtl, MaxLinks, MaxTries} \subseteq Nat
  /\ {FailWindow, StepLength, LastSecond} \subseteq Nat \ {0}

\* What the proofs need to know of powers (numbers that TLC checks; no prover knows them).
ASSUME PowersOfTwo ==
  /\ 2 ^ 0 = 1 /\ 2 ^ 1 = 2
  /\ \A i, j \in 0..IpLimit : 2 ^ i \in Nat \ {0} /\ 2 ^ (i + j) = 2 ^ i * 2 ^ j

VARIABLES
  clockS,   \* the time
  isAdmin,  \* the person's role
  setupLink,     \* the latest setup link: when it ends, whether it is used, the seed shown with it
  made,     \* setup links made, each with a seed of its own
  cred,     \* credentials: the seed (0: none) and totp_last_step; <<>>: no password
  failRows,    \* failed attempts in the window, of this account or of another from the address: [id, at, mine]
  tries,    \* attempts so far
  accepted, \* codes that were accepted: seed and step
  twice,    \* one of them a second time
  setups    \* completed setups

signVars == <<clockS, isAdmin, setupLink, made, cred, failRows, tries, accepted, twice, setups>>

NoCode == -1
Step(t) == t \div StepLength
Codes == {NoCode} \cup 0..Step(LastSecond)

\* verify_totp: of the step before to the step after, and later than the last one used.
Verified(k, last) == k # NoCode /\ k - Step(clockS) \in -1..1 /\ k > last

AcceptStep(seed, k) ==
  /\ accepted' = accepted \cup {<<seed, k>>}
  /\ twice' = (twice \/ <<seed, k>> \in accepted)

---------------------------------------------------------------------------
(* Setup links *)

SignInit ==
  /\ clockS = 1 /\ isAdmin = FALSE /\ setupLink = <<>> /\ made = 0 /\ cred = <<>>
  /\ failRows = {} /\ tries = 0 /\ accepted = {} /\ twice = FALSE /\ setups = 0

\* create_setup_link: an older unused link dies.
NewLink ==
  /\ made < MaxLinks /\ made' = made + 1
  /\ setupLink' = [ends |-> clockS + LinkTtl, used |-> FALSE, seed |-> 0]
  /\ UNCHANGED <<clockS, isAdmin, cred, failRows, tries, accepted, twice, setups>>

LinkLive == setupLink # <<>> /\ ~setupLink.used /\ setupLink.ends >= clockS

\* setup_begin: the page is opened; its seed is made once.
SetupBegin ==
  /\ LinkLive /\ setupLink.seed = 0 /\ setupLink' = [setupLink EXCEPT !.seed = made]
  /\ UNCHANGED <<clockS, isAdmin, made, cred, failRows, tries, accepted, twice, setups>>

\* Mutant: the step of the code is not kept.
SetupComplete_Forgets(k) ==
  /\ LinkLive /\ setupLink.seed # 0
  /\ setupLink' = [setupLink EXCEPT !.used = TRUE, !.seed = 0] /\ setups' = setups + 1
  /\ IF k = NoCode THEN ~isAdmin /\ cred' = [seed |-> 0, last |-> 0] /\ UNCHANGED <<accepted, twice>>
     ELSE Verified(k, 0) /\ cred' = [seed |-> setupLink.seed, last |-> 0] /\ AcceptStep(setupLink.seed, k)
  /\ UNCHANGED <<clockS, isAdmin, made, failRows, tries>>

\* setup_complete: only an admin must have an authenticator.
SetupComplete(k) ==
  /\ LinkLive /\ setupLink.seed # 0
  /\ setupLink' = [setupLink EXCEPT !.used = TRUE, !.seed = 0] /\ setups' = setups + 1
  /\ IF k = NoCode THEN ~isAdmin /\ cred' = [seed |-> 0, last |-> 0] /\ UNCHANGED <<accepted, twice>>
     ELSE Verified(k, 0) /\ cred' = [seed |-> setupLink.seed, last |-> k] /\ AcceptStep(setupLink.seed, k)
  /\ UNCHANGED <<clockS, isAdmin, made, failRows, tries>>

\* reset_credentials (gwctl, break-glass)
Reset ==
  /\ cred # <<>> /\ cred' = <<>>
  /\ UNCHANGED <<clockS, isAdmin, setupLink, made, failRows, tries, accepted, twice, setups>>

\* people.patch, as far as it matters here.
RoleChanged ==
  /\ isAdmin' = ~isAdmin
  /\ UNCHANGED <<clockS, setupLink, made, cred, failRows, tries, accepted, twice, setups>>

---------------------------------------------------------------------------
(* The check *)

\* _fails: those of the window.
RecentFails(rows) == {r \in rows : r.at > clockS - FailWindow}
Mine(rows) == {r \in rows : r.mine}
WithFailure(isMine) == RecentFails(failRows) \cup {[id |-> tries + 1, at |-> clockS, mine |-> isMine]}

\* _throttle: per address a limit, per account a delay that doubles, from the last failure on (the
\* delay is over after the last one when it is over after each).
Throttled ==
  LET all == RecentFails(failRows)
      own == Mine(all)
      n   == Cardinality(own)
  IN  \/ Cardinality(all) >= IpLimit
      \/ n > FreeFails /\ \E r \in own : clockS < r.at + 2 ^ (n - FreeFails)

\* _check_login: the password, then the code where one is needed; every failure counts.
CheckLogin(rightPassword, k) ==
  LET needCode == isAdmin \/ cred.seed # 0
      ok == /\ cred # <<>> /\ rightPassword
            /\ needCode => cred.seed # 0 /\ Verified(k, cred.last)
  IN  /\ ~Throttled /\ tries < MaxTries /\ tries' = tries + 1
      /\ IF ok
         THEN /\ failRows' = RecentFails(failRows)
              /\ IF needCode THEN cred' = [cred EXCEPT !.last = k] /\ AcceptStep(cred.seed, k)
                 ELSE UNCHANGED <<cred, accepted, twice>>
         ELSE /\ failRows' = WithFailure(TRUE)
              /\ UNCHANGED <<cred, accepted, twice>>
      /\ UNCHANGED <<clockS, isAdmin, setupLink, made, setups>>

\* The same address fails with another name, which is throttled by itself.
OtherFails ==
  /\ Cardinality(RecentFails(failRows)) < IpLimit /\ tries < MaxTries /\ tries' = tries + 1
  /\ failRows' = WithFailure(FALSE)
  /\ UNCHANGED <<clockS, isAdmin, setupLink, made, cred, accepted, twice, setups>>

SignTick ==
  /\ clockS < LastSecond /\ clockS' = clockS + 1
  /\ failRows' = {r \in failRows : r.at > clockS' - FailWindow} \* the others are never read again
  /\ UNCHANGED <<isAdmin, setupLink, made, cred, tries, accepted, twice, setups>>

SignNext ==
  \/ NewLink \/ SetupBegin \/ Reset \/ RoleChanged \/ OtherFails \/ SignTick
  \/ \E k \in Codes : SetupComplete(k) \/ \E right \in BOOLEAN : CheckLogin(right, k)

SignSpec == SignInit /\ [][SignNext]_signVars

---------------------------------------------------------------------------
(* Properties *)

SignTypeOK ==
  /\ clockS \in 0..LastSecond /\ isAdmin \in BOOLEAN /\ made \in 0..MaxLinks /\ tries \in 0..MaxTries
  /\ setupLink # <<>> => setupLink \in [ends : 0..LastSecond + LinkTtl, used : BOOLEAN, seed : 0..made]
  /\ cred # <<>> => cred \in [seed : 0..made, last : Codes \ {NoCode}]
  /\ accepted \subseteq ((1..made) \X Codes)

\* "A code works once" (verify_totp): also the one that completed the setup, in every order
\* of setups, resets and sign-ins on the web and in the app.
TotpOnce == ~twice

\* A link sets credentials once.
LinkOnce == setups <= made

\* What the two limits together are for: the wrong guesses at an account in one window are
\* few (after the free ones the waits double, so n guesses take 2^(n - free) - 2), and so are
\* those from one address.
GuessesBounded ==
  LET n == Cardinality(Mine(RecentFails(failRows)))
  IN  /\ n > FreeFails => 2 ^ (n - FreeFails) < FailWindow + 2
      /\ Cardinality(RecentFails(failRows)) <= IpLimit

\* A code and a link work once, and guessing stays slow, in every order of setups and sign-ins.
SignInSafe ==
  /\ SignTypeOK
  /\ TotpOnce
  /\ LinkOnce
  /\ GuessesBounded
=============================================================================
