-------------------------------- MODULE Auth --------------------------------
(***************************************************************************)
(* `snyk auth`: a token given on the command line is verified; otherwise   *)
(* the person is sent to a page with a random key, and the command polls   *)
(* the server for the token of the account until it has it, an answer is   *)
(* an error or its attempts are used up.                                   *)
(***************************************************************************)
EXTENDS Naturals

CONSTANT MaxAttempts  \* the attempts of one authentication: 180, in a container 60

ASSUME AttemptsAssumption == MaxAttempts \in Nat \ {0}

VARIABLES
  auth,         \* where the command is
  attemptsLeft,
  confirmed,    \* the person has logged in on the page
  api,          \* the key in the user's configuration
  said          \* how the command ended

authVars == <<auth, attemptsLeft, confirmed, api, said>>

Key == {"none", "stale", "valid"}

AuthTypeOK ==
  /\ auth \in {"idle", "verifying", "probing", "polling", "waiting", "ended"}
  /\ attemptsLeft \in 0..MaxAttempts
  /\ confirmed \in BOOLEAN /\ api \in Key
  /\ said \in {"nothing", "authenticated", "misconfigured", "refused", "failed", "expired"}
  /\ said = "authenticated" => api = "valid"
  /\ said = "expired" => attemptsLeft = 0
  /\ auth \in {"polling", "waiting"} => attemptsLeft > 0

AuthInit ==
  /\ auth = "idle" /\ attemptsLeft = 0 /\ confirmed = FALSE /\ api \in Key /\ said = "nothing"

EndAuth(how) == auth' = "ended" /\ said' = how

(* Verifying the key does not change it: the server sends it back.         *)
Authenticated ==
  /\ api' = "valid"
  /\ EndAuth("authenticated")

Manual ==
  /\ auth = "idle"
  /\ auth' = "verifying" /\ attemptsLeft' = MaxAttempts
  /\ UNCHANGED <<confirmed, api, said>>

(* The answer for the key that was given, which may be one the server does *)
(* not know.                                                               *)
Verified ==
  /\ auth = "verifying"
  /\ \/ Authenticated
     \/ EndAuth("refused") /\ UNCHANGED api
     \/ EndAuth("failed") /\ UNCHANGED api
  /\ UNCHANGED <<attemptsLeft, confirmed>>

WebAuth(isCI) ==
  /\ auth = "idle"
  /\ attemptsLeft' = MaxAttempts
  /\ IF isCI THEN EndAuth("misconfigured") ELSE auth' = "probing" /\ UNCHANGED said
  /\ UNCHANGED <<confirmed, api>>

(* A request over IPv6, whose failing is an answer too; then the first     *)
(* poll is sent.                                                           *)
GetIpFamily ==
  /\ auth = "probing"
  /\ auth' = "polling"
  /\ UNCHANGED <<attemptsLeft, confirmed, api, said>>

(* The person, at any time after the page was opened.                      *)
Confirm ==
  /\ auth \in {"probing", "polling", "waiting"} \/ said = "expired"
  /\ ~confirmed
  /\ confirmed' = TRUE
  /\ UNCHANGED <<auth, attemptsLeft, api, said>>

(* testAuthComplete: the answer to one poll.                               *)
Polled ==
  /\ auth = "polling"
  /\ \/ confirmed /\ Authenticated
     \/ ~confirmed /\ auth' = "waiting" /\ UNCHANGED <<api, said>>
     \/ EndAuth("refused") /\ UNCHANGED api
     \/ EndAuth("failed") /\ UNCHANGED api
  /\ UNCHANGED <<attemptsLeft, confirmed>>

(* Mutant of Waited: the attempts are not counted.                         *)
WaitedForEver ==
  /\ auth = "waiting"
  /\ auth' = "polling"
  /\ UNCHANGED <<attemptsLeft, confirmed, api, said>>

(* The second is over. The last one is waited for nothing: no poll follows *)
(* it.                                                                     *)
Waited ==
  /\ auth = "waiting"
  /\ attemptsLeft' = attemptsLeft - 1
  /\ IF attemptsLeft' > 0 THEN auth' = "polling" /\ UNCHANGED said ELSE EndAuth("expired")
  /\ UNCHANGED <<confirmed, api>>

AuthStep == Verified \/ GetIpFamily \/ Polled \/ Waited

AuthBusy == auth \notin {"idle", "ended"}
=============================================================================
