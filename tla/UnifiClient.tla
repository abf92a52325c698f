---------------------------- MODULE UnifiClient ----------------------------
(***************************************************************************)
(* The client of the UniFi controller (src/fjord_radar/unifi_client.py):   *)
(* its session, the CSRF token unsafe requests must carry, the login that  *)
(* comes before a request or, once, in the middle of one, and set_radio,   *)
(* which writes back the whole radio table it read before.  The controller *)
(* is external: it ends sessions, changes the token and serves other       *)
(* clients whenever it likes, until the weather is good for ever.          *)
(*                                                                         *)
(* step is the call in progress: "country" get_country_code, "ensure"      *)
(* ensure_logged_in, and "find", "put" and "refetch" the requests of an    *)
(* apply.  req is what that call does next: "login", "send", or, after a   *)
(* refusal, "relogin" and "resend".  caller is who calls: "app" run()      *)
(* before there is a scheduler, "thread" the scheduler before its first    *)
(* login, "loop" its loop of applies, "gone" a scheduler that a failure of *)
(* a call has ended.                                                       *)
(***************************************************************************)
CONSTANTS Combos,     \* settings of a radio
          Radios,     \* radios of the access point
          Target,     \* the one the scheduler drives
          NoDevice,   \* nothing read yet
          Faults      \* which of FaultKinds may happen

\* unifi: an error status, or an AP or radio that is not there.  net: an exception
\* of requests.  forbidden: 401 or 403 whatever the session.  silent: the response to
\* a login carries no token.  expire: the session ends.  rotate: the token changes.
\* edit: another client sets another radio.
FaultKinds == {"unifi", "net", "forbidden", "silent", "expire", "rotate", "edit"}

ASSUME ClientAssumption ==
  /\ Target \in Radios /\ NoDevice \notin [Radios -> Combos]
  /\ Faults \subseteq FaultKinds

VARIABLES live,       \* the controller accepts the client's cookie
          csrf,       \* the client's token, against the controller's
          loggedIn,   \* _logged_in
          table,      \* the controller's radio_table of the AP
          step, req,  \* the call in progress, and its next step
          caller,     \* who makes the calls
          want,       \* the combination to apply
          device,     \* the radio_table last read by this apply
          result,     \* how the last apply ended
          weather     \* "good" once nothing goes wrong any more

session == <<live, csrf, loggedIn>>
call    == <<step, req, caller, want, device, result>>
vars    == <<session, table, call, weather>>

Disturbed(f) == f \in Faults /\ weather = "bad"

Requests == {"country", "find", "put", "refetch"}

ApplySteps == {"find", "put", "refetch"}

\* _request logs in first unless it believes to be logged in.
Start(s) == step' = s /\ req' = IF loggedIn THEN "send" ELSE "login"

\* run() catches every exception, the scheduler a UnifiError of an apply: its first
\* login, and any exception of requests, end the thread.
EndsCaller(r) == \/ r = "net" /\ step # "country"
                 \/ r = "unifi" /\ step = "ensure"

\* The call returns or raises; only the end of an apply is remembered.
Return(r) == /\ step' = "idle" /\ req' = "none"
             /\ result' = IF step \in ApplySteps THEN r ELSE result
             /\ caller' = IF EndsCaller(r) THEN "gone" ELSE caller

-----------------------------------------------------------------------------
(* Calls                                                                   *)

\* app.run, before there is a scheduler; without auto_detect it does not ask.
GetCountryCode ==
  /\ step = "idle" /\ caller = "app"
  /\ Start("country") /\ caller' = "thread"
  /\ UNCHANGED <<session, table, want, device, result, weather>>

\* _run, before its first apply; a client that is logged in does nothing.
EnsureLoggedIn ==
  /\ step = "idle" /\ caller \in {"app", "thread"}
  /\ caller' = "loop"
  /\ IF loggedIn THEN UNCHANGED <<step, req>> ELSE Start("ensure")
  /\ UNCHANGED <<session, table, want, device, result, weather>>

\* find_ap and set_radio, as _run_trial calls them.
Apply ==
  /\ step = "idle" /\ caller = "loop"
  /\ Start("find")
  /\ want' \in Combos /\ device' = NoDevice /\ result' = "none"
  /\ UNCHANGED <<session, table, caller, weather>>

\* Somebody restarts a process whose scheduler is gone: a new client.
Restart ==
  /\ caller = "gone" /\ caller' = "app"
  /\ live' = FALSE /\ csrf' = "none" /\ loggedIn' = FALSE
  /\ UNCHANGED <<table, step, req, want, device, result, weather>>

-----------------------------------------------------------------------------
(* login                                                                   *)

\* What follows a login that succeeded.
LoggedIn ==
  IF step = "ensure" THEN Return("ok")
  ELSE /\ req' = IF req = "login" THEN "send" ELSE "resend"
       /\ UNCHANGED <<step, caller, result>>

\* Mutant: a token, once set, is kept.
LoginKeepsToken ==
  /\ req \in {"login", "relogin"}
  /\ live' = TRUE /\ loggedIn' = TRUE
  /\ csrf' = IF csrf = "none" THEN "current" ELSE "stale"
  /\ LoggedIn
  /\ UNCHANGED <<table, want, device, weather>>

\* A response without a token leaves the one of the session before, or none.
Login ==
  /\ req \in {"login", "relogin"}
  /\ live' = TRUE /\ loggedIn' = TRUE
  /\ \/ csrf' = "current"
     \/ Disturbed("silent") /\ csrf' = IF csrf = "none" THEN "none" ELSE "stale"
  /\ LoggedIn
  /\ UNCHANGED <<table, want, device, weather>>

LoginFails ==
  /\ req \in {"login", "relogin"}
  /\ \E f \in {"unifi", "net"} : Disturbed(f) /\ Return(f)
  /\ UNCHANGED <<session, table, want, device, weather>>

-----------------------------------------------------------------------------
(* _request                                                                *)

Sending == req \in {"send", "resend"}

Authorized == live /\ (step = "put" => csrf = "current")

\* Any response may carry the token, and the client takes it.
Refresh == csrf' \in IF live THEN {csrf, "current"} ELSE {csrf}

\* Mutant: every radio of the table is set.
NewTableEverywhere == [r \in Radios |-> want]

\* set_radio changes the entry of the target and sends all of them.
NewTable == [device EXCEPT ![Target] = want]

AnswerCountry ==
  /\ step = "country" /\ Sending /\ Authorized
  /\ Refresh /\ Return("ok")
  /\ UNCHANGED <<live, loggedIn, table, want, device, weather>>

AnswerFind ==
  /\ step = "find" /\ Sending /\ Authorized
  /\ Refresh /\ device' = table
  /\ Start("put")
  /\ UNCHANGED <<live, loggedIn, table, caller, want, result, weather>>

AnswerPut ==
  /\ step = "put" /\ Sending /\ Authorized
  /\ Refresh /\ table' = NewTable
  /\ Start("refetch")
  /\ UNCHANGED <<live, loggedIn, caller, want, device, result, weather>>

\* Mutant: set_radio returns the device it was given.
AnswerWithOldDevice ==
  /\ step = "refetch" /\ Sending /\ Authorized
  /\ Refresh /\ UNCHANGED device
  /\ Return("ok")
  /\ UNCHANGED <<live, loggedIn, table, want, weather>>

AnswerRefetch ==
  /\ step = "refetch" /\ Sending /\ Authorized
  /\ Refresh /\ device' = table
  /\ Return("ok")
  /\ UNCHANGED <<live, loggedIn, table, want, weather>>

\* Mutant: a refused request is repeated as often as it is refused.
RefusedForever ==
  /\ Sending
  /\ ~Authorized \/ Disturbed("forbidden")
  /\ Refresh
  /\ loggedIn' = FALSE /\ req' = "relogin"
  /\ UNCHANGED <<live, table, step, caller, want, device, result, weather>>

\* Mutant: _logged_in is not reset before the login.
RefusedStillLoggedIn ==
  /\ Sending
  /\ ~Authorized \/ Disturbed("forbidden")
  /\ Refresh
  /\ \/ req = "send" /\ req' = "relogin" /\ UNCHANGED <<step, caller, result>>
     \/ req = "resend" /\ Return("unifi")
  /\ UNCHANGED <<live, loggedIn, table, want, device, weather>>

\* 401 or 403: log in and try once more, then give up.
Refused ==
  /\ Sending
  /\ ~Authorized \/ Disturbed("forbidden")
  /\ Refresh
  /\ \/ req = "send" /\ loggedIn' = FALSE /\ req' = "relogin" /\ UNCHANGED <<step, caller, result>>
     \/ req = "resend" /\ Return("unifi") /\ UNCHANGED loggedIn
  /\ UNCHANGED <<live, table, want, device, weather>>

\* Mutant: a request that came back with an error status is repeated.
BrokenRetried ==
  /\ Sending
  /\ \/ /\ Disturbed("unifi") /\ Refresh
        /\ \/ req = "send" /\ req' = "resend" /\ UNCHANGED <<step, caller, result>>
           \/ req = "resend" /\ Return("unifi")
     \/ Disturbed("net") /\ Return("net") /\ UNCHANGED csrf
  /\ IF step = "put" /\ Authorized THEN table' \in {table, NewTable} ELSE UNCHANGED table
  /\ UNCHANGED <<live, loggedIn, want, device, weather>>

\* Any other failure of a request; a PUT may have had its effect.
Broken ==
  /\ Sending
  /\ \/ Disturbed("unifi") /\ Return("unifi") /\ Refresh
     \/ Disturbed("net") /\ Return("net") /\ UNCHANGED csrf
  /\ IF step = "put" /\ Authorized THEN table' \in {table, NewTable} ELSE UNCHANGED table
  /\ UNCHANGED <<live, loggedIn, want, device, weather>>

-----------------------------------------------------------------------------
(* The controller, and others that use it                                  *)

Expire ==
  /\ Disturbed("expire") /\ live
  /\ live' = FALSE
  /\ UNCHANGED <<csrf, loggedIn, table, call, weather>>

Rotate ==
  /\ Disturbed("rotate") /\ csrf = "current"
  /\ csrf' = "stale"
  /\ UNCHANGED <<live, loggedIn, table, call, weather>>

Edit ==
  /\ Disturbed("edit")
  /\ \E r \in Radios \ {Target}, c \in Combos : table' = [table EXCEPT ![r] = c]
  /\ UNCHANGED <<session, call, weather>>

Calm ==
  /\ weather = "bad" /\ weather' = "good"
  /\ UNCHANGED <<session, table, call>>

-----------------------------------------------------------------------------
Init ==
  /\ live = FALSE /\ csrf = "none" /\ loggedIn = FALSE
  /\ table \in [Radios -> Combos]
  /\ step = "idle" /\ req = "none" /\ caller = "app" /\ want \in Combos
  /\ device = NoDevice /\ result = "none"
  /\ weather = "bad"

ClientStep ==
  \/ Login \/ LoginFails
  \/ AnswerCountry \/ AnswerFind \/ AnswerPut \/ AnswerRefetch
  \/ Refused \/ Broken

Next ==
  \/ GetCountryCode \/ EnsureLoggedIn \/ Apply \/ Restart
  \/ ClientStep
  \/ Expire \/ Rotate \/ Edit \/ Calm

Spec == Init /\ [][Next]_vars

\* A request in progress is answered, fails or times out.  A thread that is started
\* runs, and one that lives applies again, whatever came of the apply before.
FairSpec == Spec /\ WF_vars(ClientStep) /\ WF_vars(EnsureLoggedIn) /\ WF_vars(Apply)
=============================================================================
