----------------------- MODULE UnifiClientProperties -----------------------
(***************************************************************************)
(* What callers of the UniFi client may rely on.                           *)
(***************************************************************************)
EXTENDS UnifiClient

\* Every variable has its type; a client that logs in does not believe to be logged in,
\* one that sends does, and an apply has read the radio table before it writes it.
TypeOK ==
  /\ live \in BOOLEAN /\ loggedIn \in BOOLEAN
  /\ csrf \in {"none", "stale", "current"}
  /\ table \in [Radios -> Combos]
  /\ step \in Requests \cup {"idle", "ensure"}
  /\ req \in {"none", "login", "send", "relogin", "resend"}
  /\ caller \in {"app", "thread", "loop", "gone"}
  /\ want \in Combos
  /\ device \in [Radios -> Combos] \cup {NoDevice}
  /\ result \in {"none", "ok", "unifi", "net"}
  /\ weather \in {"bad", "good"}
  /\ req = "none" <=> step = "idle"
  /\ req \in {"login", "relogin"} => ~loggedIn
  /\ req \in {"send", "resend"} => loggedIn /\ step # "ensure"
  /\ step = "country" => caller = "thread"
  /\ step \in ApplySteps \cup {"ensure"} => caller = "loop"
  /\ step \in {"put", "refetch"} => device # NoDevice

AC == INSTANCE ApplyCalls WITH
        step <- IF step \in ApplySteps THEN step ELSE "idle",
        setting <- table[Target]

\* The three calls of an apply each take effect once or fail for good, whatever
\* logins and repetitions there are inside, and the PUT is the only one that
\* changes the target radio: what Scheduler assumes of the client.
ImplementsApply == AC!Spec

\* An apply that succeeded left the target radio as asked, and saw it so.
AppliedIsSet ==
  result = "ok" => table[Target] = want /\ device[Target] = want

\* Every call returns, also when each request is refused again after a login
\* (the _retried flag of _request).
CallsReturn == (step # "idle") ~> (step = "idle")

\* No expired session, outdated or missing token, or failed login leaves the client in
\* a state from which good weather does not bring it back: unless the scheduler is
\* gone, applies succeed again.  In good weather the response to a login carries the
\* token; a client that never got one logs in for the next PUT that is refused.
Recovers ==
  (weather = "good" /\ caller # "gone") ~> (step = "idle" /\ result = "ok")

\* set_radio sends the other radios as find_ap read them, a login or two ago perhaps.
\* So a PUT, also one that fails, changes one of them only back to what was read, and
\* only if somebody else has set it since: that edit is lost, and nothing more.
OthersOnlyLostToEdits ==
  [][\A r \in Radios \ {Target} :
       step' # step /\ table'[r] # table[r] =>
         step = "put" /\ table[r] # device[r] /\ table'[r] = device[r]]_vars
=============================================================================
