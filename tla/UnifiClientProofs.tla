------------------------- MODULE UnifiClientProofs -------------------------
(***************************************************************************)
(* The UniFi client keeps its types, applies what it reports as applied,   *)
(* and implements the three-call apply, for every set of settings, radios  *)
(* and faults.                                                             *)
(***************************************************************************)
EXTENDS UnifiClientProperties, TLAPS

\* What an apply in progress knows: no result before it returns, and after the PUT
\* the target radio is as asked for.
ApplyInv ==
  /\ step \in ApplySteps => result = "none"
  /\ step = "refetch" => table[Target] = want

IInv == TypeOK /\ ApplyInv /\ AppliedIsSet

\* The table that is sent differs from the one that was read in the target's entry.
LEMMA NewTableType ==
  ASSUME TypeOK, step = "put"
  PROVE  /\ NewTable \in [Radios -> Combos] /\ NewTable[Target] = want
         /\ \A r \in Radios \ {Target} : NewTable[r] = device[r]
<1>1. device \in [Radios -> Combos] /\ want \in Combos
  BY DEF TypeOK
<1> QED BY <1>1, ClientAssumption DEF NewTable

\* The target radio changes in no step but the PUT's, and then to want.
LEMMA TargetChanges ==
  ASSUME TypeOK, [Next]_vars
  PROVE  \/ table'[Target] = table[Target]
         \/ step = "put" /\ Sending /\ Authorized /\ (AnswerPut \/ Broken) /\ table'[Target] = want
<1> USE DEF session, call
<1>1. CASE GetCountryCode \/ EnsureLoggedIn \/ Apply \/ Restart \/ Login \/ LoginFails
  BY <1>1 DEF GetCountryCode, EnsureLoggedIn, Apply, Restart, Login, LoginFails
<1>2. CASE AnswerCountry \/ AnswerFind \/ AnswerRefetch \/ Refused
  BY <1>2 DEF AnswerCountry, AnswerFind, AnswerRefetch, Refused
<1>3. CASE AnswerPut
  BY <1>3, NewTableType DEF AnswerPut
<1>4. CASE Broken
  BY <1>4, NewTableType DEF Broken
<1>5. CASE Edit
  BY <1>5 DEF Edit, TypeOK
<1>6. CASE Expire \/ Rotate \/ Calm \/ UNCHANGED vars
  BY <1>6 DEF Expire, Rotate, Calm, vars
<1> QED BY <1>1, <1>2, <1>3, <1>4, <1>5, <1>6 DEF Next, ClientStep

-----------------------------------------------------------------------------
\* The invariant holds at first,
LEMMA IInvInit == Init => IInv
BY DEF Init, IInv, TypeOK, ApplyInv, AppliedIsSet, Requests, ApplySteps

\* and in every step.
LEMMA IInvStep == IInv /\ [Next]_vars => IInv'
<1> SUFFICES ASSUME IInv, [Next]_vars
             PROVE  IInv'
  OBVIOUS
<1> USE DEF session, call
<1>t. TypeOK /\ ApplyInv /\ AppliedIsSet
  BY DEF IInv
<1>1. CASE GetCountryCode \/ EnsureLoggedIn \/ Apply \/ Restart
  <2>1. CASE GetCountryCode
    BY <1>t, <2>1 DEF GetCountryCode, Start, IInv, TypeOK, ApplyInv, AppliedIsSet, Requests, ApplySteps
  <2>2. CASE EnsureLoggedIn
    BY <1>t, <2>2 DEF EnsureLoggedIn, Start, IInv, TypeOK, ApplyInv, AppliedIsSet, Requests, ApplySteps
  <2>3. CASE Apply
    BY <1>t, <2>3 DEF Apply, Start, IInv, TypeOK, ApplyInv, AppliedIsSet, Requests, ApplySteps
  <2>4. CASE Restart
    <3>1. step = "idle" /\ req = "none"
      BY <1>t, <2>4 DEF Restart, TypeOK, Requests, ApplySteps
    <3> QED BY <1>t, <2>4, <3>1 DEF Restart, IInv, TypeOK, ApplyInv, AppliedIsSet, Requests, ApplySteps
  <2> QED BY <1>1, <2>1, <2>2, <2>3, <2>4
<1>2. CASE Login
  BY <1>t, <1>2 DEF Login, LoggedIn, Return, IInv, TypeOK, ApplyInv, AppliedIsSet, Requests, ApplySteps
<1>3. CASE LoginFails
  BY <1>t, <1>3 DEF LoginFails, Return, IInv, TypeOK, ApplyInv, AppliedIsSet, Requests, ApplySteps
<1>4. CASE AnswerCountry
  BY <1>t, <1>4 DEF AnswerCountry, Sending, Refresh, Return,
                    IInv, TypeOK, ApplyInv, AppliedIsSet, Requests, ApplySteps
<1>5. CASE AnswerFind
  BY <1>t, <1>5, ClientAssumption DEF AnswerFind, Sending, Refresh, Start,
                    IInv, TypeOK, ApplyInv, AppliedIsSet, Requests, ApplySteps
<1>6. CASE AnswerPut
  BY <1>t, <1>6, NewTableType DEF AnswerPut, Sending, Refresh, Start,
                    IInv, TypeOK, ApplyInv, AppliedIsSet, Requests, ApplySteps
<1>7. CASE AnswerRefetch
  BY <1>t, <1>7 DEF AnswerRefetch, Sending, Refresh, Return,
                    IInv, TypeOK, ApplyInv, AppliedIsSet, Requests, ApplySteps
<1>8. CASE Refused
  BY <1>t, <1>8 DEF Refused, Sending, Refresh, Return,
                    IInv, TypeOK, ApplyInv, AppliedIsSet, Requests, ApplySteps
<1>9. CASE Broken
  <2>1. table' \in [Radios -> Combos]
    BY <1>t, <1>9, NewTableType DEF Broken, TypeOK
  <2>2. csrf' \in {csrf, "current"} /\ step' = "idle" /\ req' = "none" /\ result' \in {result, "unifi", "net"}
    BY <1>9 DEF Broken, Refresh, Return
  <2>5. caller' \in {"app", "thread", "loop", "gone"}
    BY <1>t, <1>9 DEF Broken, Return, TypeOK
  <2>3. step # "idle"
    BY <1>t, <1>9 DEF Broken, Sending, TypeOK
  <2>4. TypeOK'
    BY <1>t, <1>9, <2>1, <2>2, <2>5 DEF Broken, TypeOK, ApplySteps
  <2>6. /\ want' = want /\ device' = device
        /\ result' = "ok" => result = "ok" /\ table' = table
    BY <1>t, <1>9 DEF Broken, Return, ApplyInv, ApplySteps
  <2> QED BY <1>t, <2>2, <2>4, <2>6 DEF IInv, ApplyInv, AppliedIsSet, ApplySteps
<1>10. CASE Edit
  BY <1>t, <1>10 DEF Edit, IInv, TypeOK, ApplyInv, AppliedIsSet
<1>11. CASE Expire \/ Rotate \/ Calm \/ UNCHANGED vars
  <2>1. /\ table' = table /\ step' = step /\ req' = req /\ want' = want
        /\ device' = device /\ result' = result /\ loggedIn' = loggedIn /\ caller' = caller
    BY <1>11 DEF Expire, Rotate, Calm, vars
  <2>2. live' \in BOOLEAN /\ weather' \in {"bad", "good"}
    BY <1>t, <1>11 DEF Expire, Rotate, Calm, vars, TypeOK
  <2>3. csrf' \in {"none", "stale", "current"}
    BY <1>t, <1>11 DEF Expire, Rotate, Calm, vars, TypeOK
  <2>4. TypeOK'
    BY <1>t, <2>1, <2>2, <2>3 DEF TypeOK
  <2> QED BY <1>t, <2>1, <2>4 DEF IInv, ApplyInv, AppliedIsSet
<1> QED BY <1>1, <1>2, <1>3, <1>4, <1>5, <1>6, <1>7, <1>8, <1>9, <1>10, <1>11 DEF Next, ClientStep

\* It holds in every state.
LEMMA IInvariance == Spec => []IInv
<1> QED BY IInvInit, IInvStep, PTL DEF Spec

\* Every reachable state is well typed: in particular a client logs in only when it does
\* not believe to be logged in, also after a refusal (_request resets _logged_in first),
\* it sends only when it does, and no radio table is written that was not read.
THEOREM ClientTypeCorrect == Spec => []TypeOK
<1>1. IInv => TypeOK
  BY DEF IInv
<1> QED BY <1>1, IInvariance, PTL

\* set_radio returns normally only when the target radio is as asked for, and the
\* device it returns shows it.
THEOREM Applied == Spec => []AppliedIsSet
<1>1. IInv => AppliedIsSet
  BY DEF IInv
<1> QED BY <1>1, IInvariance, PTL

-----------------------------------------------------------------------------
\* Logins, refusals and the one repetition are invisible to the caller: the client
\* implements the three calls of an apply that the scheduler is modelled with.
THEOREM ClientRefinement == Spec => ImplementsApply
<1>1. Init => AC!Init
  <2> SUFFICES ASSUME Init
               PROVE  AC!Init
    OBVIOUS
  <2> QED BY ClientAssumption DEF Init, AC!Init, ApplySteps
<1>2. IInv /\ [Next]_vars => [AC!Next]_(AC!vars)
  <2> SUFFICES ASSUME IInv, [Next]_vars
               PROVE  AC!Next \/ UNCHANGED AC!vars
    OBVIOUS
  <2> USE DEF session, call, ApplySteps
  <2>t. TypeOK /\ ApplyInv
    BY DEF IInv
  <2>1. CASE GetCountryCode \/ EnsureLoggedIn \/ Restart
    BY <2>1 DEF GetCountryCode, EnsureLoggedIn, Restart, Start, AC!vars
  <2>2. CASE Apply
    BY <2>2 DEF Apply, Start, AC!Begin, AC!Next
  <2>3. CASE Login
    BY <2>3 DEF Login, LoggedIn, Return, AC!vars
  <2>4. CASE LoginFails
    BY <2>t, <2>4 DEF LoginFails, Return, TypeOK, Requests, AC!vars, AC!Next, AC!Fail,
                      AC!FindAp, AC!PutRadio, AC!Refetch
  <2>5. CASE AnswerCountry
    BY <2>5 DEF AnswerCountry, Return, AC!vars
  <2>6. CASE AnswerFind
    BY <2>6 DEF AnswerFind, Start, AC!FindAp, AC!Next
  <2>7. CASE AnswerPut
    BY <2>t, <2>7, NewTableType DEF AnswerPut, Start, AC!PutRadio, AC!Next
  <2>8. CASE AnswerRefetch
    BY <2>8 DEF AnswerRefetch, Return, AC!Refetch, AC!Next
  <2>9. CASE Refused
    BY <2>t, <2>9 DEF Refused, Return, TypeOK, Requests, AC!vars, AC!Next, AC!Fail,
                      AC!FindAp, AC!PutRadio, AC!Refetch
  <2>10. CASE Broken
    BY <2>t, <2>10, NewTableType DEF Broken, Return, TypeOK, Requests, AC!vars, AC!Next, AC!Fail,
                      AC!FindAp, AC!PutRadio, AC!Refetch
  <2>11. CASE Edit
    BY <2>t, <2>11 DEF Edit, TypeOK, AC!vars
  <2>12. CASE Expire \/ Rotate \/ Calm \/ UNCHANGED vars
    BY <2>12 DEF Expire, Rotate, Calm, vars, AC!vars
  <2> QED BY <2>1, <2>2, <2>3, <2>4, <2>5, <2>6, <2>7, <2>8, <2>9, <2>10, <2>11, <2>12
          DEF Next, ClientStep
<1> QED BY <1>1, <1>2, IInvariance, PTL DEF Spec, AC!Spec, ImplementsApply

-----------------------------------------------------------------------------
\* A change that another client makes to another radio is undone by a PUT that read
\* the table before it, and by nothing else (set_radio, unifi_client.py).
THEOREM OthersLostToEditsOnly == Spec => OthersOnlyLostToEdits
<1>1. ASSUME IInv, [Next]_vars, NEW r \in Radios \ {Target},
             step' # step, table'[r] # table[r]
      PROVE  step = "put" /\ table[r] # device[r] /\ table'[r] = device[r]
  <2> USE <1>1 DEF session, call
  <2>t. TypeOK
    BY DEF IInv
  <2>1. CASE AnswerPut \/ Broken
    BY <2>t, <2>1, NewTableType DEF AnswerPut, Broken
  <2>2. CASE GetCountryCode \/ EnsureLoggedIn \/ Apply \/ Restart \/ Login \/ LoginFails
    BY <2>2 DEF GetCountryCode, EnsureLoggedIn, Apply, Restart, Login, LoginFails
  <2>3. CASE AnswerCountry \/ AnswerFind \/ AnswerRefetch \/ Refused
    BY <2>3 DEF AnswerCountry, AnswerFind, AnswerRefetch, Refused
  <2>4. CASE Edit \/ Expire \/ Rotate \/ Calm \/ UNCHANGED vars
    BY <2>4 DEF Edit, Expire, Rotate, Calm, vars
  <2> QED BY <2>1, <2>2, <2>3, <2>4 DEF Next, ClientStep
<1>2. IInv /\ [Next]_vars =>
        [\A r \in Radios \ {Target} :
           step' # step /\ table'[r] # table[r] =>
             step = "put" /\ table[r] # device[r] /\ table'[r] = device[r]]_vars
  BY <1>1
<1> QED BY <1>2, IInvariance, PTL DEF Spec, OthersOnlyLostToEdits
=============================================================================
