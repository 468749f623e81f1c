----------------------------- MODULE APIErrors -----------------------------
(***************************************************************************)
(* internal/nubulus/errors.go: what the controllers make of a failed call. *)
(* An error is a request that was never answered ("transport"), an answer  *)
(* with a 4xx or 5xx status ("api") or anything else ("other").  The code  *)
(* is the envelope's, and empty when something in front of the API         *)
(* answered.                                                               *)
(***************************************************************************)
EXTENDS Naturals

NoCode == ""

\* Codes that nothing but an edit, another credential or another account lifts.
PermanentCodes == {"NO_ACCOUNT_ROLE", "NO_ACCOUNT", "INVALID_INPUT", "HOSTNAME_CONFLICT"}

\* Codes that lift on their own.
PassingCodes == {"QUOTA_EXCEEDED", "TUNNEL_INACTIVE"}

APIError == [kind : {"api"}, status : {400, 401, 403, 404, 409, 429, 500},
             code : PermanentCodes \cup PassingCodes \cup {NoCode, "NOT_FOUND", "INTERNAL"}]

Error == APIError \cup [kind : {"transport", "other"}, status : {0}, code : {NoCode}]

\* IsNotFound looks at the status and never at the code.
IsNotFound(e) == e.kind = "api" /\ e.status = 404

\* Failure.Permanent: retrying the identical request cannot succeed.  A code
\* decides before the status does, and a bare 401 or 403 was answered by
\* something in front of the API.
Classify(e) ==
    /\ e.kind = "api"
    /\ \/ e.code \in PermanentCodes
       \/ /\ e.code \notin PassingCodes
          /\ e.status \in {401, 403} => e.code # NoCode
          /\ e.status # 429
          /\ e.status < 500

\* The verdicts a call can meet when it is refused or not answered.
Verdicts == {Classify(e) : e \in {f \in Error : ~IsNotFound(f)}}

\* The API's own answer about a resource it does not have.
NotFoundError == [kind |-> "api", status |-> 404, code |-> "NOT_FOUND"]
=============================================================================
