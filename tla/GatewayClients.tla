--------------------------- MODULE GatewayClients ---------------------------
(***************************************************************************)
(* Clients of the gateway's read routes: one that walks a list of the      *)
(* explorer, or some that follow their withdrawals.  The two share no      *)
(* state, so a behaviour is about one of them.                             *)
(***************************************************************************)
EXTENDS ExplorerPages, WithdrawalClaims

VARIABLE visit      \* what the behaviour is about: "pages" or "claims"

vars == <<visit, pageVars, claimVars>>

Init ==
    /\ PagesInit /\ ClaimsInit
    /\ \/ visit = "pages" /\ clientele = CHOOSE who \in Clienteles : TRUE
       \/ visit = "claims" /\ list = CHOOSE l \in Lists : TRUE

Walks(step) == visit = "pages" /\ step /\ UNCHANGED <<visit, claimVars>>

Claims(step) == visit = "claims" /\ step /\ UNCHANGED <<visit, pageVars>>

Next == Walks(PagesNext) \/ Claims(ClaimsNext)

Spec == Init /\ [][Next]_vars

\* Slots pass, the gateway stores what it finds settled, and each client keeps
\* asking.  Nothing is assumed of the sequencer, the admin or strangers.
FairSpec ==
    /\ Spec
    /\ WF_vars(Claims(NextSlot /\ UNCHANGED clientele))
    /\ WF_vars(Claims(StoreApplied /\ UNCHANGED clientele))
    /\ WF_vars(Claims(RecoverBatch /\ UNCHANGED clientele))
    /\ \A c \in UNION {DOMAIN who.client : who \in Clienteles} :
         WF_vars(c \in Clients /\ Claims(Step(c) /\ UNCHANGED clientele))

=============================================================================
