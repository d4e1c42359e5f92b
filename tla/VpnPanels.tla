------------------------------ MODULE VpnPanels -----------------------------
(***************************************************************************)
(* The VPN panels: the rows of vpn_panels an administrator keeps           *)
(* (vpn_panel_service.py) and the accounts on the panels themselves, which *)
(* are reached over HTTP (providers/vpn/marzban.py, sanaei.py).            *)
(*                                                                         *)
(* A call to a panel and its answer are one action, because nothing of the *)
(* bot is locked while it runs.  What the bot does not know is modelled by *)
(* the pair (effect, answer): a call may have taken effect although its    *)
(* answer is an error, when the connection broke after the panel served    *)
(* the request, or when the second request of a Sanaei operation, which    *)
(* reads the account back, failed.                                         *)
(***************************************************************************)
EXTENDS Integers

CONSTANTS
    Panels,         \* vpn_panels rows that may ever exist
    Accounts,       \* remote user names
    MaxAttempts     \* 1 + len(RETRY_DELAYS_SECONDS); 4 in the code

ASSUME PanelsAssumption == MaxAttempts \in Nat \ {0}

VARIABLES
    panel,          \* the row of a panel: "absent", its status, or "deleted"
    remote          \* remote[q][a]: when account a expires on panel q, 0 if there is none

panelVars == <<panel, remote>>

PanelStatuses == {"absent", "ACTIVE", "DISABLED", "deleted"}

\* "ok"; "down": an error with retryable = True (connection, 5xx, an unreadable answer);
\* "refused": one without (credentials, validation, not found).
Answers == {"ok", "down", "refused"}

\* A call that leaves account a of panel q expiring at e, and its answer.
Call(q, a, e, answer) ==
    \/ remote' = [remote EXCEPT ![q][a] = e]
    \/ answer # "ok" /\ UNCHANGED remote

\* Mutant of CreateUser: an account that exists already is taken for the one asked for.
CreateOrAdopt(q, a, e, answer) ==
    IF remote[q][a] # 0
    THEN UNCHANGED remote
    ELSE Call(q, a, e, answer)

\* A panel does not create an account twice (HTTP 409, or success = false).
CreateUser(q, a, e, answer) ==
    IF remote[q][a] # 0
    THEN answer # "ok" /\ UNCHANGED remote
    ELSE Call(q, a, e, answer)

ModifyUser(q, a, e, answer) ==
    IF remote[q][a] = 0
    THEN answer # "ok" /\ UNCHANGED remote
    ELSE Call(q, a, e, answer)

\* Mutant of Attempt: the attempts are not counted.
SameAttempt(n) == n

\* The number of the call that is made after n calls.
Attempt(n) == n + 1

\* Mutant of TryAgain: one attempt too many.
TryOneMore(n, answer) == answer = "down" /\ Attempt(n) <= MaxAttempts

\* The call made after n others had this answer: retry_provider_call makes another one.
TryAgain(n, answer) == answer = "down" /\ Attempt(n) < MaxAttempts

-----------------------------------------------------------------------------
CreatePanel(q) ==
    /\ panel[q] = "absent"
    /\ panel' = [panel EXCEPT ![q] = "ACTIVE"]
    /\ UNCHANGED remote

ToggleStatus(q) ==
    /\ panel[q] \in {"ACTIVE", "DISABLED"}
    /\ panel' = [panel EXCEPT ![q] = IF @ = "ACTIVE" THEN "DISABLED" ELSE "ACTIVE"]
    /\ UNCHANGED remote

\* delete() and the foreign key of vpn_services.panel_id: whatever was read before, the
\* row goes only while no service refers to it.
DeletePanel(q, inUse) ==
    /\ panel[q] \in {"ACTIVE", "DISABLED"}
    /\ ~inUse
    /\ panel' = [panel EXCEPT ![q] = "deleted"]
    /\ UNCHANGED remote
=============================================================================
