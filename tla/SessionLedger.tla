--------------------------- MODULE SessionLedger ---------------------------
(***************************************************************************)
(* What the session subsystem promises, with no requests, no clock and no  *)
(* SQL: sessions are opened for a user and closed for good, tokens are     *)
(* stored in the chain of one session and spent for good, and one step     *)
(* touches the sessions of one user or the tokens of one session.          *)
(***************************************************************************)
EXTENDS Naturals, Sequences

CONSTANT Users

VARIABLES
  owner,     \* users of the sessions opened so far, in the order of opening
  open,      \* sessions (positions in owner) that were not closed
  chain,     \* token -> session, for every token ever stored
  spent      \* tokens that were rotated out or revoked

ledger == <<owner, open, chain, spent>>

LedgerInit ==
  /\ owner = << >>
  /\ open = {}
  /\ chain = [t \in {} |-> 0]
  /\ spent = {}

Open(u) ==
  /\ owner' = Append(owner, u)
  /\ open' = open \cup {Len(owner) + 1}
  /\ UNCHANGED <<chain, spent>>

Close(u) ==
  /\ open' \subseteq open
  /\ \A s \in open \ open' : owner[s] = u
  /\ UNCHANGED <<owner, chain, spent>>

\* The new tokens are whatever chain' adds: a token is never stored twice.
Store(s) ==
  \E t \in DOMAIN chain' \ DOMAIN chain :
    /\ chain' = [r \in DOMAIN chain \cup {t} |-> IF r = t THEN s ELSE chain[r]]
    /\ UNCHANGED <<owner, open, spent>>

Spend(s) ==
  /\ spent \subseteq spent'
  /\ \A t \in spent' \ spent : t \in DOMAIN chain /\ chain[t] = s
  /\ UNCHANGED <<owner, open, chain>>

LedgerNext == \/ \E u \in Users : Open(u) \/ Close(u)
              \/ \E s \in DOMAIN owner : Store(s) \/ Spend(s)

LedgerSpec == LedgerInit /\ [][LedgerNext]_ledger
=============================================================================
