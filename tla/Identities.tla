----------------------------- MODULE Identities -----------------------------
(***************************************************************************)
(* Who may act for whom: principals and the delegations between them       *)
(* (registry/identity_registry.py), and the lifecycle of machine accounts  *)
(* (registry/nhi_registry.py).  Each is a row of the models table, which   *)
(* a handler reads, changes and saves whole; also a read of a delegation   *)
(* saves it, when it finds that it has expired.  Each step of a handler    *)
(* makes one store call, and the table has fewer rows than list_models     *)
(* returns.                                                                *)
(*                                                                         *)
(* A scope is a set of pairs of an action and a resource, where "*" stands *)
(* for any.  The two components are specifications of their own here, over *)
(* the same variable of calls in progress.                                 *)
(***************************************************************************)
EXTENDS Integers, Sequences, FiniteSets

CONSTANTS Handlers, Principals, Delegations, Accounts,
          Terms,       \* what clients delegate: [delegator, delegate, scope, expires_at]
          Scopes,      \* the capabilities of a principal, the scopes of an account
          Requests,    \* what authority is verified for
          Absent, Never, Keep,
          MaxTime, MaxSaves    \* bounds on the clock and on saved rows

VARIABLES principals,   \* [Principals -> [capabilities, trust_level] or Absent]
          delegations,  \* [Delegations -> [terms, status] or Absent]
          accounts,     \* [Accounts -> [state, state_history, scopes] or Absent]
          now, call,    \* call[w] is the handler in progress, or what it answered last
          saves,
          written,      \* history: [row -> what a client wrote in it last]
          lost          \* history: rows that were saved over a row that was not read
registryVars == <<principals, delegations, accounts, saves, written, lost>>
vars == <<registryVars, now, call>>

Rows == Principals \cup Delegations \cup Accounts
Idle == [at |-> "idle"]
Free(w) == call[w].at \in {"idle", "answered"}

(* _VALID_TRANSITIONS                                                      *)
Transitions == [PENDING |-> {"ACTIVE", "REVOKED"}, ACTIVE |-> {"DORMANT", "DEPROVISIONING", "REVOKED"},
                DORMANT |-> {"ACTIVE", "DEPROVISIONING", "REVOKED"}, DEPROVISIONING |-> {"REVOKED"},
                REVOKED |-> {}]
States == DOMAIN Transitions

Principal == [capabilities : Scopes, trust_level : {"INTERNAL", "UNTRUSTED"}]
Delegation == [terms : Terms, status : {"ACTIVE", "EXPIRED", "REVOKED"}]
Account == [state : States, state_history : Seq(States), scopes : Scopes]
Granted == [terms : Terms, revoked : BOOLEAN]
Managed == [state : States, scopes : Scopes]

(* What the proofs, and every instance, take the constants to be.          *)
IdentitiesAssumption ==
    /\ Principals \cap Delegations = {} /\ Accounts \cap (Principals \cup Delegations) = {}
    /\ \A t \in Terms : t.delegator \in Principals /\ t.expires_at \in Nat \cup {Never}
    /\ Keep \notin Scopes /\ Absent \notin Scopes
    /\ Absent \notin Principal \cup Delegation \cup Account \cup Granted \cup Managed
    /\ MaxSaves \in Nat

Save(rows, record, fields) == [at : {"save"}, row : rows, read : record, new : record, wrote : fields]
Call == {Idle}
        \cup Save(Principals, Principal, Scopes \cup {Keep})
        \cup Save(Delegations, Delegation, [revoked : BOOLEAN])
        \cup Save(Accounts, Account, [state : States] \cup [scopes : Scopes])
        \cup [at : {"chain"}, principal : Principals, request : Requests, visited : SUBSET Principals,
              pending : SUBSET Principals, scope : SUBSET UNION {t.scope : t \in Terms},
              could : BOOLEAN, fresh : BOOLEAN]
        \cup [at : {"answered"}, answer : BOOLEAN, could : BOOLEAN, can : BOOLEAN, fresh : BOOLEAN]

TypeOK ==
    /\ principals \in [Principals -> Principal \cup {Absent}]
    /\ delegations \in [Delegations -> Delegation \cup {Absent}]
    /\ accounts \in [Accounts -> Account \cup {Absent}]
    /\ now \in Nat /\ saves \in 0..MaxSaves
    /\ call \in [Handlers -> Call]
    /\ DOMAIN written = Rows
    /\ \A p \in Principals : written[p] \in Scopes \cup {Absent}
    /\ \A d \in Delegations : written[d] \in Granted \cup {Absent}
    /\ \A n \in Accounts : written[n] \in Managed \cup {Absent}
    /\ lost \subseteq Rows
-----------------------------------------------------------------------------
Covers(scope, request) ==
    \E item \in scope : item[1] \in {"*", request[1]} /\ item[2] \in {"*", request[2]}
Expired(terms) == terms.expires_at # Never /\ now >= terms.expires_at
ActiveRegardless(d) ==      \* mutant: only the deadline is looked at
    delegations[d] # Absent /\ ~Expired(delegations[d].terms)
Active(d) == delegations[d] # Absent /\ delegations[d].status = "ACTIVE" /\ ~Expired(delegations[d].terms)

(* list_delegations(delegate_id=p, active_only=True)                       *)
DelegatedTo(p) == {d \in Delegations : Active(d) /\ delegations[d].terms.delegate = p}

(* Whom p acts for, itself included, by the delegations of this moment; p  *)
(* has the authority that a request needs, or somebody it acts for was     *)
(* given it.                                                               *)
ActsFor(p) ==
    {q \in Principals : \A S \in SUBSET Principals :
        (p \in S /\ \A s \in S, d \in Delegations :
            d \in DelegatedTo(s) => delegations[d].terms.delegator \in S) => q \in S}
HasAuthority(p, request) ==
    /\ principals[p] # Absent
    /\ \/ Covers(principals[p].capabilities, request)
       \/ \E q \in ActsFor(p) : \E d \in DelegatedTo(q) : Covers(delegations[d].terms.scope, request)
-----------------------------------------------------------------------------
(* A row is saved, and what a client wrote in it is noted.  Calls that     *)
(* verify an authority may have seen the row before.                       *)
Saved(row, value) ==
    /\ saves < MaxSaves /\ saves' = saves + 1
    /\ written' = [written EXCEPT ![row] = value]
Outdated(calls) ==
    [w \in Handlers |-> IF calls[w].at = "chain" THEN [calls[w] EXCEPT !.fresh = FALSE] ELSE calls[w]]

(* register_principal, whose read keeps registered_at only                 *)
RegisterPrincipal(w, p, scope) ==
    /\ Free(w) /\ principals' = [principals EXCEPT ![p] = [capabilities |-> scope, trust_level |-> "INTERNAL"]]
    /\ Saved(p, scope) /\ lost' = lost \ {p}
    /\ call' = Outdated([call EXCEPT ![w] = Idle])
    /\ UNCHANGED <<delegations, accounts, now>>

(* grant_delegation: whatever there was under this identifier              *)
GrantDelegation(w, d, terms) ==
    /\ Free(w) /\ delegations' = [delegations EXCEPT ![d] = [terms |-> terms, status |-> "ACTIVE"]]
    /\ Saved(d, [terms |-> terms, revoked |-> FALSE]) /\ lost' = lost \ {d}
    /\ call' = Outdated([call EXCEPT ![w] = Idle])
    /\ UNCHANGED <<principals, accounts, now>>

(* A handler that has read a row will save what it made of it.             *)
WillSave(w, row, read, new, wrote) ==
    /\ call' = [call EXCEPT ![w] = [at |-> "save", row |-> row, read |-> read, new |-> new, wrote |-> wrote]]
    /\ UNCHANGED <<registryVars, now>>

(* update_principal, of the capabilities or of the trust level             *)
UpdatePrincipal(w, p, scope) ==
    /\ Free(w) /\ principals[p] # Absent
    /\ LET read == principals[p]
       IN WillSave(w, p, read, IF scope = Keep THEN [read EXCEPT !.trust_level = "UNTRUSTED"]
                               ELSE [read EXCEPT !.capabilities = scope], scope)

(* get_delegation, on its own or in revoke_delegation: a delegation that   *)
(* is past its deadline is marked, and is not revoked any more.            *)
ReadDelegationWhole(w, d, revoke) ==    \* mutant: a read always saves what it has read
    /\ Free(w) /\ delegations[d] # Absent
    /\ LET read == delegations[d]
       IN WillSave(w, d, read, [read EXCEPT !.status = IF revoke THEN "REVOKED" ELSE @], [revoked |-> revoke])
ReadDelegation(w, d, revoke) ==
    /\ Free(w) /\ delegations[d] # Absent /\ delegations[d].status = "ACTIVE"
    /\ LET read == delegations[d]
       IN IF Expired(read.terms)
          THEN WillSave(w, d, read, [read EXCEPT !.status = "EXPIRED"], [revoked |-> FALSE])
          ELSE /\ revoke
               /\ WillSave(w, d, read, [read EXCEPT !.status = "REVOKED"], [revoked |-> TRUE])

SavePrincipal(w) ==
    LET c == call[w] IN
    /\ c.at = "save" /\ c.row \in Principals
    /\ principals' = [principals EXCEPT ![c.row] = c.new]
    /\ Saved(c.row, IF c.wrote = Keep THEN written[c.row] ELSE c.wrote)
    /\ lost' = IF principals[c.row] = c.read THEN lost ELSE lost \cup {c.row}
    /\ call' = IF principals[c.row].capabilities = c.new.capabilities THEN [call EXCEPT ![w] = Idle]
               ELSE Outdated([call EXCEPT ![w] = Idle])
    /\ UNCHANGED <<delegations, accounts, now>>

SaveDelegation(w) ==
    LET c == call[w] IN
    /\ c.at = "save" /\ c.row \in Delegations
    /\ delegations' = [delegations EXCEPT ![c.row] = c.new]
    /\ Saved(c.row, [written[c.row] EXCEPT !.revoked = @ \/ c.wrote.revoked])
    /\ lost' = IF delegations[c.row] = c.read THEN lost ELSE lost \cup {c.row}
    /\ call' = [call EXCEPT ![w] = Idle]
    /\ UNCHANGED <<principals, accounts, now>>
-----------------------------------------------------------------------------
Answer(w, p, request, answer, could, fresh) ==
    call' = [call EXCEPT ![w] = [at |-> "answered", answer |-> answer, could |-> could,
                                 can |-> HasAuthority(p, request), fresh |-> fresh]]

(* verify_authority: the principal's own capabilities come first           *)
VerifyAuthority(w, p, request) ==
    /\ Free(w)
    /\ IF principals[p] = Absent \/ Covers(principals[p].capabilities, request)
       THEN Answer(w, p, request, principals[p] # Absent, HasAuthority(p, request), TRUE)
       ELSE call' = [call EXCEPT ![w] =
                [at |-> "chain", principal |-> p, request |-> request, visited |-> {}, pending |-> {p},
                 scope |-> {}, could |-> HasAuthority(p, request), fresh |-> TRUE]]
    /\ UNCHANGED <<registryVars, now>>

(* get_authority_chain: it asks for the delegations of one principal after *)
(* the other and follows each to its delegator, once.                      *)
FollowDirect(w, q) ==       \* mutant: the delegators are not followed further
    LET c == call[w]
        direct == DelegatedTo(q)
    IN [c EXCEPT !.visited = @ \cup {q}, !.pending = {},
                 !.scope = @ \cup UNION {delegations[d].terms.scope : d \in direct}]
Follow(w, q) ==
    LET c == call[w]
        direct == DelegatedTo(q)
        delegators == {delegations[d].terms.delegator : d \in direct}
    IN [c EXCEPT !.visited = @ \cup {q}, !.pending = (@ \cup delegators) \ (c.visited \cup {q}),
                 !.scope = @ \cup UNION {delegations[d].terms.scope : d \in direct}]
WalkChain(w, q) ==
    /\ call[w].at = "chain" /\ q \in call[w].pending
    /\ LET c == Follow(w, q)
       IN IF c.pending # {} THEN call' = [call EXCEPT ![w] = c]
          ELSE Answer(w, c.principal, c.request, Covers(c.scope, c.request), c.could, c.fresh)
    /\ UNCHANGED <<registryVars, now>>

Tick == now < MaxTime /\ now' = now + 1 /\ UNCHANGED <<registryVars, call>>
-----------------------------------------------------------------------------
(* register_nhi: whatever there was under this identifier                  *)
RegisterAccount(w, n, scope) ==
    /\ Free(w) /\ accounts' = [accounts EXCEPT ![n] =
           [state |-> "PENDING", state_history |-> <<"PENDING">>, scopes |-> scope]]
    /\ Saved(n, [state |-> "PENDING", scopes |-> scope]) /\ lost' = lost \ {n}
    /\ call' = [call EXCEPT ![w] = Idle]
    /\ UNCHANGED <<principals, delegations, now>>

(* update_nhi_state                                                        *)
UpdateStateAnyway(w, n, state) ==       \* mutant: the state that is left is not looked at
    /\ Free(w) /\ accounts[n] # Absent /\ state # accounts[n].state
    /\ LET read == accounts[n]
       IN WillSave(w, n, read, [read EXCEPT !.state = state, !.state_history = Append(@, state)], [state |-> state])
UpdateState(w, n, state) ==
    /\ Free(w) /\ accounts[n] # Absent /\ state \in Transitions[accounts[n].state]
    /\ LET read == accounts[n]
       IN WillSave(w, n, read, [read EXCEPT !.state = state, !.state_history = Append(@, state)], [state |-> state])

(* update_nhi, of the granted scopes                                       *)
UpdateAccount(w, n, scope) ==
    /\ Free(w) /\ accounts[n] # Absent
    /\ WillSave(w, n, accounts[n], [accounts[n] EXCEPT !.scopes = scope], [scopes |-> scope])

SaveAccount(w) ==
    LET c == call[w] IN
    /\ c.at = "save" /\ c.row \in Accounts
    /\ accounts' = [accounts EXCEPT ![c.row] = c.new]
    /\ Saved(c.row, [f \in {"state", "scopes"} |-> IF f \in DOMAIN c.wrote THEN c.wrote[f] ELSE written[c.row][f]])
    /\ lost' = IF accounts[c.row] = c.read THEN lost ELSE lost \cup {c.row}
    /\ call' = [call EXCEPT ![w] = Idle]
    /\ UNCHANGED <<principals, delegations, now>>
-----------------------------------------------------------------------------
Init == /\ principals = [p \in Principals |-> Absent]
        /\ delegations = [d \in Delegations |-> Absent]
        /\ accounts = [n \in Accounts |-> Absent]
        /\ now = 0 /\ call = [w \in Handlers |-> Idle] /\ saves = 0
        /\ written = [row \in Rows |-> Absent] /\ lost = {}

AuthorityNext ==
    \/ Tick
    \/ \E w \in Handlers :
          \/ SavePrincipal(w) \/ SaveDelegation(w)
          \/ \E p \in Principals : \/ WalkChain(w, p)
                                   \/ \E scope \in Scopes : RegisterPrincipal(w, p, scope)
                                   \/ \E scope \in Scopes \cup {Keep} : UpdatePrincipal(w, p, scope)
                                   \/ \E request \in Requests : VerifyAuthority(w, p, request)
          \/ \E d \in Delegations : \/ \E terms \in Terms : GrantDelegation(w, d, terms)
                                    \/ \E revoke \in BOOLEAN : ReadDelegation(w, d, revoke)

AccountsNext ==
    \E w \in Handlers :
       \/ SaveAccount(w)
       \/ \E n \in Accounts :
             \/ \E scope \in Scopes : RegisterAccount(w, n, scope) \/ UpdateAccount(w, n, scope)
             \/ \E state \in States : UpdateState(w, n, state)

(* The two registries side by side.                                        *)
Next == AuthorityNext \/ AccountsNext
Spec == Init /\ [][Next]_vars
-----------------------------------------------------------------------------
(* An authority that is confirmed existed when it was asked for, and one   *)
(* that is refused does not exist when it is, with any chain and cycle of  *)
(* delegations, revoked and expiring ones included, unless somebody was    *)
(* given something while the chain was walked.                             *)
AuthorityIsTrue ==
    \A w \in Handlers : call[w].at = "answered" /\ call[w].fresh =>
        (call[w].answer => call[w].could) /\ (call[w].can => call[w].answer)

(* A delegation that was revoked is not active again until it is granted   *)
(* again, whoever reads and saves it meanwhile; one that was granted is as *)
(* it was granted, and ends by its deadline or by its revocation, unless   *)
(* a handler saved it as it had read it before.                            *)
DelegationsStand ==
    \A d \in Delegations : delegations[d] # Absent =>
        LET status == delegations[d].status IN
        /\ written[d].revoked => ~Active(d)
        /\ status = "EXPIRED" => Expired(delegations[d].terms)
        /\ d \notin lost => /\ delegations[d].terms = written[d].terms
                            /\ (status = "REVOKED") = written[d].revoked

(* What was written last of a principal or of an account is what is        *)
(* stored, a revocation included, unless an overlapping save lost it; and  *)
(* the history of an account is a legal life that led to its state.        *)
IdentitiesStand ==
    /\ \A p \in Principals \ lost : principals[p] # Absent => principals[p].capabilities = written[p]
    /\ \A n \in Accounts : accounts[n] # Absent =>
          LET past == accounts[n].state_history IN
          /\ past[1] = "PENDING" /\ past[Len(past)] = accounts[n].state
          /\ \A i \in 1..Len(past) - 1 : past[i + 1] \in Transitions[past[i]]
          /\ n \notin lost => /\ accounts[n].state = written[n].state
                              /\ accounts[n].scopes = written[n].scopes
=============================================================================
