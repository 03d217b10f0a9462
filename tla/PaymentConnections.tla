------------------------ MODULE PaymentConnections -------------------------
(***************************************************************************)
(* PaymentConnectionService and its repository.                            *)
(*                                                                         *)
(* Verification and health checks await the provider and then write the    *)
(* outcome whatever has happened to the connection meanwhile.              *)
(***************************************************************************)
EXTENDS Naturals, Sequences

CONSTANTS Tenants, Providers,
          Checks     \* the verifications and health checks in flight at once

VARIABLES
  conns,     \* PaymentConnectionRecords in creation order
  checks,    \* the calls that await a provider
  vouched,   \* history: connections whose latest applied check succeeded
  retired    \* history: deactivated by an admin, not verified again since

connVars == <<conns, checks, vouched, retired>>

Status == {"inactive", "verifying", "active", "suspended"}

Transitions ==
  [inactive  |-> {"verifying"},
   verifying |-> {"active", "inactive"},
   active    |-> {"suspended", "verifying"},
   suspended |-> {"verifying", "inactive"}]

Connection == [tenant: Tenants, provider: Providers, status: Status]

IdleCheck == [kind |-> "none"]
Check     == [kind: {"verify", "health"}, conn: Nat, answer: {"none", "ok", "bad"}]

ConnTypeOK ==
  /\ conns \in Seq(Connection)
  /\ checks \in [Checks -> Check \cup {IdleCheck}]
  /\ \A k \in Checks : checks[k] \in Check => checks[k].conn \in DOMAIN conns
  /\ vouched \subseteq DOMAIN conns /\ retired \subseteq DOMAIN conns
  /\ \A i, j \in DOMAIN conns :
       conns[i].tenant = conns[j].tenant /\ conns[i].provider = conns[j].provider
         => i = j

ConnInit ==
  /\ conns = << >>
  /\ checks = [k \in Checks |-> IdleCheck]
  /\ vouched = {} /\ retired = {}

-----------------------------------------------------------------------------
CreateConnection(t, p) ==
  /\ \A i \in DOMAIN conns : conns[i].tenant # t \/ conns[i].provider # p
  /\ conns' = Append(conns, [tenant |-> t, provider |-> p, status |-> "inactive"])
  /\ UNCHANGED <<checks, vouched, retired>>

VerifyConnection(k, i) ==
  /\ checks[k] = IdleCheck
  /\ "verifying" \in Transitions[conns[i].status]
  /\ conns' = [conns EXCEPT ![i].status = "verifying"]
  /\ checks' = [checks EXCEPT ![k] = [kind |-> "verify", conn |-> i, answer |-> "none"]]
  /\ retired' = retired \ {i}
  /\ UNCHANGED vouched

CheckConnectionHealth(k, i) ==
  /\ checks[k] = IdleCheck
  /\ conns[i].status = "active"
  /\ checks' = [checks EXCEPT ![k] = [kind |-> "health", conn |-> i, answer |-> "none"]]
  /\ UNCHANGED <<conns, vouched, retired>>

(* The provider's adapter resolves.                                        *)
ProviderAnswers(k, answer) ==
  /\ checks[k] # IdleCheck /\ checks[k].answer = "none"
  /\ checks' = [checks EXCEPT ![k].answer = answer]
  /\ UNCHANGED <<conns, vouched, retired>>

(* Mutant: the outcome of a check is not looked at.                        *)
Outcome_AlwaysActive(check) == "active"

(* Mutant: a failed verification leaves the status it found.               *)
Outcome_StaysVerifying(check) ==
  IF check.answer = "ok" THEN "active"
  ELSE IF check.kind = "verify" THEN "verifying" ELSE "suspended"

Outcome(check) ==
  IF check.answer = "ok" THEN "active"
  ELSE IF check.kind = "verify" THEN "inactive" ELSE "suspended"

CheckReturns(k) ==
  LET check == checks[k]  i == check.conn IN
  /\ checks[k] # IdleCheck /\ check.answer # "none"
  /\ conns' = [conns EXCEPT ![i].status = Outcome(check)]
  /\ vouched' = IF check.answer = "ok" THEN vouched \cup {i} ELSE vouched \ {i}
  /\ checks' = [checks EXCEPT ![k] = IdleCheck]
  /\ UNCHANGED retired

DeactivateConnection(i) ==
  /\ conns[i].status # "inactive"
  /\ conns' = [conns EXCEPT ![i].status = "inactive"]
  /\ retired' = retired \cup {i}
  /\ UNCHANGED <<checks, vouched>>

ConnNext ==
  \/ \E t \in Tenants, p \in Providers : CreateConnection(t, p)
  \/ \E k \in Checks, i \in DOMAIN conns :
       VerifyConnection(k, i) \/ CheckConnectionHealth(k, i)
  \/ \E k \in Checks : \/ \E a \in {"ok", "bad"} : ProviderAnswers(k, a)
                       \/ CheckReturns(k)
  \/ \E i \in DOMAIN conns : DeactivateConnection(i)

ConnSpec == ConnInit /\ [][ConnNext]_connVars

(* Adapters resolve and awaiting calls are resumed.                        *)
FairConns ==
  \A k \in Checks : /\ WF_connVars(\E a \in {"ok", "bad"} : ProviderAnswers(k, a))
                    /\ WF_connVars(CheckReturns(k))

-----------------------------------------------------------------------------
(* Properties.                                                             *)

(* A connection takes payments only after a provider check that succeeded,
   and no later check that was applied to it failed: however verifications,
   health checks and deactivations overlap, "active" is backed by the most
   recent verdict.                                                         *)
ActiveIsVouchedFor == \A i \in DOMAIN conns : conns[i].status = "active" => i \in vouched

(* While a connection says "verifying", somebody is still waiting for the
   provider's answer, however verifications, health checks and deactivations
   of it overlap: the status is never left behind.                         *)
VerifyingIsUnderWay ==
  \A i \in DOMAIN conns :
    conns[i].status = "verifying" =>
      \E k \in Checks : checks[k] # IdleCheck /\ checks[k].conn = i
                        /\ checks[k].kind = "verify"

IsVerifying(i, t, p) ==
  conns[i].tenant = t /\ conns[i].provider = p /\ conns[i].status = "verifying"

(* A connection does not stay in verification for ever, although nothing but
   an answer or an admin takes it out of there.                            *)
VerificationEnds ==
  \A t \in Tenants, p \in Providers :
    (\E i \in DOMAIN conns : IsVerifying(i, t, p))
      ~> (\A i \in DOMAIN conns : ~IsVerifying(i, t, p))

(* "Deactivates a payment connection. Sets status to inactive." - and until
   somebody verifies it again it is not put to use.                        *)
DeactivationHolds == \A i \in retired : conns[i].status = "inactive"
=============================================================================
