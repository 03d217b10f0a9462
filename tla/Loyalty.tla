------------------------------ MODULE Loyalty -------------------------------
(***************************************************************************)
(* LoyaltyService and LoyaltyRepository: a program per tenant, an account  *)
(* per customer, and one ledger of everything that moved points.           *)
(*                                                                         *)
(* No call is interrupted.  An account that does not exist yet is the same *)
(* as an empty one.  A call that is refused after it has looked the        *)
(* program up leaves the default program behind, as getConfig does.        *)
(***************************************************************************)
EXTENDS Tenancy, Integers, Sequences, FiniteSetsExt, Functions

CONSTANTS
  Programs,      \* the programs an administrator may ask for
  Totals,        \* order totals, in cents
  Redemptions,   \* numbers of points customers ask to redeem
  Adjustments,   \* numbers of points administrators add or take
  Never,         \* the expiration date of points that do not expire
  MaxDay,        \* bound: the clock stops here
  MaxLedger      \* bound: ledger entries

Tiers == {"bronze", "silver", "gold", "platinum"}

(* LoyaltyProgramConfig *)
Program ==
  [enabled: BOOLEAN, tiers: Seq([name: Tiers, threshold: Int]),
   mode: {"per_dollar", "per_order"}, perDollar: Int, perOrder: Int, minimum: Int,
   policy: {"time_based", "rolling", "never"}, days: Int]

ASSUME LoyaltyAssumption ==
  /\ Programs \subseteq Program
  /\ MaxDay \in Nat /\ MaxLedger \in Nat /\ Never \notin Int
  /\ Totals \subseteq Int /\ Redemptions \subseteq Int /\ Adjustments \subseteq Int

VARIABLES
  configs,    \* the tenants that have a program, each with its program
  accounts,   \* balance, lifetime points and tier of each customer
  ledger,     \* the ledger entries, in the order they were written
  day         \* the clock

loyaltyVars == <<configs, accounts, ledger, day>>

Account == Tenants \X Customers

(* DEFAULT_LOYALTY_PROGRAM_CONFIG *)
DefaultProgram ==
  [enabled |-> FALSE,
   tiers |-> << [name |-> "bronze", threshold |-> 0],
                [name |-> "silver", threshold |-> 500],
                [name |-> "gold", threshold |-> 2000],
                [name |-> "platinum", threshold |-> 5000] >>,
   mode |-> "per_dollar", perDollar |-> 1, perOrder |-> 10,
   minimum |-> 100, policy |-> "rolling", days |-> 365]

Empty == [balance |-> 0, lifetime |-> 0, tier |-> "bronze"]

Entry == [account: Account, type: {"earn", "redeem", "expire", "adjust"},
          points: Int, balanceAfter: Int, expires: Int \cup {Never}]

LoyaltyTypeOK ==
  /\ DOMAIN configs \subseteq Tenants
  /\ \A t \in DOMAIN configs : configs[t] \in Programs \cup {DefaultProgram}
  /\ accounts \in [Account -> [balance: Nat, lifetime: Nat, tier: Tiers]]
  /\ ledger \in Seq(Entry)
  /\ day \in Nat

LoyaltyInit ==
  /\ configs = << >>
  /\ accounts = [a \in Account |-> Empty]
  /\ ledger = << >>
  /\ day = 0

-----------------------------------------------------------------------------
(* The program.                                                            *)

(* validateLoyaltyProgramConfig; the rate of redemption, on which only the
   discount depends, is left out.                                          *)
ValidProgram(p) ==
  /\ p.tiers # << >> /\ p.tiers[1].threshold = 0
  /\ \A i \in 2..Len(p.tiers) : p.tiers[i].threshold > p.tiers[i - 1].threshold
  /\ p.perDollar >= 0 /\ p.perOrder >= 0 /\ p.minimum >= 0 /\ p.days >= 0

ProgramOf(t) == IF t \in DOMAIN configs THEN configs[t] ELSE DefaultProgram

(* getOrCreateConfig *)
KeepProgram(t) == configs' = [u \in DOMAIN configs \cup {t} |-> ProgramOf(u)]

(* getConfig, and every call that is refused once it has the program.      *)
GetConfig(t) ==
  /\ KeepProgram(t)
  /\ UNCHANGED <<accounts, ledger, day>>

(* A program without tiers of its own takes the default's, unvalidated.    *)
CreateConfig(t, p) ==
  /\ t \notin DOMAIN configs
  /\ ValidProgram(p) \/ p.tiers = DefaultProgram.tiers
  /\ configs' = [u \in DOMAIN configs \cup {t} |-> IF u = t THEN p ELSE configs[u]]
  /\ UNCHANGED <<accounts, ledger, day>>

(* An update that leaves the tiers alone is not validated either.          *)
UpdateConfig(t, p) ==
  /\ t \in DOMAIN configs
  /\ ValidProgram(p) \/ p.tiers = configs[t].tiers
  /\ configs' = [configs EXCEPT ![t] = p]
  /\ UNCHANGED <<accounts, ledger, day>>

-----------------------------------------------------------------------------
(* Points.                                                                 *)

(* calculatePointsForOrder *)
PointsForOrder(cents, p) ==
  CASE cents <= 0              -> 0
    [] p.mode = "per_dollar"   -> (cents \div 100) * p.perDollar
    [] OTHER                   -> p.perOrder

(* computeLoyaltyTier: the last tier of the list whose threshold is met.   *)
TierFor(lifetime, tiers) ==
  LET met == {i \in DOMAIN tiers : lifetime >= tiers[i].threshold}
  IN  IF met = {} THEN "bronze" ELSE tiers[Max(met)].name

EntryFor(a, type, points, expires) ==
  [account |-> a, type |-> type, points |-> points,
   balanceAfter |-> accounts[a].balance + points, expires |-> expires]

(* Mutant: points taken by an adjustment are taken from the lifetime, too. *)
Credit_LowersLifetime(a, points) ==
  LET lifetime == accounts[a].lifetime + points
  IN  accounts' = [accounts EXCEPT ![a] =
        [balance |-> @.balance + points, lifetime |-> lifetime,
         tier |-> TierFor(lifetime, ProgramOf(a[1]).tiers)]]

(* Points are awarded: balance, lifetime points, tier.                     *)
Credit(a, points) ==
  LET lifetime == accounts[a].lifetime + Max({points, 0})
  IN  accounts' = [accounts EXCEPT ![a] =
        [balance |-> @.balance + points, lifetime |-> lifetime,
         tier |-> TierFor(lifetime, ProgramOf(a[1]).tiers)]]

AccumulatePoints(a, cents) ==
  LET program == ProgramOf(a[1])
      points  == PointsForOrder(cents, program)
      expires == IF program.policy = "never" THEN Never ELSE day + program.days
  IN  /\ Len(ledger) < MaxLedger
      /\ program.enabled
      /\ points > 0
      /\ Credit(a, points)
      /\ ledger' = Append(ledger, EntryFor(a, "earn", points, expires))
      /\ KeepProgram(a[1])
      /\ UNCHANGED day

(* Mutant: the balance is not looked at.                                   *)
RedeemPoints_Unchecked(a, points) ==
  LET program == ProgramOf(a[1])
  IN  /\ Len(ledger) < MaxLedger
      /\ program.enabled
      /\ points > 0 /\ points >= program.minimum
      /\ accounts' = [accounts EXCEPT ![a].balance = @ - points]
      /\ ledger' = Append(ledger, EntryFor(a, "redeem", -points, Never))
      /\ KeepProgram(a[1])
      /\ UNCHANGED day

RedeemPoints(a, points) ==
  LET program == ProgramOf(a[1])
  IN  /\ Len(ledger) < MaxLedger
      /\ program.enabled
      /\ points > 0 /\ points >= program.minimum
      /\ accounts[a].balance >= points
      /\ accounts' = [accounts EXCEPT ![a].balance = @ - points]
      /\ ledger' = Append(ledger, EntryFor(a, "redeem", -points, Never))
      /\ KeepProgram(a[1])
      /\ UNCHANGED day

AdjustPoints(a, points) ==
  /\ Len(ledger) < MaxLedger
  /\ points # 0
  /\ accounts[a].balance + points >= 0
  /\ Credit(a, points)
  /\ ledger' = Append(ledger, EntryFor(a, "adjust", points, Never))
  /\ KeepProgram(a[1])
  /\ UNCHANGED day

-----------------------------------------------------------------------------
(* Expiration.                                                             *)

(* getExpirableEntries: all the earned points whose day has come, those of
   earlier expirations included.                                           *)
Expirable(a) ==
  {i \in DOMAIN ledger : /\ ledger[i].account = a /\ ledger[i].type = "earn"
                         /\ ledger[i].expires # Never
                         /\ ledger[i].expires <= day}

(* The points of some of the ledger's entries. *)
PointsOf(is) == SumFunctionOnSet([i \in DOMAIN ledger |-> ledger[i].points], is)

PointsToExpire(a) == PointsOf(Expirable(a))

BalanceLeft(a) == Max({accounts[a].balance - PointsToExpire(a), 0})

(* Mutant: the entry records the balance before it is cut off at zero.     *)
ExpireEntry_Uncut(a) == EntryFor(a, "expire", -PointsToExpire(a), Never)

ExpireEntry(a) ==
  [EntryFor(a, "expire", -PointsToExpire(a), Never) EXCEPT
     !.balanceAfter = BalanceLeft(a)]

(* The points of some accounts expire, one account after the other.  Earned
   points are positive, so there is always something to record.            *)
Expire(order) ==
  /\ Len(ledger) + Len(order) <= MaxLedger
  /\ accounts' = [a \in Account |->
       IF \E k \in DOMAIN order : order[k] = a
       THEN [accounts[a] EXCEPT !.balance = BalanceLeft(a)] ELSE accounts[a]]
  /\ ledger' = ledger \o [k \in DOMAIN order |-> ExpireEntry(order[k])]
  /\ UNCHANGED <<configs, day>>

ExpirePointsForCustomer(a) == Expirable(a) # {} /\ Expire(<<a>>)

(* The batch takes the accounts in the order of their first such entry.    *)
RunExpirationBatch ==
  LET due == {a \in Account : Expirable(a) # {}}
  IN  \E order \in [1..Cardinality(due) -> due] :
        /\ due # {}
        /\ \A j, k \in DOMAIN order :
             j < k => Min(Expirable(order[j])) < Min(Expirable(order[k]))
        /\ Expire(order)

NextDay ==
  /\ day < MaxDay
  /\ day' = day + 1
  /\ UNCHANGED <<configs, accounts, ledger>>

LoyaltyNext ==
  \/ \E t \in Tenants :
       \/ GetConfig(t)
       \/ \E p \in Programs : CreateConfig(t, p) \/ UpdateConfig(t, p)
  \/ \E a \in Account :
       \/ \E cents \in Totals : AccumulatePoints(a, cents)
       \/ \E points \in Redemptions : RedeemPoints(a, points)
       \/ \E points \in Adjustments : AdjustPoints(a, points)
       \/ ExpirePointsForCustomer(a)
  \/ RunExpirationBatch
  \/ NextDay

LoyaltySpec == LoyaltyInit /\ [][LoyaltyNext]_loyaltyVars

-----------------------------------------------------------------------------
(* Properties.                                                             *)

EntriesOf(a, types) == {i \in DOMAIN ledger : ledger[i].account = a /\ ledger[i].type \in types}

(* The balance that the first n entries of the ledger leave an account.    *)
BalanceAt(a, n) ==
  LET mine == {i \in 1..n : ledger[i].account = a}
  IN  IF mine = {} THEN 0 ELSE ledger[Max(mine)].balanceAfter

(* "maintain audit trail": an account's entries explain its balance, each one
   from the one before, whichever of the calls wrote them.                 *)
LedgerExplainsBalance ==
  /\ \A a \in Account : accounts[a].balance = BalanceAt(a, Len(ledger))
  /\ \A i \in DOMAIN ledger :
       ledger[i].balanceAfter =
         Max({BalanceAt(ledger[i].account, i - 1) + ledger[i].points, 0})

(* Lifetime points are all that was ever awarded: neither redemption nor
   expiration nor a negative adjustment lowers what a tier is computed from. *)
LifetimeIsAwarded ==
  \A a \in Account :
    accounts[a].lifetime =
      PointsOf({i \in EntriesOf(a, {"earn", "adjust"}) : ledger[i].points > 0})

(* "balance never goes negative", and no mixture of redemptions, expirations
   and adjustments lets a customer spend more points than were awarded.    *)
SpentPointsWereAwarded ==
  \A a \in Account :
    /\ accounts[a].balance >= 0
    /\ accounts[a].balance - PointsOf(EntriesOf(a, {"redeem"})) <= accounts[a].lifetime

(* "time_based: points expire X days after earn date": a customer who never
   spent any still has the points whose day has not come.                  *)
UnexpiredPointsAreKept ==
  \A a \in Account :
    (\A i \in EntriesOf(a, {"redeem", "adjust"}) : ledger[i].points > 0) =>
      accounts[a].balance >= PointsOf(EntriesOf(a, {"earn"}) \ Expirable(a))
=============================================================================
