---------------------------- MODULE Subscriptions -----------------------------
(***************************************************************************)
(* SubscriptionPackageService with its repository, and the enforcement of  *)
(* usage limits: packages whose entitlements change, the versions that     *)
(* keep what was sold, and subscribers that hold on to theirs.             *)
(*                                                                         *)
(* Entitlements are modules switched on or off, premium features and one   *)
(* usage limit.  A call that is refused changes nothing.                   *)
(***************************************************************************)
EXTENDS Integers, Sequences

CONSTANTS
  Names,          \* package names
  ModuleMaps,     \* functions from module keys to BOOLEAN
  FeatureSets,    \* sets of premium features
  Limits,         \* hard limits, or NoLimit
  NoLimit,
  Subscribers,    \* tenants
  MaxPackages,    \* bound: packages
  MaxVersions,    \* bound: versions
  MaxUsage        \* bound: counted usage

ASSUME SubscriptionAssumption ==
  /\ Limits \subseteq Nat \cup {NoLimit} /\ NoLimit \notin Nat
  /\ MaxPackages \in Nat /\ MaxVersions \in Nat /\ MaxUsage \in Nat

VARIABLES
  packages,    \* SubscriptionPackageRecords with their entitlements
  versions,    \* PackageVersionRecords, in creation order
  contracts,   \* TenantSubscriptionContext of each subscriber
  usage,       \* the usage counter of each subscriber
  allowed      \* history: limits a subscriber has contracted since the last reset

subscriptionVars == <<packages, versions, contracts, usage, allowed>>

Entitlements == [modules: ModuleMaps, features: FeatureSets, limit: Limits]

NoContract == [active |-> FALSE]

SubscriptionInit ==
  /\ packages = << >> /\ versions = << >>
  /\ contracts = [t \in Subscribers |-> NoContract]
  /\ usage = [t \in Subscribers |-> 0]
  /\ allowed = [t \in Subscribers |-> {}]

-----------------------------------------------------------------------------
(* Packages and versions.                                                  *)

NameIsFree(name, p) == \A q \in DOMAIN packages : q # p => packages[q].name # name

Grants(map, key) == key \in DOMAIN map /\ map[key]

(* A key that is not there counts as one that is switched off.             *)
SameModules(a, b) == \A key \in DOMAIN a \cup DOMAIN b : Grants(a, key) <=> Grants(b, key)

(* Mutant: limits are not compared.                                        *)
HasEntitlementChanges_NoLimits(before, after) ==
  ~SameModules(before.modules, after.modules) \/ before.features # after.features

HasEntitlementChanges(before, after) ==
  \/ ~SameModules(before.modules, after.modules)
  \/ before.features # after.features
  \/ before.limit # after.limit

VersionsOf(p) == {v \in DOMAIN versions : versions[v].package = p}

IsLatest(v, p) ==
  /\ v \in VersionsOf(p)
  /\ \A w \in VersionsOf(p) : versions[w].number <= versions[v].number

Version(p, number, ents) == [package |-> p, number |-> number, snapshot |-> ents]

CreatePackage(name, ents) ==
  /\ Len(packages) < MaxPackages /\ Len(versions) < MaxVersions
  /\ NameIsFree(name, 0)
  /\ packages' = Append(packages, [name |-> name, status |-> "active", ents |-> ents])
  /\ versions' = Append(versions, Version(Len(packages) + 1, 1, ents))
  /\ UNCHANGED <<contracts, usage, allowed>>

(* What the input leaves out stays as it is.                               *)
UpdatePackage(p, name, ents) ==
  /\ packages[p].status = "active"
  /\ NameIsFree(name, p)
  /\ packages' = [packages EXCEPT ![p].name = name, ![p].ents = ents]
  /\ IF HasEntitlementChanges(packages[p].ents, ents)
     THEN /\ Len(versions) < MaxVersions
          /\ \E v \in VersionsOf(p) :
               /\ IsLatest(v, p)
               /\ versions' = Append(versions, Version(p, versions[v].number + 1, ents))
     ELSE UNCHANGED versions
  /\ UNCHANGED <<contracts, usage, allowed>>

DeprecatePackage(p) ==
  /\ packages[p].status = "active"
  /\ packages' = [packages EXCEPT ![p].status = "deprecated"]
  /\ UNCHANGED <<versions, contracts, usage, allowed>>

-----------------------------------------------------------------------------
(* Subscribers.  The caller builds their context from a version; an active
   package's latest one for a new contract or a renewal.                   *)

(* buildEntitlementSnapshot, getLatestVersion                              *)
Subscribe(t, p) ==
  /\ packages[p].status = "active"
  /\ \E v \in VersionsOf(p) :
       /\ IsLatest(v, p)
       /\ contracts' = [contracts EXCEPT ![t] =
            [active |-> TRUE, package |-> p, number |-> versions[v].number,
             ents |-> versions[v].snapshot]]
       /\ allowed' = [allowed EXCEPT ![t] = @ \cup {versions[v].snapshot.limit}]
  /\ UNCHANGED <<packages, versions, usage>>

Cancel(t) ==
  /\ contracts[t].active
  /\ contracts' = [contracts EXCEPT ![t] = NoContract]
  /\ UNCHANGED <<packages, versions, usage, allowed>>

(* checkLimit: no subscription, no usage; no limit, no bound.              *)
HardLimitReached(t) ==
  IF contracts[t].active
  THEN contracts[t].ents.limit # NoLimit /\ usage[t] >= contracts[t].ents.limit
  ELSE TRUE

IncrementAndCheck(t) ==
  /\ usage[t] < MaxUsage
  /\ ~HardLimitReached(t)
  /\ usage' = [usage EXCEPT ![t] = @ + 1]
  /\ UNCHANGED <<packages, versions, contracts, allowed>>

ResetUsage(t) ==
  /\ usage' = [usage EXCEPT ![t] = 0]
  /\ allowed' = [allowed EXCEPT ![t] =
       IF contracts[t].active THEN {contracts[t].ents.limit} ELSE {}]
  /\ UNCHANGED <<packages, versions, contracts>>

SubscriptionNext ==
  \/ \E name \in Names, ents \in Entitlements : CreatePackage(name, ents)
  \/ \E p \in DOMAIN packages :
       \/ \E name \in Names, ents \in Entitlements : UpdatePackage(p, name, ents)
       \/ DeprecatePackage(p)
       \/ \E t \in Subscribers : Subscribe(t, p)
  \/ \E t \in Subscribers : Cancel(t) \/ IncrementAndCheck(t) \/ ResetUsage(t)

SubscriptionSpec == SubscriptionInit /\ [][SubscriptionNext]_subscriptionVars

-----------------------------------------------------------------------------
(* Properties.                                                             *)

Package == [name: Names, status: {"active", "deprecated"}, ents: Entitlements]

PackageVersion == [package: Nat, number: Nat, snapshot: Entitlements]

Contract == [active: {TRUE}, package: Nat, number: Nat, ents: Entitlements]

SubscriptionTypeOK ==
  /\ packages \in Seq(Package)
  /\ versions \in Seq(PackageVersion)
  /\ \A v \in DOMAIN versions : versions[v].package \in DOMAIN packages
  /\ contracts \in [Subscribers -> {NoContract} \cup Contract]
  /\ usage \in [Subscribers -> Nat] /\ allowed \in [Subscribers -> SUBSET Limits]

(* A package's versions are numbered one after the other.                  *)
VersionsAreNumbered ==
  \A v, w \in DOMAIN versions :
    versions[v].package = versions[w].package /\ v < w => versions[v].number < versions[w].number

(* The latest version of a package grants what the package grants: no change
   of entitlements goes by without a version of its own.                   *)
LatestVersionIsCurrent ==
  \A p \in DOMAIN packages, v \in DOMAIN versions :
    IsLatest(v, p) =>
      LET sold == versions[v].snapshot  shown == packages[p].ents
      IN  /\ \A key \in DOMAIN sold.modules \cup DOMAIN shown.modules :
               (Grants(sold.modules, key) <=> Grants(shown.modules, key))
          /\ sold.features = shown.features /\ sold.limit = shown.limit

(* "existing subscribers retain their contracted entitlements": whatever was
   changed or deprecated since, a contract is that of the version it names. *)
ContractsAreHonoured ==
  \A t \in Subscribers :
    contracts[t].active =>
      /\ \E v \in VersionsOf(contracts[t].package) :
           versions[v].number = contracts[t].number /\ versions[v].snapshot = contracts[t].ents
      /\ \A v \in VersionsOf(contracts[t].package) :
           versions[v].number = contracts[t].number => versions[v].snapshot = contracts[t].ents

(* Nobody has used more, since the last reset, than some contract of theirs
   allowed, through upgrades, downgrades and cancellations.                *)
UsageWasSold ==
  \A t \in Subscribers :
    usage[t] > 0 => \E limit \in allowed[t] : limit = NoLimit \/ usage[t] <= limit

(* What was sold can be looked up: getEntitlementsForVersion of a contract is
   the contract, a new contract is what the package shows, and usage is what
   some contract of the subscriber allowed.                                *)
VersionsRecordEntitlements ==
  VersionsAreNumbered /\ LatestVersionIsCurrent /\ ContractsAreHonoured /\ UsageWasSold
=============================================================================
