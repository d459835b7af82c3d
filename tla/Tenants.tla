------------------------------- MODULE Tenants -------------------------------
(***************************************************************************)
(* Which downstream an instance talks to: its owner tag, the configuration *)
(* of that tenant and the client built from it.  The tag is cached for     *)
(* thirty seconds and the clients until a change evicts them               *)
(* (internal/downstream/registry.go), the configurations in a Resolver     *)
(* (internal/tenant/tenant.go) that the requests of                        *)
(* cmd/server/routes_tenants.go write through.  Every step between two     *)
(* locks or queries is an action of its own: messages are routed while     *)
(* configurations change.                                                  *)
(*                                                                         *)
(* A configuration is the number of the change that wrote it; 0 stands for *)
(* no tenant.  There is one instance; its tag is bridge_instance.owner_tag.*)
(***************************************************************************)
EXTENDS Integers, FiniteSets

CONSTANTS
  Tags,        \* owner tags
  Readers,     \* messages routed (For) and look-ups of the inbox (InboxIDFor), one each
  Admins,      \* requests that change a tenant
  MaxChanges,  \* bound: changes of configurations
  MaxOwners,   \* bound: changes of the owner
  MaxFailures  \* bound: failed queries

NoTag == "none"
NoChange == [tag |-> NoTag, to |-> 0]
Miss == -1
NotThere == 0
Nothing == [t \in Tags |-> NotThere]

ASSUME TenantsAssumption ==
  /\ MaxChanges \in Nat \ {0} /\ {MaxOwners, MaxFailures} \subseteq Nat
  /\ NoTag \notin Tags

VARIABLES
  owner,    \* bridge_instance.owner_tag
  table,    \* table[t]: bridge_tenant
  cache,    \* cache[t]: Resolver.cache, Miss when it has no entry
  clients,  \* clients[t]: Registry.clients
  tag,      \* Registry.instanceTag: the tag, and whether it is within its TTL
  lookups,  \* the readers that look up the inbox; the others route a message
  at,       \* at[r]: idle, select, keep, client, config, query, fill, store, done
  found,    \* found[r]: the tag it works with
  config,   \* config[r]: the configuration it works with
  admin,    \* admin[a]: idle, cache, evict
  change,   \* change[a]: the tenant it changes and the new configuration
  changes, owners, failures,
  crossed,  \* history: tenants whose change met another change or a reader,
            \* or lost its answer
  bare,     \* history: the instance was without owner, or a tag without tenant
  known     \* history: known[r]: table when the reader began, with no change going on

reader == <<lookups, at, found, config, known>>
changing == <<admin, change>>
bounds == <<changes, owners, failures>>
vars == <<owner, table, cache, clients, tag, reader, changing, bounds, crossed, bare>>

\* The server has loaded the tenants it found (Warmup), or none of them when
\* that failed.
Init ==
  /\ owner \in Tags
  /\ table = [t \in Tags |-> 1]
  /\ \/ cache = table
     \/ cache = [t \in Tags |-> Miss]
  /\ clients = [t \in Tags |-> Miss]
  /\ tag = [tag |-> NoTag, fresh |-> FALSE]
  /\ lookups \in SUBSET Readers
  /\ at = [r \in Readers |-> "idle"] /\ found = [r \in Readers |-> NoTag]
  /\ config = [r \in Readers |-> NotThere]
  /\ admin = [a \in Admins |-> "idle"] /\ change = [a \in Admins |-> NoChange]
  /\ changes = 1 /\ owners = 0 /\ failures = 0
  /\ crossed = {} /\ bare = FALSE
  /\ known = [r \in Readers |-> Nothing]

Fails == failures < MaxFailures /\ failures' = failures + 1

Holds(r, t) == found[r] = t /\ at[r] \in {"query", "fill", "store"}
Changes(a, t) == admin[a] # "idle" /\ change[a].tag = t
Bare(o, tab) == o = NoTag \/ \E t \in Tags : tab[t] = NotThere

-----------------------------------------------------------------------------
(* Readers: Registry.For and InboxIDFor *)

Goes(r, place) == at' = [at EXCEPT ![r] = place]

Start(r) ==
  /\ at[r] = "idle"
  /\ known' = [known EXCEPT ![r] = IF \A a \in Admins : admin[a] = "idle" THEN table ELSE Nothing]
  /\ config' = [config EXCEPT ![r] = NotThere]
  /\ IF tag.fresh
       THEN /\ found' = [found EXCEPT ![r] = tag.tag]
            /\ Goes(r, "client")
       ELSE Goes(r, "select") /\ found' = [found EXCEPT ![r] = NoTag]
  /\ UNCHANGED <<lookups, owner, table, cache, clients, tag, changing, bounds, crossed, bare>>

\* A query that fails leaves the instance without a tag, this once.
SelectTag(r) ==
  /\ at[r] = "select"
  /\ \/ found' = [found EXCEPT ![r] = owner] /\ Goes(r, "keep") /\ UNCHANGED failures
     \/ Fails /\ found' = [found EXCEPT ![r] = NoTag] /\ Goes(r, "done")
  /\ UNCHANGED <<lookups, owner, table, cache, clients, tag, config, known, changing, changes, owners,
                 crossed, bare>>

KeepTag(r) ==
  /\ at[r] = "keep"
  /\ tag' = [tag |-> found[r], fresh |-> TRUE]
  /\ Goes(r, "client")
  /\ UNCHANGED <<lookups, owner, table, cache, clients, found, config, known, changing, bounds, crossed, bare>>

TagExpires ==
  /\ tag.fresh /\ tag' = [tag EXCEPT !.fresh = FALSE]
  /\ UNCHANGED <<owner, table, cache, clients, reader, changing, bounds, crossed, bare>>

\* Without a tag: the global downstream.  InboxIDFor does not look at the
\* clients.
FindClient(r) ==
  /\ at[r] = "client"
  /\ IF found[r] = NoTag
       THEN Goes(r, "done") /\ UNCHANGED config
       ELSE \/ /\ r \notin lookups /\ clients[found[r]] # Miss
               /\ Goes(r, "done") /\ config' = [config EXCEPT ![r] = clients[found[r]]]
            \/ /\ r \in lookups \/ clients[found[r]] = Miss
               /\ Goes(r, "config") /\ UNCHANGED config
  /\ UNCHANGED <<lookups, owner, table, cache, clients, tag, found, known, changing, bounds, crossed, bare>>

\* What InboxIDFor reads is not kept; For builds a client from it.
After(r) == IF r \in lookups THEN "done" ELSE "store"

GetCached(r) ==
  /\ at[r] = "config"
  /\ IF cache[found[r]] # Miss
       THEN config' = [config EXCEPT ![r] = cache[found[r]]] /\ Goes(r, After(r))
       ELSE Goes(r, "query") /\ UNCHANGED config
  /\ UNCHANGED <<lookups, owner, table, cache, clients, tag, found, known, changing, bounds, crossed, bare>>

\* Not found and failed alike end at the global downstream.
QueriedNothing(r) == NotThere
Queried(r) == table[found[r]]

QueryTenant(r) ==
  /\ at[r] = "query"
  /\ \/ /\ Goes(r, IF Queried(r) = NotThere THEN "done" ELSE "fill")
        /\ config' = [config EXCEPT ![r] = Queried(r)]
        /\ UNCHANGED failures
     \/ Fails /\ Goes(r, "done") /\ UNCHANGED config
  /\ UNCHANGED <<lookups, owner, table, cache, clients, tag, found, known, changing, changes, owners,
                 crossed, bare>>

FillCache(r) ==
  /\ at[r] = "fill"
  /\ cache' = [cache EXCEPT ![found[r]] = config[r]]
  /\ Goes(r, After(r))
  /\ UNCHANGED <<lookups, owner, table, clients, tag, found, config, known, changing, bounds, crossed, bare>>

StoreClient(r) ==
  /\ at[r] = "store"
  /\ clients' = [clients EXCEPT ![found[r]] = config[r]]
  /\ Goes(r, "done")
  /\ UNCHANGED <<lookups, owner, table, cache, tag, found, config, known, changing, bounds, crossed, bare>>

-----------------------------------------------------------------------------
(* Changes: PUT, PATCH and DELETE of a tenant, PATCH of the instance *)

\* The row is written; a reader or another change that has this tenant in its
\* hands is crossed.
Write(a, t, to) ==
  /\ admin[a] = "idle" /\ changes < MaxChanges /\ changes' = changes + 1
  /\ table' = [table EXCEPT ![t] = to]
  /\ crossed' = IF (\E r \in Readers : Holds(r, t)) \/ (\E b \in Admins : Changes(b, t))
                  THEN crossed \cup {t} ELSE crossed
  /\ bare' = (bare \/ Bare(owner, table'))
  /\ change' = [change EXCEPT ![a] = [tag |-> t, to |-> to]]
  /\ admin' = [admin EXCEPT ![a] = "cache"]
  /\ UNCHANGED <<owner, cache, clients, tag, reader, owners, failures>>

PutTenant(a, t) == Write(a, t, changes + 1)
PatchTenant(a, t) == table[t] # NotThere /\ Write(a, t, changes + 1)
DeleteTenant(a, t) == table[t] # NotThere /\ Write(a, t, NotThere)

\* The write was done but its answer did not come: the request fails, and the
\* caches keep what they have.
AnswerLost(a) ==
  /\ admin[a] = "cache" /\ Fails
  /\ admin' = [admin EXCEPT ![a] = "idle"]
  /\ crossed' = crossed \cup {change[a].tag}
  /\ change' = [change EXCEPT ![a] = NoChange]
  /\ UNCHANGED <<owner, table, cache, clients, tag, reader, changes, owners, bare>>

\* Set and Patch put the new configuration, Delete takes the old one out.
UpdatedNever(a) == cache
Updated(a) ==
  [cache EXCEPT ![change[a].tag] = IF change[a].to = NotThere THEN Miss ELSE change[a].to]

Held(a) == \E r \in Readers : Holds(r, change[a].tag)

UpdateCache(a) ==
  /\ admin[a] = "cache"
  /\ cache' = Updated(a)
  /\ admin' = [admin EXCEPT ![a] = "evict"]
  /\ crossed' = IF Held(a) THEN crossed \cup {change[a].tag} ELSE crossed
  /\ UNCHANGED <<owner, table, clients, tag, reader, change, bounds, bare>>

EvictedNever(a) == clients
Evicted(a) == [clients EXCEPT ![change[a].tag] = Miss]

InvalidateTenant(a) ==
  /\ admin[a] = "evict"
  /\ clients' = Evicted(a)
  /\ admin' = [admin EXCEPT ![a] = "idle"]
  /\ crossed' = IF Held(a) THEN crossed \cup {change[a].tag} ELSE crossed
  /\ change' = [change EXCEPT ![a] = NoChange]
  /\ UNCHANGED <<owner, table, cache, tag, reader, bounds, bare>>

\* The instance changes hands; the cached tag stays until it expires.
SetOwner(t) ==
  /\ owners < MaxOwners /\ owners' = owners + 1
  /\ owner' = t /\ bare' = (bare \/ Bare(t, table))
  /\ UNCHANGED <<table, cache, clients, tag, reader, changing, changes, failures, crossed>>

-----------------------------------------------------------------------------
Route(r) ==
  \/ Start(r) \/ SelectTag(r) \/ KeepTag(r) \/ FindClient(r) \/ GetCached(r)
  \/ QueryTenant(r) \/ FillCache(r) \/ StoreClient(r)

Change(a) ==
  \/ \E t \in Tags : PutTenant(a, t) \/ PatchTenant(a, t) \/ DeleteTenant(a, t)
  \/ AnswerLost(a) \/ UpdateCache(a) \/ InvalidateTenant(a)

Next ==
  \/ \E r \in Readers : Route(r)
  \/ \E a \in Admins : Change(a)
  \/ TagExpires
  \/ \E t \in Tags \cup {NoTag} : SetOwner(t)

Spec == Init /\ [][Next]_vars

-----------------------------------------------------------------------------
(* Properties *)

Places == {"idle", "select", "keep", "client", "config", "query", "fill", "store", "done"}
Configs == 0 .. MaxChanges

\* Every variable keeps its type; nothing is cached for a tenant that is not there.
TenantsTypeOK ==
  /\ owner \in Tags \cup {NoTag} /\ table \in [Tags -> Configs]
  /\ cache \in [Tags -> {Miss} \cup (Configs \ {0})] /\ clients \in [Tags -> {Miss} \cup (Configs \ {0})]
  /\ tag \in [tag : Tags \cup {NoTag}, fresh : BOOLEAN]
  /\ lookups \subseteq Readers
  /\ at \in [Readers -> Places] /\ found \in [Readers -> Tags \cup {NoTag}]
  /\ config \in [Readers -> Configs]
  /\ admin \in [Admins -> {"idle", "cache", "evict"}]
  /\ \A a \in Admins : change[a].tag \in Tags \cup {NoTag} /\ change[a].to \in Configs
  /\ changes \in 1 .. MaxChanges + 1 /\ owners \in 0 .. MaxOwners /\ failures \in 0 .. MaxFailures
  /\ crossed \subseteq Tags /\ bare \in BOOLEAN
  /\ known \in [Readers -> [Tags -> Configs]]

Changing(t) == \E a \in Admins : Changes(a, t)

\* When no change of a tenant is going on, the caches have its configuration
\* or nothing, unless a change met another one or a reader on its way from the
\* table to the caches, or was written without its answer coming back
\* (InvalidateTenant): then the old one may stay for good.
StaleOnlyIfCrossed ==
  \A t \in Tags : ~Changing(t) /\ t \notin crossed =>
    cache[t] \in {Miss, table[t]} /\ clients[t] \in {Miss, table[t]}

\* A call that began when nothing was being changed is served by the tenant's
\* configuration of then or a newer one, unless a change of its tenant was
\* crossed, the tenant deleted or a query failed (For): never by an older one.
ServedByCurrent ==
  \A r \in Readers : at[r] = "done" /\ found[r] \in Tags /\ failures = 0 =>
    \/ config[r] >= known[r][found[r]]
    \/ found[r] \in crossed
    \/ config[r] = NotThere /\ bare

\* No message goes to the global downstream as long as the instance has an
\* owner and no tenant is deleted - a former owner's counts, for its tag may
\* still be cached - unless a query fails (For).
GlobalOnlyIfBare ==
  \A r \in Readers : at[r] = "done" /\ ~bare /\ failures = 0 => config[r] # NotThere

=============================================================================
