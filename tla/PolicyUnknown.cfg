CONSTANTS
    Parts = {"policy"}
    Anyone = anyone
    Nobody = nobody
    Unknown = unknown
    NoArgs = noargs
    Documents <- MCDocuments
    Callers <- MCCallers
    Calls <- MCCalls
    Scalars = {1, 2}
    Tenants = {"s", "t"}
    TenantDocs <- MCTenantDocs
    NoTenant = notenant
    Ambiguous = ambiguous
    SpendCap = 1
    Listers = {"p", "q"}
    Rule <- MCRule
    Hidden = "hidden"
    MaxItems <- MCMaxItems
    Merges <- MCMerges
    PageSize = 2
    Clients = {"p", "q"}
    Servers = {"a", "b", "c"}
    URIs = {"x"}
    Snapshots <- MCSnapshots
    NoOwner = noowner
    Configurations <- MCConfigurations
    Found <- MCFound
    Texts <- MCTexts
    Nil = nil
    NoMatch = nomatch
    WellKnown = {"/.well-known/oauth-protected-resource", "/.well-known/jwks.json",
                 "/.well-known/oauth-authorization-server", "/.well-known/oauth-authorization-server/path"}
    ResourcePath = "/.well-known/oauth-authorization-server/path"
    NoRecord = norecord
    Unowned = unowned
    Owner = owner
    Others = {other}
    Replicas = {1, 2}
    Events = {1, 2, 3}
    BufferSize = 2
    BatchSize = 2
    MaxAttempts = 2
    MaxLines = 1
    MaxFiles = 2
    Invocations = {i1, i2}
    MayAsk = {TRUE, FALSE}
    NoStack = nostack
    Fallback = fallback
    StackCap = 3
    ActivityCap = 1
SPECIFICATION MCSpec
INVARIANT UnknownDenies
CHECK_DEADLOCK FALSE
