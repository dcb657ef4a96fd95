-------------------------------- MODULE Access --------------------------------
(***************************************************************************)
(* Who may call what.  Every route but the session routes, the OAuth       *)
(* callback, the webhook and the health check stands behind JwtAuthGuard,  *)
(* TenantIsolationGuard and PermissionsGuard, in this order; the           *)
(* permission a route demands is written at its handler.                   *)
(***************************************************************************)

Roles == {"ADMIN", "OPERATOR", "WAREHOUSE", "ANALYST"}

Permissions == {"product:read", "product:write", "product:approve", "ai:run",
                "order:read", "order:write", "order:fulfill", "store:read", "store:write",
                "channel:read", "channel:write", "inventory:read", "inventory:write",
                "dashboard:read", "report:export", "audit:read", "user:manage"}

RolePermissions == [role \in Roles |->
    CASE role = "ADMIN" -> Permissions
      [] role = "OPERATOR" ->
            {"product:read", "product:write", "product:approve", "ai:run", "order:read",
             "order:write", "store:read", "store:write", "channel:read", "channel:write",
             "dashboard:read"}
      [] role = "WAREHOUSE" ->
            {"order:read", "order:fulfill", "inventory:read", "inventory:write",
             "store:read", "channel:read", "dashboard:read"}
      [] role = "ANALYST" ->
            {"product:read", "order:read", "inventory:read", "store:read", "channel:read",
             "dashboard:read", "report:export", "audit:read"}]

ProductRoutes == [GetProducts |-> "product:read", GetProduct |-> "product:read",
    PostProduct |-> "product:write", PatchProduct |-> "product:write",
    PatchProductStatus |-> "product:approve", PostSku |-> "product:write",
    PatchSku |-> "product:write", DeleteSku |-> "product:write"]
OrderRoutes == [GetOrders |-> "order:read", GetOrder |-> "order:read",
    PostOrder |-> "order:write", PatchOrderStatus |-> "order:fulfill"]
InventoryRoutes == [GetInventory |-> "inventory:read",
    GetInventoryWarehouses |-> "inventory:read", GetTransactions |-> "inventory:read",
    PatchAdjust |-> "inventory:write", PostRecord |-> "inventory:write"]
StoreRoutes == [GetStores |-> "store:read", PostStore |-> "store:write",
    PatchStore |-> "store:write", PostWarehouse |-> "store:write",
    PatchWarehouse |-> "store:write"]
ChannelRoutes == [GetConnections |-> "channel:read", PostMapping |-> "channel:write",
    PostImport |-> "channel:write"]
OtherRoutes == [StartOAuth |-> "channel:write", GetAuditLogs |-> "audit:read",
    GetSummary |-> "dashboard:read"]

Tables == {ProductRoutes, OrderRoutes, InventoryRoutes, StoreRoutes, ChannelRoutes, OtherRoutes}
Demands(route) == LET table == CHOOSE t \in Tables : route \in DOMAIN t IN table[route]

\* What the guards say to a signed-in user; the client never names a tenant, so the second
\* guard has nothing to compare.
Admits(role, route) == Demands(route) \in RolePermissions[role]
===============================================================================
