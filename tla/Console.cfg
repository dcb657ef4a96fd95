CONSTANTS
    Pages = {"home", "products", "product", "orders", "inventory", "audit", "stores", "shopify"}
    MaxMoves <- Moves
    MaxEdits <- Changes
    None = None
SPECIFICATION Spec
INVARIANTS TypeOK OwnChangesShown OffersArePermitted
CHECK_DEADLOCK FALSE
