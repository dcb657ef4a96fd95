CONSTANTS
    Pages = {"home", "products", "product", "orders", "inventory", "audit", "stores", "shopify"}
    MaxMoves <- Moves
    MaxEdits <- Changes
    None = None
SPECIFICATION Spec
INVARIANT DetailsAreCurrent
CHECK_DEADLOCK FALSE
