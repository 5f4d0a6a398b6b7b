\* Two chats, two releases of which the second retired a tier, two bots in the
\* owner's chat, and two failures.
SPECIFICATION Spec
CONSTANTS
    Chats = {c1, c2}
    Releases = {{t1, t2}, {t1}}
    Amounts = {usd1, usd2}
    Bots = {coordinator, secondary}
    None = None
    MaxFaults = 2
    c1 = c1
    c2 = c2
    t1 = t1
    t2 = t2
    usd1 = usd1
    usd2 = usd2
    coordinator = coordinator
    secondary = secondary
INVARIANTS TierIsSaved ForgottenStaysForgotten BudgetIsSaved
PROPERTY StartKeepsRows
