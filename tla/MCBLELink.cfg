SPECIFICATION FairLinkSpec
INVARIANTS
    LinkInvariant
    PromptFollowsPairing
PROPERTIES
    CanBeFound
