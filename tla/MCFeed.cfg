SPECIFICATION Spec
CONSTANTS
    MaxPosts = 3
    MaxTokens = 5
    Pages <- SmallPages
INVARIANTS
    TypeOK
    FeedIsComplete
    AuthorIsOwn
    ContentKeepsOrder
    TagsAreClosed
CHECK_DEADLOCK FALSE
