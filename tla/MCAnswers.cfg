CONSTANTS
    WordOctets = 3
    Words <- MCWords
    Lower <- MCLower
    Trim <- MCTrim
    Octets <- MCOctets
    Filters <- MCFilters
    Depth <- MCDepth
    Unsupported = {"substrings"}
    Directories <- MCDirectories
    BaseDNs <- MCBaseDNs
    BindDNs <- MCBindDNs
    Searches <- MCSearches
SPECIFICATION AnswersSpec
INVARIANT ScopeAgreesWithTree
INVARIANT MembershipSearchesAgree
INVARIANT BindNamesTheAccount
INVARIANT AnswerReadsBack
