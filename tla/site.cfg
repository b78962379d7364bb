SPECIFICATION Spec
CONSTANTS
    Char <- Strings
    Sites <- AllSites
    ServerNames <- NamesInOrder
    MaxTarget = 4
INVARIANTS IniExact UriExact ServerExact LinksLead RedirectsLead
