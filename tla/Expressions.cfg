SPECIFICATION Spec
CONSTANTS
    Structs <- MCStructs
    NoStruct <- MCNone
    Extends <- MCExtends
    Members <- MCMembers
    Leaves <- MCLeaves
    CastTypes <- MCCastTypes
    Procedures <- MCProcedures
    Overloads <- MCOverloads
    Aggregates <- MCAggregates
    Declared <- MCDeclared
    Results <- MCResults
INVARIANTS
    AcceptedIsSound
    AddressesMatch
    KeysIdentify
    TagsTell
