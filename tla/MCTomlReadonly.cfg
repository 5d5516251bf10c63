SPECIFICATION Spec
CONSTANTS
    Words = {"id1", "id2", "read_count", "main", "tty", "item_mstime", "0", "1", "4", "5", "u", "+1"}
    BadKeys = {"+1"}
    Lines <- MCLines
    MaxPath = 2
    MaxLines = 3
    IdKeys <- MCIdKeys
    IdOf <- MCIdOf
    IntOf <- MCIntOf
    IntFields <- MCIntFields
    StringFields <- MCStringFields
    IdFields <- MCIdFields
PROPERTIES ReadonlyStays
