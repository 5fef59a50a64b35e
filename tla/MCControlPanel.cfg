CONSTANTS
    AddressSize = 2
    DataSize = 2
    Boot = 1
    Panels <- MCPanels
    Pressed <- MCPressed
    None = None

SPECIFICATION PanelSpec

INVARIANTS
    ButtonStartsCpm
    ProgramIsEntered
