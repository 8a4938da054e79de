\* The desktop as main.py wires it: the terminal lock clears the clipboard.
CONSTANTS
    Tasks = {save, copy}
    Drains = {save}
    Invoking = {copy, Terminal}
    Terminal = Terminal
    None = None
SPECIFICATION Spec
CHECK_DEADLOCK FALSE
PROPERTIES
    ShutdownEnds
