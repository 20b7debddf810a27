CONSTANTS
    Machines <- TwoWriters
    Keys = {"e", "enter"}
    KB_BUF = 3
    LineMax = 2
    MaxRead = 2
    MaxTyped = 4
SPECIFICATION ConsoleSpec
PROPERTIES ImplementsTypedInput EverythingIsRead
