SPECIFICATION FairSpec
CONSTANTS
    Edit = {edit}
    Button = {button}
    TabBar = {tabBar}
    View = {view}
    Item = {item}
    Actions = {"SetText", "SetValue", "SetProperty", "Click", "Toggle", "Select", "ClickCell", "InvokeMethod", "GetValue"}
    MaxRequests = 3
    MaxDialogs = 2
INVARIANTS ReadsOwnWrites CommandsInOrder PutOffSafely
PROPERTY AnsweredMeanwhile
CHECK_DEADLOCK FALSE
