SPECIFICATION LiveSpec
CONSTANTS
  Pollers = {"mcp"}
  Commands = {"call"}
  SignIns = {}
  Wholes = {}
  Directories = {"a", "b"}
  MaxVersion = 2
PROPERTY NeverReplacedByOlder
CHECK_DEADLOCK FALSE
