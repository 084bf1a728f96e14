-------------------------- MODULE MCDiscoveryEngine --------------------------
EXTENDS DiscoveryEngine

CONSTANTS home, detail, away, balance, secret, personal

Op(kind, words, registered, declared, on, output) ==
  [kind |-> kind, words |-> words, registered |-> registered, declared |-> declared,
   field |-> IF kind = "type" THEN personal ELSE None, on |-> on, output |-> output,
   condition |-> None]

OpenDetail == Op("click", None, None, "read_only", {home}, None)
ReadBalance == Op("extract", None, None, "read_only", {detail}, balance)
Wire == Op("click", "sensitive", None, "read_only", {detail}, None)
Note == Op("type", None, None, "read_only", {detail}, None)

MCScreens == {home, detail, away}
MCOperations == {OpenDetail, ReadBalance, Wire, Note}
MCConditions ==
  {[shows |-> {home}, output |-> None], [shows |-> {detail}, output |-> None],
   [shows |-> {home, detail}, output |-> balance]}
MCExpectations == {[shows |-> {home}, output |-> None]}
MCPrimary == <<OpenDetail, ReadBalance>>
MCLayers ==
  {[routes |-> {home, detail}, actions |-> {"click", "type", "extract", "assert"},
    ceiling |-> "sensitive", forbidden |-> {secret}],
   [routes |-> {home, detail}, actions |-> {"click", "extract", "assert"},
    ceiling |-> "sensitive", forbidden |-> {secret}]}
==============================================================================
