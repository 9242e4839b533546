------------------------- MODULE MCPermissionBroker -------------------------
(* Reads of nested paths, and web searches of two operations over one      *)
(* route, one of them repeated by another invocation.                      *)
EXTENDS PermissionBroker

Read(op, invocation, path, exact) ==
    [op |-> op, invocation |-> invocation, tool |-> "read_file", effect |-> "read",
     scope |-> [kind |-> "workspace", path |-> path, name |-> ""],
     route |-> None, saved |-> FALSE, exact |-> exact]
Search(op, invocation, exact) ==
    [op |-> op, invocation |-> invocation, tool |-> "web_search", effect |-> "network",
     scope |-> [kind |-> "external", path |-> <<>>, name |-> "engine"],
     route |-> "engine", saved |-> FALSE, exact |-> exact]

SmallRequests ==
    {Read("o1", 1, <<"src">>, "src"), Read("o1", 2, <<"src", "lib">>, "lib"),
     Search("o1", 3, "query"), Search("o1", 4, "query"), Search("o2", 5, "query2")}

Rule(decision, tool, path) ==
    [decision |-> decision, tool |-> tool, effect |-> None, workspace |-> path, command |-> None]
SmallPolicies ==
    {[default |-> "ask", rules |-> {}, readsOnly |-> FALSE],
     [default |-> "allow", readsOnly |-> FALSE,
      rules |-> {Rule("deny", "read_file", <<"src", "lib">>), Rule("ask", "read_file", <<"src">>)}]}
=============================================================================
