----------------------------- MODULE MCHttpRpc -----------------------------
(* Instance of HttpRpc: requests that take every path of the handler, and  *)
(* calls with every error, alone and in batches.                           *)
EXTENDS HttpRpc

CONSTANTS i1, i2

MCMethods ==
  {"uptime", "stop", "help", "getrpcinfo", "nosuch", "missing", "notString"}
MCNames == {"command", "wait", "zz"}
MCIds == {i1, i2, NullId}

Named(n, method, keys, values) ==
  [isObject |-> TRUE, id |-> n, method |-> method, shape |-> "object",
   keys |-> keys, values |-> values]

Plain(n, method, shape, values) ==
  [isObject |-> TRUE, id |-> n, method |-> method, shape |-> shape,
   keys |-> <<>>, values |-> values]

NotAnObject ==
  [isObject |-> FALSE, id |-> NullId, method |-> "missing", shape |-> "null",
   keys |-> <<>>, values |-> <<>>]

Good    == Plain(i1, "uptime", "null", <<>>)
BadVerb == Plain(i2, "missing", "array", <<>>)
BadForm == Plain(i1, "stop", "other", <<>>)
Unknown == Plain(i2, "nosuch", "array", <<"num">>)
Surplus == Named(i1, "stop", <<"wait", "zz">>, <<"num", "str">>)
Helped  == Named(i2, "help", <<"command", "command">>, <<"num", "str">>)
Helpless == Named(NullId, "help", <<"command">>, <<"null">>)

Post(form, calls) ==
  [known |-> TRUE, method |-> "POST", auth |-> TRUE, form |-> form, calls |-> calls]

Calls == {Good, BadVerb, BadForm, Unknown, Surplus, Helped, Helpless}

Odd ==
  { [Post("none", <<>>) EXCEPT !.known = FALSE],
    [Post("object", <<Good>>) EXCEPT !.method = "GET"],
    [Post("object", <<Good>>) EXCEPT !.auth = FALSE],
    Post("none", <<>>),
    Post("scalar", <<>>) }

MCInputs ==
  Odd
    \cup { Post("object", <<call>>) : call \in Calls }
    \cup { Post("array", <<>>),
           Post("array", <<Unknown, NotAnObject, Good>>),
           Post("array", <<Helpless, BadVerb, NotAnObject>>) }

\* For the runs with allocation failures: one request per path.
MCFewInputs ==
  Odd \cup { Post("object", <<Good>>), Post("object", <<Unknown>>),
             Post("array", <<NotAnObject, Good>>) }
=============================================================================
