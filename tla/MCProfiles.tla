----------------------------- MODULE MCProfiles -----------------------------
(***************************************************************************)
(* Small files and arguments for Profiles.                                 *)
(***************************************************************************)
EXTENDS Profiles

Section(env, o, t) == [kind |-> "section", env |-> env, opts |-> o, tag |-> t]
Request(m, u)      == [kind |-> "request", method |-> m, uses |-> u]
Item(op, k, j)     == [kind |-> "item", op |-> op, key |-> k, json |-> j, uses |-> {}]
Text(j, u)         == [kind |-> "text", json |-> j, uses |-> u]

MCNames == {"url"}

MCLines ==
    { Section("test", {}, NoTag), Section("prod", {}, NoTag), Section(Unset, {"init"}, 2),
      [kind |-> "comment", opts |-> {}, tag |-> 1002],
      [kind |-> "export", name |-> "url", json |-> "none", uses |-> {}],
      [kind |-> "option", opts |-> {"eval"}, tag |-> 10],
      Request("GET", {"url"}), Request("POST", {}),
      Item("@", "file", "none"), Item(":", "Content-Type", "other"),
      Text("open", {"url"}), Text("close", {}) }

Path            == [new |-> FALSE, tagged |-> FALSE, values |-> {}]
New             == [new |-> TRUE, tagged |-> FALSE, values |-> {}]
Tagged(values)  == [new |-> FALSE, tagged |-> TRUE, values |-> values]
One(t)          == [range |-> FALSE, from |-> t, to |-> t]
From(a, b)      == [range |-> TRUE, from |-> a, to |-> b]

MCArgLists ==
    { <<Tagged({From(9, 10)}), Path>>, <<Path, Tagged({One(2), From(12, 11)})>>,
      <<Tagged({From(3, NoTag)})>>, <<Tagged({From(1001, 1003)})>>, <<New>> }
=============================================================================
