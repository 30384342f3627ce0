----------------------------- MODULE MCServices -----------------------------
(* An instance of Services for TLC. *)
EXTENDS Services, TLC

Text(t) == [text |-> t, kind |-> "text"]
Number(t) == [text |-> t, kind |-> "num"]
EqualTo(values) == [field |-> "f", match |-> "equals", values |-> values]
\* A message that numbers an option, or says a target's name.
Input(number, names) == [number |-> number, within |-> names, holds |-> names]

MCSchemasBuiltinKey == ("a" :> "ka")
MCSchemasRefs == ("builtin" :> {} @@ "old" :> {} @@ "new" :> {} @@
    "d1" :> {"a"} @@ "d2" :> {"b"})
MCSchemasIds == 1 .. 3
MCSchemasBootFS == ("b" :> "d1")
MCSchemasExtFS == ("b" :> "d2" @@ "a" :> "d2")
MCSchemasBodies == {<<"b", "d1">>}
MCSeedsEntries == <<[entity |-> "A", children |-> 1], [entity |-> "B",
    children |-> 1], [entity |-> "A", children |-> 0]>>
MCExtensionsIdOf == (1 :> "x" @@ 2 :> "y")
MCAccessLevel == ("f0" :> 0 @@ "f1" :> 1)
MCAccessLooks == ("f0" :> "O" @@ "f1" :> None)
MCAccessBodies == {("f0" :> 1 @@ "f1" :> 1)}
MCAccessPermRows == {
    [parent |-> "E", role |-> "r1", level |-> 0, may |-> {"read", "write", "create", "delete"}],
    [parent |-> "E", role |-> "r1", level |-> 1, may |-> {"read"}],
    [parent |-> "E", role |-> "r2", level |-> 1, may |-> {"write"}],
    [parent |-> "O", role |-> "r1", level |-> 0, may |-> {"read", "write"}]}
MCAccessUserPermRows == {[user |-> "u", allow |-> "O", value |-> 1]}
MCAccessRoles == ("u" :> {"r1"})
MCDriversValues == {Text("a"), Text("B"), Text("1"), Number("1"),
    [text |-> "<nil>", kind |-> "null"]}
\* By bytes capitals come first; by most collations "a" is before "B".
MCDriversTextRank == ("1" :> 0 @@ "<nil>" :> 1 @@ "B" :> 2 @@ "a" :> 3)
MCDriversCollation == ("<nil>" :> 0 @@ "1" :> 1 @@ "a" :> 2 @@ "B" :> 3)
MCDriversNumRank == ("1" :> 0)
MCDriversFilters == {EqualTo({Text("a")}), EqualTo({Text("a"),
    Text("1")}), EqualTo({}), EqualTo({Number("1")})}
MCRouterSubs == <<"s">>
MCRouterInputs == {Input(0, {}), Input(2, {}), Input(0, {"s"})}
MCTempFiles == {"tmp/a", "tmp.png"}
MCTempPathOf == ("tmp/a" :> "tmp" @@ "tmp.png" :> None)
MCTempStarts == ("tmp" :> {"tmp/a", "tmp.png"})
MCTempTTL == ("tmp" :> 1)
MCTempRole == ("tmp" :> "r1")
MCTempRoles == ("u" :> {"r1"} @@ "v" :> {})

=============================================================================
