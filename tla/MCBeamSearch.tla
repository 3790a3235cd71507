---------------------------- MODULE MCBeamSearch ----------------------------
EXTENDS BeamSearch

Search(instance, capacity, rule, root, kinds, failures) ==
    [instance |-> instance, capacity |-> capacity, rule |-> rule, root |-> root,
     kinds |-> kinds, failures |-> failures]

\* The searches of the exhaustive run: both instance types, the three leaf rules, every
\* kind of decision and every way a call may fail occur, in the combinations that differ.
Searches ==
    {Search("whole_run", 3, "turn_boundary", "stable", {"stable", "spent", "cont"}, {}),
     Search("whole_run", 3, "turn_boundary", "stable", {"stable", "spent"},
            {"rejected", "lost", "branch"}),
     Search("whole_run", 3, "turn_boundary", "stable", {"spent", "next"},
            {"invalid", "unsent", "faulted"}),
     Search("whole_run", 3, "plain", "cont", {"stable", "cont"}, {}),
     Search("whole_run", 3, "plain", "stable", {"stable", "term", "oos"},
            {"branch", "rejected", "faulted"}),
     Search("whole_run", 1, "plain", "stable", {"stable"}, {"invalid"}),
     Search("whole_run", 3, "turn_aligned", "stable", {"stable", "next", "term"},
            {"branch", "lost"}),
     Search("combat", 2, "turn_aligned", "stable", {"stable", "next"}, {"unsent", "rejected", "faulted"}),
     Search("combat", 3, "turn_boundary", "stable", {"stable", "next", "oos"},
            {"lost", "faulted"}),
     Search("combat", 3, "turn_boundary", "spent", {"stable"}, {})}

\* A Whole Run search in which no call and no branch ever fails.
Undisturbed == {Search("whole_run", 3, "turn_boundary", "stable", {"stable", "spent"}, {})}

\* One in which the connection may break.
BrokenConnection == {Search("whole_run", 3, "turn_boundary", "stable", {"spent"}, {"lost"})}
=============================================================================
