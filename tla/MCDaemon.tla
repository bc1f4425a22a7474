------------------------------ MODULE MCDaemon ------------------------------
\* Small instances of Daemon: nested entries up to three levels, and one
\* included file.
EXTENDS Daemon

MCFields == {"Name", "Upstream"}

MCValues == {"a", "b", "c", "u", "v", Empty}

Entry(p, name, up, children) ==
    [parent |-> p, fields |-> [Name |-> name, Upstream |-> up],
     hasChildren |-> children]

\* One mirror; a mirror whose list of children is empty; a group whose first
\* child is a group, and a second child after it.
MCMainFiles ==
    {<<Entry(0, "a", "u", c)>> : c \in BOOLEAN}
    \cup
    {<<Entry(0, "c", x, TRUE), Entry(1, Empty, y, TRUE), Entry(2, "a", z, FALSE),
       Entry(1, Empty, Empty, FALSE)>> : x, z \in {Empty, "u"}, y \in {Empty, "v"}}
    \cup {Broken}

MCIncluded == {<<>>, <<Entry(0, Empty, "v", TRUE), Entry(1, "b", Empty, FALSE)>>, Broken}
=============================================================================
