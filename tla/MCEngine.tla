----------------------------- MODULE MCEngine -----------------------------
EXTENDS Engine

VARIABLE menu  \* the statements that the users of a behaviour send

MCFirstTables == [n \in {"t"} |-> 1]

Where(op, left, right) == [op |-> op, left |-> left, right |-> right]
Plain(op, name) == [Blank EXCEPT !.op = op, !.table = name]
Select(name) == Plain("SELECT", name)
Insert(name, rows) == [Plain("INSERT", name) EXCEPT !.rows = rows]

\* Indexes and the plans that use them; a table that comes and goes, with page
\* 0 in its file; scans; failures; what ends the process or throws.
Menus ==
  {{Plain("CREATE_INDEX", "t"), Plain("DROP_TABLE", "t"),
    [Select("t") EXCEPT !.where = Where("AND", "LT", "LIKE")]},
   {Plain("CREATE_INDEX", "t"),
    [Select("t") EXCEPT !.order = TRUE, !.where = Where("LIKE", "none", "none")]},
   {[Plain("CREATE_TABLE", "v") EXCEPT !.key = TRUE],
    Insert("v", <<6>>), Plain("UPDATE", "t")},
   {Select("t"), [Select("t") EXCEPT !.order = TRUE], Plain("COMMIT", "t")},
   {Plain("DELETE", "t"),
    [Select("t") EXCEPT !.limit = 1, !.where = Where("OR", "LT", "EQ")]},
   {Insert("t", <<0, 6>>), Select("v")},
   {Plain("CREATE_TABLE", "t"), Plain("DROP_TABLE", "t"), Plain("OTHER", "t")},
   {Insert("t", <<InvalidRow>>), [Select("t") EXCEPT !.join = TRUE]}}

MCStatements == UNION Menus

\* A limit of one transaction where a statement can stay for ever without one.
MCInit ==
  /\ Init /\ menu \in Menus
  /\ maxTransactions = 1 => {Select("t"), Insert("v", <<6>>)} \cap menu # {}

\* The users are alike: the first call is the first user's.
FirstUser == CHOOSE u \in User : TRUE

Within ==
  /\ \A u \in User : run'[u].stmt \in menu \cup {Blank}
  /\ started = 0 => \A u \in User : run'[u].at = "begun" => u = FirstUser

MCNext == Next /\ Within /\ UNCHANGED menu

MCSpec == MCInit /\ [][MCNext]_<<vars, menu>> /\ Fairness
=============================================================================
