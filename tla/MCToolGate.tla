----------------------------- MODULE MCToolGate ------------------------------
(* ToolGate with two calls.                                                 *)
EXTENDS ToolGate

Two(first, second) ==
    LET c == CHOOSE c \in Calls : TRUE IN [d \in Calls |-> IF d = c THEN first ELSE second]

Parent(tool, setting) == [home |-> "parent", tool |-> tool, setting |-> setting, ceiling |-> "allow"]
Child(tool, setting, ceiling) ==
    [home |-> "child", tool |-> tool, setting |-> setting, ceiling |-> ceiling]

\* Without delegation: every pair of a call of Piqo's and another one.
Plain ==
    {Two(Parent("native", a), Parent(tool, b)) : a, b \in Settings, tool \in {"native", "client"}}

\* With it: what a parent that also uses another tool, or its child, asks for.
Delegating ==
    {Two(Parent("delegate", "allow"), second) :
        second \in { Parent("native", "ask"), Parent("client", "allow"),
                     Child("native", "ask", "deny"), Child("native", "allow", "ask"),
                     Child("client", "ask", "allow"), Child("delegate", "allow", "allow") }}
    \cup {Two(Parent("delegate", "ask"), Child("native", "allow", "allow"))}

MCScenarios ==
    [calls : Plain, disturbances : {{"overlap"}, {"rules", "cancel", "crash"}}]
    \cup [calls : Delegating, disturbances : {{"rules"}, {"cancel"}, {"crash"}}]
=============================================================================
