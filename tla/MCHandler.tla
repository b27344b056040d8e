------------------------------ MODULE MCHandler ------------------------------
(***************************************************************************)
(* Small handlers: two statements and the effect.  One of the two is a      *)
(* simple one, the other an if, an elif or a nested block with every test,  *)
(* body and orelse below.  Each statement has a stretch of twenty lines:    *)
(* guards are on even lines and sinks on odd ones.                          *)
(***************************************************************************)
EXTENDS Handler

Call1(site) == <<[kind |-> "call", site |-> site]>>
Lazy1(site) == <<[kind |-> "lazy", site |-> site]>>
Return1     == <<[kind |-> "return", line |-> NoLine]>>
Other(line) == <<[kind |-> "skip", line |-> line]>>
Skip1       == Other(NoLine)
If1(test, body, orelse) ==
    <<[kind |-> "if", op |-> test[1], split |-> test[2], atoms |-> test[3],
       body |-> body, orelse |-> orelse]>>
Block1(body) == <<[kind |-> "block", body |-> body]>>

Flag == <<"plain", FALSE, <<{}>>>>

Tests(b) ==
    {Flag, <<"plain", FALSE, <<{b}>>>>, <<"opaque", FALSE, <<{b}>>>>}
      \cup ({"and", "or"} \X {TRUE} \X {<<{}, {b + 2}>>, <<{b}, {b + 2}>>})
      \cup {<<"or", FALSE, <<{b}, {}>>>>, <<"or", FALSE, <<{}, {b}>>>>}

Bodies(b) == {Skip1, Call1(b), Return1, Call1(b + 1), Block1(Call1(b))}

\* An orelse, an elif, a nested if.
Orelses(b) ==
    {<<>>, Call1(b), Return1}
      \cup {If1(Flag, body, orelse) :
              body \in {Call1(b), Return1}, orelse \in {<<>>, Call1(b + 2), Return1}}

Ifs(b) == {If1(t, body, orelse) : t \in Tests(b), body \in Bodies(b + 4), orelse \in Orelses(b + 8)}
            \cup {If1(Flag, If1(t, Call1(b + 4), Return1), orelse) :
                    t \in Tests(b), orelse \in Orelses(b + 8)}

Owner(b) == If1(<<"owner", FALSE, <<{b}>>>>, Return1, <<>>)

\* A simple statement, and the ways to have none on some executions.
Simple(b) ==
    {Skip1, Call1(b), Call1(b + 1), Owner(b), Block1(Call1(b)), Block1(Return1),
     Block1(Call1(b + 1)), If1(Flag, Call1(b + 4), <<>>), If1(Flag, Return1, <<>>)}

Effect == Call1(41)

Bodies2 ==
    {f \o s \o Effect : f \in Ifs(2) \cup Simple(2), s \in Simple(22)}
      \cup {s \o f \o Effect : f \in Ifs(22), s \in Simple(2)}

SimpleBodies == {f \o s \o Effect : f, s \in Simple(2) \cup Simple(22)}

Owners(body) ==
    UNION {SitesOf(body[i]) : i \in {j \in DOMAIN body : body[j].kind = "if" /\ body[j].op = "owner"}}

Source(body, static, dep, route) ==
    [body |-> body, static |-> static, dep |-> dep, route |-> route,
     owners |-> Owners(body),
     helpers |-> {s \in SitesIn(body) : s % 2 = 0} \ Owners(body),
     sinks |-> {s \in SitesIn(body) : s % 2 = 1}]

InOrder(body) == \A i, j \in DOMAIN body : i < j => \A s \in SitesOf(body[i]), t \in SitesOf(body[j]) : s < t

\* Calls that are made now and then: x = a and guard(), x = a and act().
Lazies == {f \o s \o Effect : f \in {Lazy1(2), Lazy1(3), Block1(Lazy1(2))}, s \in Simple(22)}

\* if a or (b and guard()): x = 1
\* else: return
OneLine(last) == {If1(<<"opaque", FALSE, <<{2}>>>>, Other(2), orelse) \o last :
                    orelse \in {<<>>, Return1}}

\* A test that performs the effect, alone on its line and not.
Tested == {f \o If1(<<op, FALSE, <<{41}>>>>, Other(line), <<>>) :
             f \in Simple(2), op \in {"plain", "opaque"}, line \in {NoLine, 41}}

MCHandlers ==
    {Source(b, FALSE, "none", "none") : b \in Bodies2 \cup Lazies \cup OneLine(Effect) \cup Tested}
      \cup {Source(b, s, d, r) :
              b \in {c \in SimpleBodies : InOrder(c)}, s \in BOOLEAN,
              d \in {"none", "pass", "fail", "unknown"}, r \in {"none", "proved", "unproved", "other"}}

\* depends(other resource); helper(); act()
BorrowedHandlers == {Source(Call1(2) \o Effect, FALSE, "fail", "none")}
=============================================================================
