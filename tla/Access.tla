-------------------------------- MODULE Access --------------------------------
(***************************************************************************)
(* Who a connection speaks for: sshd finds the line of the key in          *)
(* authorized_keys (OwnerKeys) and starts the front-end as its forced      *)
(* command says, the front-end takes the owner and the verb from what it   *)
(* was started with (CommandLine) and, without an owner there, from the    *)
(* line that has the fingerprint of the key by now                         *)
(* (resolve_owner_from_authinfo in seadog/src/owner.rs).                   *)
(***************************************************************************)
EXTENDS OwnerKeys, Sequences

CONSTANT Texts      \* command lines of clients, as sequences of tokens

ASSUME TextsAssumption == \A text \in Texts : text \in Seq({text[i] : i \in DOMAIN text})

CL == INSTANCE CommandLine

VARIABLE session    \* one connection

accessVars == <<file, process, session>>

NoSession == [at |-> "out", key |-> NoKey, line |-> NoOwner, start |-> "-",
              verb |-> "-", owner |-> NoOwner, named |-> FALSE]

AccessInit == Init /\ session = NoSession

\* Mutant: any line with a readable body will do.
FallbackAny(lines, key) ==
    LET hits == {l \in lines : BodyOfLine(l) # NoKey /\ l.owner # NoOwner} IN
    IF hits = {} THEN NoOwner ELSE (CHOOSE l \in hits : TRUE).owner

\* resolve_owner_from_authinfo: the owner of the line whose body has the
\* fingerprint; bodies read at the wrong place have none.
Fallback(lines, key) ==
    LET hits == {l \in lines : BodyOfLine(l) = key} IN
    IF hits = {} THEN NoOwner ELSE (CHOOSE l \in hits : TRUE).owner

\* sshd: a line with a forced command starts the front-end through the login
\* shell, seadog itself or another one; a bare key runs the client's text.
Login(key) ==
    /\ session.at = "out"
    /\ \E l \in file :
          /\ l.key = key
          /\ \E start \in IF l.owner = NoOwner THEN {"plain"} ELSE {"seadog", "bash"} :
                session' = [NoSession EXCEPT !.at = "in", !.key = key, !.line = l.owner,
                                             !.start = start]
    /\ UNCHANGED vars

Started(start, line, text) ==
    CASE start = "plain" -> <<CL!DashC, CL!Text(text)>>
      [] start = "bash" -> <<CL!OwnerFlag, CL!Word(line)>>
      [] start = "seadog" ->
            <<CL!DashC, CL!Text(<<CL!Word("seadog"), CL!OwnerFlag, CL!Word(line)>>)>>

NamesOwner(text) == \E i \in DOMAIN text : text[i].is \in {"--owner", "--owner="}

\* sshd sets SSH_ORIGINAL_COMMAND for a forced command and a text.
Outcome(start, line, text, fallback) ==
    CL!Dispatched(Started(start, line, text), start # "plain" /\ text # <<>>, text, fallback, FALSE)

Outcomes ==
    [start \in {"plain", "bash", "seadog"} |->
     [line \in Owner \cup {NoOwner} |->
      [fallback \in Owner \cup {NoOwner} |->
        {[out |-> Outcome(start, line, text, fallback), named |-> NamesOwner(text)] : text \in Texts}]]]

\* The front-end resolves the command of the connection.  The fallback has
\* its file and $SSH_AUTH_INFO_0, or not.
Run ==
    /\ session.at = "in"
    /\ \E fallback \in {NoOwner, Fallback(file, session.key)} :
       \E o \in Outcomes[session.start][session.line][fallback] :
          session' = [session EXCEPT !.at = "ran", !.verb = o.out.verb,
                                     !.owner = o.out.owner, !.named = o.named]
    /\ UNCHANGED vars

Logout ==
    /\ session.at # "out"
    /\ session' = NoSession
    /\ UNCHANGED vars

AccessNext ==
    \/ Next /\ UNCHANGED session
    \/ \E key \in Key : Login(key)
    \/ Run \/ Logout

AccessSpec == AccessInit /\ [][AccessNext]_accessVars

(***************************************************************************)
(* Properties                                                              *)
(***************************************************************************)

\* Behind a forced command a verb runs for the owner that the key's line
\* named at login, or for nobody (an operator's view is only for a line
\* without owner), whatever the client's text holds and whatever becomes of
\* the line meanwhile.
OwnerIsOfLine ==
    session.at = "ran" /\ session.line # NoOwner /\ session.verb \in CL!ReadOnly \cup CL!Privileged
        => session.owner = session.line

\* A key that an administrator wrote by hand, without a forced command,
\* never runs a privileged verb unless its text names an owner: its line
\* stays, no owner can be given to it, and the fallback finds none.
PlainKeyHasNoOwner ==
    session.at = "ran" /\ session.line = NoOwner /\ ~session.named
        => session.verb \notin CL!Privileged

=============================================================================
