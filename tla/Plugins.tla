------------------------------ MODULE Plugins ------------------------------
(***************************************************************************)
(* design-pattern: PluginHost, whose plugins are registered at run time,   *)
(* and NodeAdapter, whose components are chosen by a builder.  A use of    *)
(* either is the sequence of its calls; what it does is the sequence of    *)
(* the handlers it calls, each with its argument.                          *)
(***************************************************************************)
EXTENDS Integers, SequencesExt

-----------------------------------------------------------------------------
(* PluginHost: a call is <<operation, name, handler or payload>> *)

register_cmd(host, name, cmd) ==
    IF name \in DOMAIN host.commands
    THEN [host EXCEPT !.refused = @ + 1]
    ELSE [host EXCEPT !.commands = [n \in DOMAIN @ \cup {name} |->
                                        IF n = name THEN cmd ELSE @[n]]]

\* Mutant: a handler takes the place of those before it
register_events_last(host, name, handler) ==
    [host EXCEPT !.events = [n \in DOMAIN @ \cup {name} |->
                                 IF n = name THEN <<handler>> ELSE @[n]]]

register_events(host, name, handler) ==
    LET subscribers == IF name \in DOMAIN host.events THEN host.events[name] ELSE <<>>
    IN  [host EXCEPT !.events = [n \in DOMAIN @ \cup {name} |->
                                     IF n = name THEN Append(subscribers, handler) ELSE @[n]]]

execute_cmd(host, name) ==
    IF name \in DOMAIN host.commands
    THEN [host EXCEPT !.called = Append(@, <<host.commands[name]>>)]
    ELSE host

emit_event(host, name, payload) ==
    IF name \in DOMAIN host.events
    THEN [host EXCEPT !.called = @ \o [i \in DOMAIN host.events[name] |->
                                           <<host.events[name][i], payload>>]]
    ELSE host

EmptyHost == [commands |-> <<>>, events |-> <<>>, refused |-> 0, called |-> <<>>]

\* What a call does
Answer(host, c) ==
    CASE c[1] = "register_cmd"    -> register_cmd(host, c[2], c[3])
      [] c[1] = "register_events" -> register_events(host, c[2], c[3])
      [] c[1] = "execute_cmd"     -> execute_cmd(host, c[2])
      [] c[1] = "emit_event"      -> emit_event(host, c[2], c[3])

Host(calls) == FoldLeft(Answer, EmptyHost, calls)

\* The calls before the i-th that register something under its name
Before(calls, i, op) == {j \in 1..(i - 1) : calls[j][1] = op /\ calls[j][2] = calls[i][2]}

\* A command calls the handler that was registered first under its name, if
\* any; an event calls all those registered before it, in their order.
Expected(calls, i) ==
    LET cmds == Before(calls, i, "register_cmd")
        subscribers == FlattenSeq([j \in 1..(i - 1) |->
            IF j \in Before(calls, i, "register_events") THEN <<calls[j][3]>> ELSE <<>>])
    IN  CASE calls[i][1] = "execute_cmd" /\ cmds # {} -> << <<calls[Min(cmds)][3]>> >>
          [] calls[i][1] = "emit_event" ->
                 [j \in DOMAIN subscribers |-> <<subscribers[j], calls[i][3]>>]
          [] OTHER -> <<>>

\* Every other registration of a command is refused
IsDispatch(calls, host) ==
    /\ host.called = FlattenSeq([i \in DOMAIN calls |-> Expected(calls, i)])
    /\ host.refused = Cardinality({i \in DOMAIN calls :
                          calls[i][1] = "register_cmd" /\ Before(calls, i, "register_cmd") # {}})

\* plugin_a and plugin_b are registered and one command and one event issued
HostTest == << <<"register_cmd", "say_hello", "a">>, <<"register_events", "event", "a">>,
               <<"register_cmd", "say_world", "b">>, <<"register_events", "event", "b">>,
               <<"execute_cmd", "say_hello">>, <<"emit_event", "event", "random_event">> >>

-----------------------------------------------------------------------------
(* NodeAdapter: a call replaces one component; the node is then launched *)

\* NodeComponents::default(), whose components are of the type ()
NoComponents == [consensus |-> "()", evm |-> "()"]

build_consensus(components, consensus) == [components EXCEPT !.consensus = consensus]

build_executor(components, evm) == [components EXCEPT !.evm = evm]

\* EthNode::components and BscNode::components
Components(chain) == build_executor(build_consensus(NoComponents, chain), chain)

\* Both chains accept the even blocks
validate_block(block) == block % 2 = 0

process_block(components, block) ==
    << <<"validate", components.consensus, block>> >>
    \o IF validate_block(block) THEN << <<"handle", components.evm, block>> >>
                                ELSE << <<"invalid", block>> >>

launch_node(components) == << <<"back_fill">> >> \o process_block(components, 0)

\* A node of a chain, some of whose components are replaced
Launch(chain, calls) ==
    launch_node(FoldLeft(LAMBDA c, b : IF b[1] = "consensus" THEN build_consensus(c, b[2])
                                                             ELSE build_executor(c, b[2]),
                         Components(chain), calls))

\* The genesis block is validated and handled, in this order, each by the
\* component that was given last and by no other
IsLaunch(chain, calls, done) ==
    LET given(kind) == {i \in DOMAIN calls : calls[i][1] = kind}
        last(kind) == IF given(kind) = {} THEN chain ELSE calls[Max(given(kind))][2]
    IN  done = << <<"back_fill">>, <<"validate", last("consensus"), 0>>,
                  <<"handle", last("evm"), 0>> >>

\* test_node_builder_modularity, and test_custom_evm
LaunchTests == { <<"eth", <<>>>>, <<"bsc", <<>>>>, <<"eth", << <<"evm", "custom">> >> >> }
=============================================================================
