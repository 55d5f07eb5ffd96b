------------------------- MODULE TransactionBuilder -------------------------
(***************************************************************************)
(* Transaction and TransactionDataBuilder: commands added by the caller    *)
(* and, later, by asynchronous thunks to one list, which a build sorts     *)
(* into the place where each thunk was added, and in which the resolver of *)
(* coinWithBalance then replaces its intents.  All the while an argument   *)
(* refers to the result of a command by the index of that command.         *)
(*                                                                         *)
(* Commands are numbered in the order of creation, and indices start at 1. *)
(* The placeholder of a thunk and the fork that the thunk is given have    *)
(* the same number, and -u is the MergeCoins in front of the SplitCoins    *)
(* that intent u has become.  Inputs, which are sorted likewise, are left  *)
(* out; a command has one argument at most.                                *)
(***************************************************************************)
EXTENDS Integers, Sequences, FiniteSets, SequencesExt

CONSTANTS MaxCommands,  \* bound: commands added in all
          Careful       \* whether the caller adds nothing while plugins run or
                        \* after they failed, and uses after a build, of the
                        \* results from before it, only those that StillRefer

ASSUMPTION Sizes == MaxCommands \in Nat /\ Careful \in BOOLEAN

VARIABLES commands,   \* #data.commands
          command,    \* what each command is: kind, argument, and for the
                      \* properties what it was meant to use and where it belongs
          section,    \* #commandSection of the transaction (0) and its forks
          aliased,    \* whether #commandSection is the array #data.commands
          available,  \* #availableResults
          handle,     \* the index that the result of a command gives to who uses it
          held,       \* the results the caller may use
          pending,    \* thunks whose promise is pending
          result,     \* data.result of the placeholders: a command, or None
          rejected,   \* a thunk has failed
          phase       \* where prepareForSerialization is

callerVars == <<available, handle, held>>
thunkVars == <<pending, result, rejected>>
vars == <<commands, command, section, aliased, callerVars, thunkVars, phase>>

None == 0
Root == 0

Id == 1..MaxCommands
Created == DOMAIN command

Kind(u) == command[u].kind

Item(what, u) == [what |-> what, id |-> u]
Items(s) == [i \in DOMAIN s |-> Item("command", s[i])]

NoArg == [at |-> None, nested |-> FALSE]

Init ==
  /\ commands = <<>> /\ command = <<>> /\ section = [s \in {Root} |-> <<>>]
  /\ aliased = FALSE /\ available = [s \in {Root} |-> {}] /\ handle = <<>> /\ held = {}
  /\ pending = {} /\ result = [u \in Id |-> None] /\ rejected = FALSE /\ phase = "open"
-----------------------------------------------------------------------------
(* Where a command that s adds next belongs: after what s has added, which *)
(* is where s was added to its own parent.                                 *)
Place(s, u) == (IF s = Root THEN <<>> ELSE command[s].place) \o <<u>>

(* The results that s may use, and those that the caller of it has.        *)
Usable(s) == {u \in held : handle[u] \in available[s] /\ Kind(u) # "void"}

Uses(s) == {[means |-> None, nested |-> FALSE]} \cup
           {[means |-> u, nested |-> b] : u \in Usable(s), b \in BOOLEAN}

Argument(use) == IF use.means = None THEN NoArg
                 ELSE [at |-> handle[use.means], nested |-> use.nested]

NewCommand(s, u, kind, use) ==
  [kind |-> kind, arg |-> Argument(use), means |-> use.means, nested |-> use.nested,
   place |-> Place(s, u)]

Open == IF Careful THEN phase # "plugins" /\ ~aliased ELSE TRUE

(* Mutant: the commands of a fork go into the section of the transaction.  *)
PushToRoot(s, u) == [section EXCEPT ![Root] = Append(@, Item("command", u))]

Push(s, u) == [section EXCEPT ![s] = Append(@, Item("command", u))]

(* #addCommand: into the section of s and into the list, which may be the  *)
(* same array.  The index that add returns is read afterwards.             *)
Add(s, kind, use) ==
  LET u == Len(command) + 1
      twice == s = Root /\ aliased
  IN  /\ s = Root => Open
      /\ u <= MaxCommands /\ use \in Uses(s)
      /\ use.nested => Kind(use.means) = "call"
      /\ command' = Append(command, NewCommand(s, u, kind, use))
      /\ commands' = commands \o (IF twice THEN <<u, u>> ELSE <<u>>)
      /\ section' = IF twice THEN [section EXCEPT ![Root] = Items(commands')] ELSE Push(s, u)
      /\ available' = [available EXCEPT ![s] = @ \cup {Len(commands) + 1}]
      /\ handle' = Append(handle, Len(commands'))
      /\ held' = held \cup {u}
      /\ UNCHANGED <<aliased, thunkVars, phase>>

(* add of an asynchronous thunk: it has a fork, in which it may have added *)
(* a command before it first awaits, and its placeholder follows.          *)
AddThunk(s, n) ==
  LET p == Len(command) + 1
      first == [u \in (p + 1)..(p + n) |-> Len(commands) + u - p]
      none == [means |-> None, nested |-> FALSE]
  IN  /\ ~aliased /\ (s = Root => Open)
      /\ p + n <= MaxCommands
      /\ command' = command \o <<NewCommand(s, p, "thunk", none)>>
                    \o [i \in 1..n |-> [kind |-> "call", arg |-> NoArg, means |-> None,
                                        nested |-> FALSE, place |-> Place(s, p) \o <<p + i>>]]
      /\ commands' = commands \o [i \in 1..n |-> p + i] \o <<p>>
      /\ section' = [t \in DOMAIN section \cup {p} |->
                      IF t = p THEN Items([i \in 1..n |-> p + i])
                      ELSE IF t = s THEN section[s] \o <<Item("fork", p), Item("command", p)>>
                      ELSE section[t]]
      /\ available' = [t \in DOMAIN available \cup {p} |->
                        IF t = p THEN available[s] \cup {first[u] : u \in DOMAIN first}
                        ELSE IF t = s THEN available[s] \cup {Len(commands')}
                        ELSE available[t]]
      /\ handle' = handle \o <<Len(commands')>> \o [i \in 1..n |-> Len(commands) + i]
      /\ held' = held \cup (p..(p + n))
      /\ pending' = pending \cup {p}
      /\ UNCHANGED <<aliased, result, rejected, phase>>

Used == {command[u].means : u \in Created} \cup {result[u] : u \in Id}

(* A thunk returns nothing or one of its results, or it throws.            *)
ThunkReturns(f) ==
  /\ f \in pending /\ pending' = pending \ {f}
  /\ \/ \E r \in Usable(f) :
          result' = [result EXCEPT ![f] = r] /\ UNCHANGED <<command, rejected>>
     \/ /\ f \notin Used
        /\ command' = [command EXCEPT ![f].kind = "void"] /\ UNCHANGED <<result, rejected>>
     \/ rejected' = TRUE /\ UNCHANGED <<command, result>>
  /\ UNCHANGED <<commands, section, aliased, callerVars, phase>>

IsThunk(u) == u \in Created /\ Kind(u) \in {"thunk", "void"}
-----------------------------------------------------------------------------
(* build, toJSON and getDigest: wait for the thunks, and the thunks that   *)
(* these add.  A promise that has been rejected stays among them.          *)
Build == /\ phase = "open" /\ phase' = "waiting"
         /\ UNCHANGED <<commands, command, section, aliased, callerVars, thunkVars>>

WaitFails == /\ phase = "waiting" /\ rejected /\ phase' = "open"
             /\ UNCHANGED <<commands, command, section, aliased, callerVars, thunkVars>>

IndexIn(s, u) == CHOOSE i \in DOMAIN s : s[i] = u /\ \A j \in 1..(i - 1) : s[j] # u

(* The section with those of the forks in it, without the placeholders.    *)
Filtered ==
  LET flat[s \in DOMAIN section] ==
        FlattenSeq([i \in DOMAIN section[s] |->
          IF section[s][i].what = "fork" THEN flat[section[s][i].id]
          ELSE IF IsThunk(section[s][i].id) THEN <<>> ELSE <<section[s][i].id>>])
  IN  flat[Root]

Resolves(p) == result[p] # None

(* getOriginalIndex of an argument, before the placeholders have their new *)
(* indices.  It throws at a thunk without a result, and is never asked for *)
(* one.                                                                    *)
Original(i) ==
  LET original[j \in DOMAIN commands] ==
        IF IsThunk(commands[j]) /\ Resolves(commands[j])
        THEN original[handle[result[commands[j]]]] ELSE commands[j]
  IN  original[i]

(* getOriginalIndex once more, while the results of placeholders get their *)
(* new indices one after another: the result of a thunk that is the result *)
(* of a thunk may be looked up by the new index of the latter, among the   *)
(* old ones.  Where that leads to no command, or in a circle, the error is *)
(* ignored, and the index stays.                                           *)
Reached(h, i) ==
  LET reached[n \in 0..Len(commands)] ==
        IF n = 0 THEN i
        ELSE LET j == reached[n - 1]
             IN  IF j \in DOMAIN commands /\ IsThunk(commands[j]) /\ Resolves(commands[j])
                 THEN h[result[commands[j]]] ELSE j
  IN  reached[Len(commands)]

(* Mutant: the placeholders keep their index.                              *)
RenumberNone(h, k, filtered) == h

Renumber(h, k, filtered) ==
  LET j == Reached(h, k)
  IN  IF IsThunk(commands[k]) /\ j \in DOMAIN commands /\ ~IsThunk(commands[j])
      THEN [h EXCEPT ![commands[k]] = IndexIn(filtered, commands[j])] ELSE h

Renumbered(filtered) ==
  LET after[k \in 0..Len(commands)] ==
        IF k = 0 THEN handle ELSE Renumber(after[k - 1], k, filtered)
  IN  after[Len(commands)]

(* The results from before that a careful caller still uses when new has   *)
(* become the list: of thunks that have just been sorted, unless their own *)
(* result was that of such a thunk, and those whose index is still that of *)
(* the same command.                                                       *)
StillRefer(new) ==
  {u \in held :
     IF u \in ToSet(commands) /\ IsThunk(u)
     THEN Resolves(u) /\ ~IsThunk(commands[handle[result[u]]])
     ELSE /\ handle[u] \in DOMAIN commands \cap DOMAIN new
          /\ new[handle[u]] = commands[handle[u]]}

(* #sortCommandsAndInputs.  With the placeholders filtered out, what       *)
(* remains becomes both lists.                                             *)
Sort ==
  /\ phase = "waiting" /\ pending = {} /\ ~rejected
  /\ LET filtered == Filtered
         NewIndex(i) == IndexIn(filtered, Original(i))
     IN  /\ commands' = filtered
         /\ command' = [u \in Created |->
              IF u \in ToSet(filtered) /\ command[u].arg # NoArg
              THEN [command[u] EXCEPT !.arg.at = NewIndex(@)] ELSE command[u]]
         /\ section' = [s \in {Root} |-> Items(filtered)]
         /\ handle' = Renumbered(filtered)
         /\ held' = IF Careful THEN StillRefer(filtered) ELSE held
         /\ available' = [s \in {Root} |-> DOMAIN filtered]
  /\ aliased' = TRUE /\ phase' = "plugins"
  /\ UNCHANGED thunkVars

(* replaceCommand at index i by n commands, for one argument of a command  *)
(* that comes after them; resultIndex is i.                                *)
ShiftLate(arg, i, n) == IF arg.at > i + 1 THEN [arg EXCEPT !.at = @ + n - 1] ELSE arg

Shift(arg, i, n) == IF arg.at > i THEN [arg EXCEPT !.at = @ + n - 1] ELSE arg

(* The resolver's own pass: the coin is the first result of SplitCoins.    *)
ToSplit(arg, i, n) == IF arg.at = i /\ ~arg.nested THEN [at |-> i + n - 1, nested |-> TRUE] ELSE arg

(* One intent of resolveCoinBalance: no coin needed (coin::zero), or a     *)
(* split, with the coins merged before the first of its type.              *)
Replace(state, u, become) ==
  LET i == IndexIn(state.commands, u)
      n == IF become = "merged" THEN 2 ELSE 1
      Later(v) == v # u /\ v \in ToSet(state.commands) /\ IndexIn(state.commands, v) > i
      Update(v) == IF Later(v) THEN Shift(state.arg[v], i, n) ELSE state.arg[v]
  IN  IF become = "zero" THEN state
      ELSE [commands |-> SubSeq(state.commands, 1, i - 1)
                         \o (IF n = 2 THEN <<-u, u>> ELSE <<u>>)
                         \o SubSeq(state.commands, i + 1, Len(state.commands)),
            arg |-> [v \in DOMAIN state.arg |-> ToSplit(Update(v), i, n)]]

(* The loop over the commands: what it has made of them, and of their      *)
(* arguments, when the intents are replaced as become says.                *)
Replaced(become) ==
  LET after[k \in 0..Len(commands)] ==
        IF k = 0 THEN [commands |-> commands, arg |-> [v \in Created |-> command[v].arg]]
        ELSE IF commands[k] \notin DOMAIN become THEN after[k - 1]
        ELSE Replace(after[k - 1], commands[k], become[commands[k]])
  IN  after[Len(commands)]

Intents == {u \in ToSet(commands) : u > 0 /\ Kind(u) = "intent"}

ResolveIntents ==
  /\ phase = "plugins"
  /\ \E become \in [Intents -> {"zero", "split", "merged"}] :
       LET end == Replaced(become)
       IN  /\ commands' = end.commands
           /\ section' = [s \in {Root} |-> Items(end.commands)]
           /\ command' = [v \in Created |->
                [command[v] EXCEPT
                  !.arg = end.arg[v],
                  !.kind = IF v \notin Intents THEN @
                           ELSE IF become[v] = "zero" THEN "call" ELSE "split"]]
           /\ held' = IF ~Careful THEN held
                      ELSE {u \in StillRefer(end.commands) :
                             commands[handle[u]] \in Intents => become[commands[handle[u]]] = "zero"}
  /\ aliased' = FALSE /\ phase' = "open"
  /\ UNCHANGED <<available, handle, thunkVars>>

(* A resolver, or its request for coins, fails.                            *)
ResolverFails == /\ phase = "plugins" /\ phase' = "open"
                 /\ UNCHANGED <<commands, command, section, aliased, callerVars, thunkVars>>

Next ==
  \/ \E s \in {Root} \cup pending, kind \in {"call", "intent"} :
       \E use \in Uses(s) : Add(s, kind, use)
  \/ \E s \in {Root} \cup pending, n \in 0..1 : AddThunk(s, n)
  \/ \E f \in pending : ThunkReturns(f)
  \/ Build \/ WaitFails \/ Sort \/ ResolveIntents \/ ResolverFails

Spec == Init /\ [][Next]_vars
-----------------------------------------------------------------------------
(* What the result of u stands for: the result of its thunk once that has  *)
(* been sorted out.                                                        *)
Meant(u) ==
  LET meant[v \in Created] ==
        IF IsThunk(v) /\ v \notin ToSet(commands) /\ Resolves(v)
        THEN meant[result[v]] ELSE v
  IN  meant[u]

(* Every argument refers to the command whose result was passed, through   *)
(* the sorting of thunks, thunks that return results of thunks, and every  *)
(* replacement of an intent by none, one or two more commands; a coin with *)
(* a balance is the first result of its SplitCoins.                        *)
ArgumentsFollow ==
  \A u \in ToSet(commands) \cap Created : command[u].means # None =>
    LET target == Meant(command[u].means)
        arg == command[u].arg
    IN  /\ arg.at \in DOMAIN commands /\ commands[arg.at] = target
        /\ arg.nested = (Kind(target) = "split" \/ command[u].nested)

Before(p, q) == \E i \in DOMAIN p \cap DOMAIN q : p[i] < q[i] /\ \A j \in 1..(i - 1) : p[j] = q[j]

PlaceOf(x) == IF x > 0 THEN command[x].place \o <<1>> ELSE command[-x].place \o <<0>>

(* Without thunks the list has every command exactly once, and each where  *)
(* its function was added, however long that took and whatever was added   *)
(* in the meantime: building twice changes nothing.                        *)
CommandsInPlace ==
  (\A x \in ToSet(commands) : ~IsThunk(x)) =>
    /\ {u \in Created : ~IsThunk(u)} \subseteq ToSet(commands)
    /\ \A i, j \in DOMAIN commands : i < j => Before(PlaceOf(commands[i]), PlaceOf(commands[j]))
=============================================================================
