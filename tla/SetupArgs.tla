------------------------------ MODULE SetupArgs ------------------------------
(***************************************************************************)
(* setup_args of main.cpp: the command line, read one argument at a time   *)
(* into the settings that main hands to init_server_db and start.          *)
(***************************************************************************)
EXTENDS Integers, Sequences

CONSTANTS
  Words,          \* strings without '=' and whitespace, which can be empty
  CommandLines,   \* the sequences of arguments the program is started with
  Stoi,           \* std::stoi: it stops at the '=', and throws on some words
  NotANumber      \* std::stoi has thrown

\* An argument from behind its '-', as the words that '=' separates.  One that does
\* not begin with '-' or has whitespace never matches: it stands as a single word.
Arguments == Seq(Words) \ {<<>>}

Empty == ""

ASSUME SetupArgsAssumption ==
  /\ CommandLines \subseteq Seq(Arguments)
  /\ Stoi \in [Words -> Int \cup {NotANumber}]
  /\ NotANumber \notin Int

VARIABLES
  args,            \* argv without the name of the program
  i,               \* the argument that is read next
  count_servers, db_filename, server_port,
  result           \* "running", and what setup_args returned: "accepted" or "refused"

vars == <<args, i, count_servers, db_filename, server_port, result>>

DefaultServers == 1
DefaultFile == <<"users.db">>
DefaultPort == 8189
MaxArguments == 3

\* Every variable has its type.
TypeOK ==
  /\ args \in CommandLines
  /\ i \in 1..(Len(args) + 1)
  /\ count_servers \in Int /\ server_port \in Int
  /\ db_filename \in Seq(Words \cup {"users.db"})
  /\ result \in {"running", "accepted", "refused"}

Init ==
  /\ args \in CommandLines
  /\ i = 1
  /\ count_servers = DefaultServers
  /\ db_filename = DefaultFile
  /\ server_port = DefaultPort
  /\ result = "running"
-----------------------------------------------------------------------------
\* The regular expression \-(\S+)=(\S+): the '=' at which an argument can be
\* split so that both sides are nonempty.  The first group takes what it can.
Splits(a) ==
  {k \in 1..(Len(a) - 1) :
     /\ k = 1 => a[1] # Empty
     /\ k = Len(a) - 1 => a[Len(a)] # Empty}

Matches(a) == Splits(a) # {}

\* Variant: the first group takes what it must.
FirstSplit(a) == CHOOSE k \in Splits(a) : \A j \in Splits(a) : k <= j

Greedy(a) == CHOOSE k \in Splits(a) : \A j \in Splits(a) : j <= k

\* arg_name, and arg_value as text and as a number
Name(a) == SubSeq(a, 1, Greedy(a))
Value(a) == SubSeq(a, Greedy(a) + 1, Len(a))
Number(a) == Stoi[a[Greedy(a) + 1]]

\* The argument is read and it is an option of this name.
Is(a, name) == Matches(a) /\ Name(a) = <<name>>
-----------------------------------------------------------------------------
TooMany ==
  /\ result = "running" /\ i = 1
  /\ Len(args) > MaxArguments
  /\ result' = "refused"
  /\ UNCHANGED <<args, i, count_servers, db_filename, server_port>>

Reading == result = "running" /\ Len(args) <= MaxArguments /\ i <= Len(args)

Refuse == result' = "refused" /\ UNCHANGED <<args, i>>
Proceed == i' = i + 1 /\ UNCHANGED <<args, result>>

InvalidFormat ==
  /\ Reading /\ ~Matches(args[i])
  /\ Refuse
  /\ UNCHANGED <<count_servers, db_filename, server_port>>

\* Variant: the value is tested before it is converted.
SetServersUntested ==
  /\ Reading /\ Is(args[i], "srv")
  /\ IF Number(args[i]) = NotANumber
     THEN Refuse /\ UNCHANGED count_servers
     ELSE count_servers' = Number(args[i]) /\ Proceed
  /\ UNCHANGED <<db_filename, server_port>>

SetServers ==
  /\ Reading /\ Is(args[i], "srv")
  /\ \/ /\ Number(args[i]) = NotANumber
        /\ Refuse
        /\ UNCHANGED count_servers
     \/ /\ Number(args[i]) # NotANumber
        /\ count_servers' = Number(args[i])
        /\ IF count_servers' <= 0 THEN Refuse ELSE Proceed
  /\ UNCHANGED <<db_filename, server_port>>

\* Variant: only the first -db is taken.
SetFilenameOnce ==
  /\ Reading /\ Is(args[i], "db")
  /\ db_filename' = IF db_filename = DefaultFile THEN Value(args[i]) ELSE db_filename
  /\ Proceed
  /\ UNCHANGED <<count_servers, server_port>>

SetFilename ==
  /\ Reading /\ Is(args[i], "db")
  /\ db_filename' = Value(args[i])
  /\ Proceed
  /\ UNCHANGED <<count_servers, server_port>>

SetPort ==
  /\ Reading /\ Is(args[i], "port")
  /\ \/ /\ Number(args[i]) = NotANumber
        /\ Refuse
        /\ UNCHANGED server_port
     \/ /\ Number(args[i]) # NotANumber
        /\ server_port' = Number(args[i])
        /\ IF server_port' < 0 THEN Refuse ELSE Proceed
  /\ UNCHANGED <<count_servers, db_filename>>

\* An unknown name is reported, and reading goes on.
Unrecognized ==
  /\ Reading /\ Matches(args[i])
  /\ \A name \in {"srv", "db", "port"} : ~Is(args[i], name)
  /\ Proceed
  /\ UNCHANGED <<count_servers, db_filename, server_port>>

Accept ==
  /\ result = "running" /\ Len(args) <= MaxArguments /\ i > Len(args)
  /\ result' = "accepted"
  /\ UNCHANGED <<args, i, count_servers, db_filename, server_port>>

Next ==
  \/ TooMany \/ InvalidFormat
  \/ SetServers \/ SetFilename \/ SetPort \/ Unrecognized
  \/ Accept

Spec == Init /\ [][Next]_vars
-----------------------------------------------------------------------------
\* "-name=value" as the help text writes it (lines 61-63): the name, an "=" and any
\* text but the empty one, which for a file may have an "=" in it too.
Given(a, name) == a[1] = name /\ Tail(a) \notin {<<>>, <<Empty>>}

(***************************************************************************)
(* What the loop takes for it.  The first group of the regular expression  *)
(* is greedy, so an option is recognised only if its value has no "=", or  *)
(* a single one at its end.  Any other "=" makes the name that is read     *)
(* longer, and -db=a=b, which the help text allows, no option.             *)
(***************************************************************************)
Option(a, name) ==
  /\ a[1] = name
  /\ \/ Len(a) = 2 /\ a[2] # Empty
     \/ Len(a) = 3 /\ a[3] = Empty

Written(k, name) == k \in 1..(i - 1) /\ Option(args[k], name)

\* The last of the arguments read so far that is recognised as this option
LastWritten(k, name) == Written(k, name) /\ \A j \in (k + 1)..(i - 1) : ~Written(j, name)

NeverWritten(name) == \A k \in 1..(i - 1) : ~Written(k, name)

\* The settings follow the arguments that are recognised (part of the invariant).
SettingsAreRead ==
  result # "refused" =>
    /\ NeverWritten("srv") => count_servers = DefaultServers
    /\ NeverWritten("db") => db_filename = DefaultFile
    /\ NeverWritten("port") => server_port = DefaultPort
    /\ \A k \in DOMAIN args :
         /\ LastWritten(k, "srv") => count_servers = Stoi[args[k][2]]
         /\ LastWritten(k, "db") => db_filename = Tail(args[k])
         /\ LastWritten(k, "port") => server_port = Stoi[args[k][2]]

\* Some argument is written as this option, and the loop did not recognise it.
Misread(name) ==
  \E k \in 1..(i - 1) : Given(args[k], name) /\ ~Option(args[k], name)

LastGiven(k, name) ==
  /\ k \in 1..(i - 1) /\ Given(args[k], name)
  /\ \A j \in (k + 1)..(i - 1) : ~Given(args[j], name)

NeverGiven(name) == \A k \in 1..(i - 1) : ~Given(args[k], name)

\* Each setting is what the last argument that gives it says, or its default: no
\* argument touches the setting of another, and a later one replaces an earlier.
\* The help text promises this of every value; the code keeps it only for a setting
\* none of whose arguments is misread for an "=" inside its value (line 77).
LastOptionWins ==
  result # "refused" =>
    /\ ~Misread("srv") =>
         /\ NeverGiven("srv") => count_servers = DefaultServers
         /\ \A k \in DOMAIN args : LastGiven(k, "srv") => count_servers = Stoi[args[k][2]]
    /\ ~Misread("db") =>
         /\ NeverGiven("db") => db_filename = DefaultFile
         /\ \A k \in DOMAIN args : LastGiven(k, "db") => db_filename = Tail(args[k])
    /\ ~Misread("port") =>
         /\ NeverGiven("port") => server_port = DefaultPort
         /\ \A k \in DOMAIN args : LastGiven(k, "port") => server_port = Stoi[args[k][2]]

\* The argument alone is reason enough to refuse the command line.
Bad(a) ==
  \/ Len(a) < 2
  \/ Len(a) = 2 /\ Empty \in {a[1], a[2]}
  \/ Len(a) = 3 /\ a[1] = Empty /\ a[3] = Empty
  \/ Option(a, "srv") /\ (Stoi[a[2]] = NotANumber \/ Stoi[a[2]] <= 0)
  \/ Option(a, "port") /\ (Stoi[a[2]] = NotANumber \/ Stoi[a[2]] < 0)

\* A command line is refused if it is too long or one of its arguments is bad,
\* and only then: no order of arguments lets a bad one through, or fails good ones.
RefusedForAReason ==
  LET reason == Len(args) > MaxArguments \/ \E k \in DOMAIN args : Bad(args[k])
  IN  /\ result = "accepted" => ~reason
      /\ result = "refused" => reason

\* What init_server_db and start rely on: whatever options follow one another,
\* the settings that main goes on with name a file, which SQLConnection::open()
\* will try (SQLConnection.cpp:8), and give at least one server and no negative port.
SettingsAreUsable ==
  result # "refused" =>
    /\ count_servers > 0 /\ server_port >= 0
    /\ db_filename \notin {<<>>, <<Empty>>}

\* The inductive invariant: what was read so far was good, and is in the settings.
NothingBadSoFar ==
  /\ (i > 1 \/ result = "accepted") => Len(args) <= MaxArguments
  /\ result = "accepted" => i = Len(args) + 1
  /\ result # "refused" => \A k \in 1..(i - 1) : ~Bad(args[k])

IInv == TypeOK /\ NothingBadSoFar /\ SettingsAreRead /\ RefusedForAReason
-----------------------------------------------------------------------------
\* "Error: Server port must be POSITIVE integer." (main.cpp:111)
PortIsPositive == result = "accepted" => server_port > 0
=============================================================================
