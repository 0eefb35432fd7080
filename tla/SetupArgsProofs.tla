-------------------------- MODULE SetupArgsProofs --------------------------
(***************************************************************************)
(* Proofs about SetupArgs, for any command lines, words and stoi.          *)
(***************************************************************************)
EXTENDS SetupArgs, SequenceTheorems, TLAPS

OptionNames == {"srv", "db", "port"}

\* Where the regular expression splits an argument.
LEMMA GreedyFacts ==
  ASSUME NEW a \in Arguments
  PROVE  /\ Splits(a) # {} => /\ Greedy(a) \in Splits(a)
                              /\ \A j \in Splits(a) : j <= Greedy(a)
         /\ Splits(a) \subseteq 1..(Len(a) - 1)
<1>1. PICK n \in Nat : a \in Seq(Words) /\ n = Len(a)
  BY DEF Arguments
<1>2. Splits(a) \subseteq 1..(n - 1)
  BY <1>1 DEF Splits
<1>3. ASSUME Splits(a) # {}
      PROVE  \E k \in Splits(a) : \A j \in Splits(a) : j <= k
  <2>1. CASE n - 1 \in Splits(a)
    BY <1>1, <1>2, <2>1
  <2>2. CASE n - 1 \notin Splits(a) /\ n - 2 \in Splits(a)
    <3>1. \A j \in Splits(a) : j <= n - 2
      BY <1>1, <1>2, <2>2
    <3>. QED  BY <2>2, <3>1
  <2>3. CASE n - 1 \notin Splits(a) /\ n - 2 \notin Splits(a)
    <3>1. \A j \in Splits(a) : j \in 1..(n - 3)
      BY <1>1, <1>2, <2>3
    <3>2. n - 3 >= 1
      BY <1>1, <1>3, <3>1
    <3>3. n - 2 \in Splits(a)
      BY <1>1, <3>2 DEF Splits
    <3>. QED  BY <2>3, <3>3
  <2>. QED  BY <2>1, <2>2, <2>3
<1>4. ASSUME Splits(a) # {}
      PROVE  Greedy(a) \in Splits(a) /\ \A j \in Splits(a) : j <= Greedy(a)
  BY <1>3, <1>4 DEF Greedy
<1>. QED  BY <1>1, <1>2, <1>4

\* The loop recognises an option exactly when it is written as one.
LEMMA OptionFacts ==
  ASSUME NEW a \in Arguments, NEW name \in OptionNames
  PROVE  /\ Is(a, name) <=> Option(a, name)
         /\ Is(a, name) => /\ Greedy(a) = 1
                           /\ Number(a) = Stoi[a[2]]
                           /\ Value(a) = Tail(a)
                           /\ a[2] \in Words
<1>1. PICK n \in Nat : a \in Seq(Words) /\ n = Len(a) /\ n >= 1
  BY DEF Arguments
<1>2. name # Empty
  BY DEF OptionNames, Empty
<1>3. ASSUME Is(a, name) PROVE Greedy(a) = 1 /\ a[1] = name /\ n >= 2
  <2>1. Splits(a) # {} /\ SubSeq(a, 1, Greedy(a)) = <<name>>
    BY <1>3 DEF Is, Matches, Name
  <2>2. Greedy(a) \in 1..(n - 1)
    BY <1>1, <2>1, GreedyFacts
  <2>3. Len(SubSeq(a, 1, Greedy(a))) = Greedy(a)
    BY <1>1, <2>2
  <2>4. Greedy(a) = 1
    BY <2>1, <2>3
  <2>5. SubSeq(a, 1, 1)[1] = a[1]
    BY <1>1, <2>2
  <2>6. n >= 2
    BY <2>2
  <2>7. <<name>>[1] = name
    OBVIOUS
  <2>8. a[1] = name
    BY <2>1, <2>4, <2>5, <2>7
  <2>. QED  BY <2>4, <2>6, <2>8
<1>4. ASSUME Is(a, name) PROVE Option(a, name)
  <2>1. Splits(a) # {} /\ 1 \in Splits(a) /\ \A j \in Splits(a) : j <= 1
    BY <1>3, <1>4, GreedyFacts DEF Is, Matches
  <2>2. CASE n = 2
    BY <1>1, <1>3, <1>4, <2>1, <2>2 DEF Splits, Option
  <2>3. CASE n = 3
    <3>1. 2 \notin Splits(a)
      BY <2>1
    <3>2. a[3] = Empty
      BY <1>1, <2>3, <3>1 DEF Splits
    <3>. QED  BY <1>1, <1>3, <1>4, <2>3, <3>2 DEF Option
  <2>4. CASE n >= 4
    <3>1. 2 \in Splits(a)
      BY <1>1, <2>4 DEF Splits
    <3>. QED  BY <2>1, <3>1
  <2>5. n >= 2
    BY <1>3, <1>4
  <2>. QED  BY <2>2, <2>3, <2>4, <2>5
<1>5. ASSUME Option(a, name) PROVE Is(a, name)
  <2>1. a[1] = name /\ n \in {2, 3}
    BY <1>1, <1>5 DEF Option
  <2>2. 1 \in Splits(a) /\ \A j \in Splits(a) : j <= 1
    BY <1>1, <1>2, <1>5, <2>1 DEF Splits, Option
  <2>3. Greedy(a) = 1
    BY <2>2, GreedyFacts
  <2>4. SubSeq(a, 1, 1) = <<a[1]>>
    <3>. DEFINE s == SubSeq(a, 1, 1)
    <3>1. s \in Seq(Words) /\ Len(s) = 1 /\ s[1] = a[1]
      BY <1>1
    <3>2. <<a[1]>> \in Seq(Words) /\ Len(<<a[1]>>) = 1 /\ <<a[1]>>[1] = a[1]
      BY <1>1
    <3>. HIDE DEF s
    <3>3. \A j \in 1..Len(s) : s[j] = <<a[1]>>[j]
      BY <3>1, <3>2
    <3>4. Len(s) = Len(<<a[1]>>)
      BY <3>1, <3>2
    <3>5. s = <<a[1]>>
      BY <3>1, <3>2, <3>3, <3>4, SeqEqual
    <3>. QED  BY <3>5 DEF s
  <2>. QED  BY <2>1, <2>2, <2>3, <2>4 DEF Is, Matches, Name
<1>6. ASSUME Is(a, name)
      PROVE  Number(a) = Stoi[a[2]] /\ Value(a) = Tail(a) /\ a[2] \in Words
  <2>1. SubSeq(a, 2, n) = Tail(a)
    BY <1>1, <1>3, <1>6
  <2>. QED  BY <1>1, <1>3, <1>6, <2>1 DEF Number, Value
<1>. QED  BY <1>3, <1>4, <1>5, <1>6

\* An argument that is no option by its form is bad.
LEMMA FormFacts ==
  ASSUME NEW a \in Arguments, ~Matches(a)
  PROVE  Bad(a)
<1>1. PICK n \in Nat : a \in Seq(Words) /\ n = Len(a) /\ n >= 1
  BY DEF Arguments
<1>3. CASE Splits(a) = {}
  <2>1. CASE n = 1
    BY <1>1, <2>1 DEF Bad
  <2>2. CASE n = 2
    <3>1. 1 \notin Splits(a)
      BY <1>3
    <3>. QED  BY <1>1, <2>2, <3>1 DEF Splits, Bad
  <2>3. CASE n = 3
    <3>1. 1 \notin Splits(a) /\ 2 \notin Splits(a)
      BY <1>3
    <3>. QED  BY <1>1, <2>3, <3>1 DEF Splits, Bad
  <2>4. CASE n >= 4
    <3>1. 2 \in Splits(a)
      BY <1>1, <2>4 DEF Splits
    <3>. QED  BY <1>3, <3>1
  <2>. QED  BY <1>1, <2>1, <2>2, <2>3, <2>4
<1>. QED  BY <1>3 DEF Matches

\* An argument of the right form is bad by its value only.
LEMMA ValueFacts ==
  ASSUME NEW a \in Arguments, Matches(a),
         ~(Option(a, "srv") /\ (Stoi[a[2]] = NotANumber \/ Stoi[a[2]] <= 0)),
         ~(Option(a, "port") /\ (Stoi[a[2]] = NotANumber \/ Stoi[a[2]] < 0))
  PROVE  ~Bad(a)
<1>1. PICK n \in Nat : a \in Seq(Words) /\ n = Len(a)
  BY DEF Arguments
<1>2. PICK k \in 1..(n - 1) : (k = 1 => a[1] # Empty) /\ (k = n - 1 => a[n] # Empty)
  BY <1>1 DEF Matches, Splits
<1>3. n >= 2
  BY <1>2
<1>4. n = 2 => a[1] # Empty /\ a[2] # Empty
  BY <1>2
<1>5. n = 3 => a[1] # Empty \/ a[3] # Empty
  BY <1>2
<1>. QED  BY <1>1, <1>3, <1>4, <1>5 DEF Bad

LEMMA InitInv == Init => IInv
<1>. SUFFICES ASSUME Init PROVE IInv
  OBVIOUS
<1>1. Len(args) \in Nat
  BY SetupArgsAssumption DEF Init
<1>2. DefaultFile \in Seq(Words \cup {"users.db"})
  BY DEF DefaultFile
<1>3. TypeOK
  BY <1>1, <1>2 DEF Init, TypeOK, DefaultServers, DefaultPort
<1>4. NothingBadSoFar /\ RefusedForAReason
  BY DEF Init, NothingBadSoFar, RefusedForAReason
<1>5. SettingsAreRead
  BY DEF Init, SettingsAreRead, LastWritten, Written
<1>. QED  BY <1>3, <1>4, <1>5 DEF IInv

\* What the properties say of the next argument, once it is read.
LEMMA ReadFacts ==
  ASSUME IInv, Reading, Proceed, ~Bad(args[i])
  PROVE  /\ NothingBadSoFar' /\ RefusedForAReason'
         /\ args[i] \in Arguments /\ i \in Nat /\ i' \in 1..(Len(args) + 1)
         /\ \A name \in OptionNames, k \in Nat :
              /\ Written(k, name)' <=> Written(k, name) \/ (k = i /\ Option(args[i], name))
<1>1. args \in Seq(Arguments) /\ i \in 1..Len(args) /\ Len(args) \in Nat
  BY SetupArgsAssumption DEF IInv, TypeOK, Reading
<1>2. args[i] \in Arguments /\ i' = i + 1 /\ args' = args /\ result' = "running"
  BY <1>1 DEF Reading, Proceed
<1>3. NothingBadSoFar'
  <2>1. \A k \in 1..(i - 1) : ~Bad(args[k])
    BY DEF IInv, NothingBadSoFar, Reading
  <2>2. \A k \in 1..i : ~Bad(args[k])
    BY <1>1, <2>1
  <2>3. 1..(i' - 1) = 1..i
    BY <1>1, <1>2
  <2>. QED  BY <1>2, <2>2, <2>3 DEF NothingBadSoFar, Reading
<1>4. RefusedForAReason'
  BY <1>2 DEF RefusedForAReason
<1>5. ASSUME NEW name \in OptionNames, NEW k \in Nat
      PROVE  Written(k, name)' <=> Written(k, name) \/ (k = i /\ Option(args[i], name))
  <2>1. k \in 1..(i' - 1) <=> k \in 1..(i - 1) \/ k = i
    BY <1>1, <1>2
  <2>. QED  BY <1>1, <1>2, <2>1 DEF Written
<1>. QED  BY <1>1, <1>2, <1>3, <1>4, <1>5

\* An argument that gives an option becomes the last of them; any other leaves the last.
LEMMA LastFacts ==
  ASSUME IInv, Reading, Proceed, ~Bad(args[i]), NEW name \in OptionNames
  PROVE  /\ Option(args[i], name) =>
              /\ ~NeverWritten(name)'
              /\ \A k \in DOMAIN args : LastWritten(k, name)' => k = i
         /\ ~Option(args[i], name) =>
              /\ NeverWritten(name)' => NeverWritten(name)
              /\ \A k \in DOMAIN args : LastWritten(k, name)' => LastWritten(k, name)
<1>. DEFINE W(k) == Written(k, name)
            V(k) == Written(k, name)'
<1>1. args \in Seq(Arguments) /\ i \in 1..Len(args) /\ Len(args) \in Nat
  BY SetupArgsAssumption DEF IInv, TypeOK, Reading
<1>2. i' = i + 1
  BY DEF Proceed
<1>3. \A k \in Nat : V(k) <=> W(k) \/ (k = i /\ Option(args[i], name))
  BY ReadFacts
<1>4. \A k \in Nat : W(k) => k < i
  BY <1>1 DEF Written
<1>5. ASSUME Option(args[i], name)
      PROVE  /\ ~NeverWritten(name)'
             /\ \A k \in DOMAIN args : LastWritten(k, name)' => k = i
  <2>0. PICK n \in Nat : n = i
    BY <1>1
  <2>1. V(n) /\ n \in 1..(i' - 1)
    BY <1>1, <1>2, <1>3, <1>5, <2>0
  <2>2. ~NeverWritten(name)'
    BY <2>1 DEF NeverWritten
  <2>3. ASSUME NEW k \in DOMAIN args, LastWritten(k, name)', k # i PROVE FALSE
    <3>1. V(k) /\ \A j \in (k + 1)..(i' - 1) : ~V(j)
      BY <2>3 DEF LastWritten
    <3>2. k < i
      BY <1>1, <1>3, <1>4, <2>3, <3>1
    <3>3. n \in (k + 1)..(i' - 1)
      BY <1>1, <1>2, <2>0, <2>3, <3>2
    <3>. QED  BY <2>1, <3>1, <3>3
  <2>. QED  BY <2>2, <2>3
<1>6. ASSUME ~Option(args[i], name)
      PROVE  /\ NeverWritten(name)' => NeverWritten(name)
             /\ \A k \in DOMAIN args : LastWritten(k, name)' => LastWritten(k, name)
  <2>1. \A k \in Nat : V(k) <=> W(k)
    BY <1>3, <1>6
  <2>2. ASSUME NeverWritten(name)' PROVE NeverWritten(name)
    <3>1. \A k \in 1..(i' - 1) : ~V(k)
      BY <2>2 DEF NeverWritten
    <3>2. \A k \in 1..(i - 1) : k \in 1..(i' - 1) /\ k \in Nat
      BY <1>1, <1>2
    <3>3. \A k \in 1..(i - 1) : ~W(k)
      BY <2>1, <3>1, <3>2
    <3>. QED  BY <3>3 DEF NeverWritten
  <2>3. ASSUME NEW k \in DOMAIN args, LastWritten(k, name)' PROVE LastWritten(k, name)
    <3>1. V(k) /\ \A j \in (k + 1)..(i' - 1) : ~V(j)
      BY <2>3 DEF LastWritten
    <3>2. k \in Nat
      BY <1>1
    <3>3. \A j \in (k + 1)..(i - 1) : j \in (k + 1)..(i' - 1) /\ j \in Nat
      BY <1>1, <1>2, <3>2
    <3>4. W(k) /\ \A j \in (k + 1)..(i - 1) : ~W(j)
      BY <2>1, <3>1, <3>2, <3>3
    <3>. QED  BY <3>4 DEF LastWritten
  <2>. QED  BY <2>2, <2>3
<1>. QED  BY <1>5, <1>6

\* An argument is an option of one name only.
LEMMA OneName ==
  ASSUME NEW a, NEW n \in OptionNames, NEW m \in OptionNames, Option(a, n), Option(a, m)
  PROVE  n = m
  BY DEF Option

\* The steps that end the loop.
LEMMA RefuseInv ==
  ASSUME IInv, result' = "refused", UNCHANGED <<args, i>>,
         count_servers' \in Int, server_port' \in Int,
         db_filename' \in Seq(Words \cup {"users.db"}),
         Len(args) > MaxArguments \/ \E k \in DOMAIN args : Bad(args[k]),
         i > 1 => Len(args) <= MaxArguments
  PROVE  IInv'
<1>1. TypeOK'
  BY DEF IInv, TypeOK
<1>2. NothingBadSoFar' /\ SettingsAreRead'
  BY DEF IInv, NothingBadSoFar, SettingsAreRead
<1>3. RefusedForAReason'
  BY DEF RefusedForAReason
<1>. QED  BY <1>1, <1>2, <1>3 DEF IInv

LEMMA AcceptInv ==
  ASSUME IInv, Accept
  PROVE  IInv'
<1>1. args \in Seq(Arguments) /\ i = Len(args) + 1 /\ Len(args) \in Nat
  BY SetupArgsAssumption DEF IInv, TypeOK, Accept
<1>2. \A k \in 1..(i - 1) : ~Bad(args[k])
  BY DEF IInv, NothingBadSoFar, Accept
<1>3. \A k \in DOMAIN args : ~Bad(args[k])
  BY <1>1, <1>2
<1>4. TypeOK'
  BY DEF IInv, TypeOK, Accept
<1>5. NothingBadSoFar'
  BY <1>1, <1>2 DEF NothingBadSoFar, Accept
<1>6. SettingsAreRead'
  BY DEF IInv, SettingsAreRead, LastWritten, NeverWritten, Written, Accept
<1>7. RefusedForAReason'
  BY <1>1, <1>3 DEF RefusedForAReason, Accept, MaxArguments
<1>. QED  BY <1>4, <1>5, <1>6, <1>7 DEF IInv

\* The step that reads a good argument: its option is set and the others are left.
LEMMA ProceedInv ==
  ASSUME IInv, Reading, Proceed, ~Bad(args[i]),
         count_servers' \in Int, server_port' \in Int,
         db_filename' \in Seq(Words \cup {"users.db"}),
         count_servers' = IF Option(args[i], "srv") THEN Stoi[args[i][2]] ELSE count_servers,
         db_filename' = IF Option(args[i], "db") THEN Tail(args[i]) ELSE db_filename,
         server_port' = IF Option(args[i], "port") THEN Stoi[args[i][2]] ELSE server_port
  PROVE  IInv'
<1>1. NothingBadSoFar' /\ RefusedForAReason' /\ i' \in 1..(Len(args) + 1)
  BY ReadFacts
<1>2. TypeOK'
  BY <1>1 DEF IInv, TypeOK, Proceed
<1>3. args' = args /\ DOMAIN args' = DOMAIN args
  BY DEF Proceed
<1>4. /\ NeverWritten("srv") => count_servers = DefaultServers
      /\ NeverWritten("db") => db_filename = DefaultFile
      /\ NeverWritten("port") => server_port = DefaultPort
      /\ \A k \in DOMAIN args :
           /\ LastWritten(k, "srv") => count_servers = Stoi[args[k][2]]
           /\ LastWritten(k, "db") => db_filename = Tail(args[k])
           /\ LastWritten(k, "port") => server_port = Stoi[args[k][2]]
  BY DEF IInv, SettingsAreRead, Reading
<1>5. /\ NeverWritten("srv")' => count_servers' = DefaultServers
      /\ \A k \in DOMAIN args : LastWritten(k, "srv")' => count_servers' = Stoi[args[k][2]]
  <2>1. "srv" \in OptionNames
    BY DEF OptionNames
  <2>2. /\ Option(args[i], "srv") =>
              /\ ~NeverWritten("srv")'
              /\ \A k \in DOMAIN args : LastWritten(k, "srv")' => k = i
        /\ ~Option(args[i], "srv") =>
              /\ NeverWritten("srv")' => NeverWritten("srv")
              /\ \A k \in DOMAIN args : LastWritten(k, "srv")' => LastWritten(k, "srv")
    BY <2>1, LastFacts
  <2>. QED  BY <1>4, <2>2
<1>6. /\ NeverWritten("db")' => db_filename' = DefaultFile
      /\ \A k \in DOMAIN args : LastWritten(k, "db")' => db_filename' = Tail(args[k])
  <2>1. "db" \in OptionNames
    BY DEF OptionNames
  <2>2. /\ Option(args[i], "db") =>
              /\ ~NeverWritten("db")'
              /\ \A k \in DOMAIN args : LastWritten(k, "db")' => k = i
        /\ ~Option(args[i], "db") =>
              /\ NeverWritten("db")' => NeverWritten("db")
              /\ \A k \in DOMAIN args : LastWritten(k, "db")' => LastWritten(k, "db")
    BY <2>1, LastFacts
  <2>. QED  BY <1>4, <2>2
<1>7. /\ NeverWritten("port")' => server_port' = DefaultPort
      /\ \A k \in DOMAIN args : LastWritten(k, "port")' => server_port' = Stoi[args[k][2]]
  <2>1. "port" \in OptionNames
    BY DEF OptionNames
  <2>2. /\ Option(args[i], "port") =>
              /\ ~NeverWritten("port")'
              /\ \A k \in DOMAIN args : LastWritten(k, "port")' => k = i
        /\ ~Option(args[i], "port") =>
              /\ NeverWritten("port")' => NeverWritten("port")
              /\ \A k \in DOMAIN args : LastWritten(k, "port")' => LastWritten(k, "port")
    BY <2>1, LastFacts
  <2>. QED  BY <1>4, <2>2
<1>8. SettingsAreRead'
  BY <1>3, <1>5, <1>6, <1>7 DEF SettingsAreRead, DefaultServers, DefaultFile, DefaultPort
<1>. QED  BY <1>1, <1>2, <1>8 DEF IInv

LEMMA NextInv == IInv /\ [Next]_vars => IInv'
<1>. SUFFICES ASSUME IInv, [Next]_vars PROVE IInv'
  OBVIOUS
<1>1. CASE UNCHANGED vars
  BY <1>1 DEF vars, IInv, TypeOK, NothingBadSoFar, SettingsAreRead, RefusedForAReason,
              LastWritten, NeverWritten, Written
<1>2. /\ count_servers \in Int /\ server_port \in Int
      /\ db_filename \in Seq(Words \cup {"users.db"})
      /\ Len(args) \in Nat /\ i \in Nat
  BY SetupArgsAssumption DEF IInv, TypeOK
<1>3. ASSUME Reading
      PROVE  /\ args[i] \in Arguments /\ i \in DOMAIN args
             /\ Len(args) <= MaxArguments
  BY <1>3, SetupArgsAssumption DEF IInv, TypeOK, Reading
<1>4. "srv" \in OptionNames /\ "db" \in OptionNames /\ "port" \in OptionNames
  BY DEF OptionNames
<1>5. \A w \in Words : Stoi[w] # NotANumber => Stoi[w] \in Int
  BY SetupArgsAssumption
<1>6. CASE TooMany
  BY <1>2, <1>6, RefuseInv DEF TooMany
<1>7. CASE InvalidFormat
  <2>1. Bad(args[i])
    BY <1>3, <1>7, FormFacts DEF InvalidFormat
  <2>2. Len(args) > MaxArguments \/ \E k \in DOMAIN args : Bad(args[k])
    BY <1>3, <1>7, <2>1 DEF InvalidFormat
  <2>. QED  BY <1>2, <1>3, <1>7, <2>2, RefuseInv DEF InvalidFormat, Refuse
<1>8. CASE SetServers
  <2>1. /\ Reading /\ args[i] \in Arguments /\ i \in DOMAIN args
        /\ Len(args) <= MaxArguments /\ Matches(args[i])
        /\ UNCHANGED <<db_filename, server_port>>
    BY <1>3, <1>8 DEF SetServers, Is
  <2>2. Option(args[i], "srv") /\ Number(args[i]) = Stoi[args[i][2]] /\ args[i][2] \in Words
    BY <1>4, <1>8, <2>1, OptionFacts DEF SetServers
  <2>3. ~Option(args[i], "db") /\ ~Option(args[i], "port")
    BY <2>2 DEF Option
  <2>4. ASSUME Refuse,
               \/ Number(args[i]) = NotANumber /\ UNCHANGED count_servers
               \/ Number(args[i]) # NotANumber /\ count_servers' = Number(args[i])
                  /\ count_servers' <= 0
        PROVE  IInv'
    <3>1. Bad(args[i])
      BY <2>2, <2>4 DEF Bad
    <3>2. Len(args) > MaxArguments \/ \E k \in DOMAIN args : Bad(args[k])
      BY <2>1, <3>1
    <3>3. count_servers' \in Int
      BY <1>2, <1>5, <2>2, <2>4
    <3>. QED  BY <1>2, <2>1, <2>4, <3>2, <3>3, RefuseInv DEF Refuse
  <2>5. ASSUME Number(args[i]) # NotANumber, count_servers' = Number(args[i]),
               ~(count_servers' <= 0), Proceed
        PROVE  IInv'
    <3>1. ~Bad(args[i])
      BY <2>1, <2>2, <2>3, <2>5, ValueFacts
    <3>2. count_servers' \in Int /\ count_servers' = Stoi[args[i][2]]
      BY <1>5, <2>2, <2>5
    <3>. QED  BY <1>2, <2>1, <2>2, <2>3, <2>5, <3>1, <3>2, ProceedInv
  <2>. QED  BY <1>8, <2>4, <2>5 DEF SetServers
<1>9. CASE SetFilename
  <2>1. /\ Reading /\ args[i] \in Arguments /\ Matches(args[i]) /\ Proceed
        /\ UNCHANGED <<count_servers, server_port>>
    BY <1>3, <1>9 DEF SetFilename, Is
  <2>2. Option(args[i], "db") /\ db_filename' = Tail(args[i])
    BY <1>4, <1>9, <2>1, OptionFacts DEF SetFilename
  <2>3. ~Option(args[i], "srv") /\ ~Option(args[i], "port")
    BY <2>2 DEF Option
  <2>4. ~Bad(args[i])
    BY <2>1, <2>3, ValueFacts
  <2>5. db_filename' \in Seq(Words \cup {"users.db"})
    <3>1. args[i] \in Seq(Words \cup {"users.db"}) /\ args[i] # <<>>
      BY <2>1 DEF Arguments
    <3>. QED  BY <2>2, <3>1, HeadTailProperties
  <2>. QED  BY <1>2, <2>1, <2>2, <2>3, <2>4, <2>5, ProceedInv
<1>10. CASE SetPort
  <2>1. /\ Reading /\ args[i] \in Arguments /\ i \in DOMAIN args
        /\ Len(args) <= MaxArguments /\ Matches(args[i])
        /\ UNCHANGED <<count_servers, db_filename>>
    BY <1>3, <1>10 DEF SetPort, Is
  <2>2. Option(args[i], "port") /\ Number(args[i]) = Stoi[args[i][2]] /\ args[i][2] \in Words
    BY <1>4, <1>10, <2>1, OptionFacts DEF SetPort
  <2>3. ~Option(args[i], "db") /\ ~Option(args[i], "srv")
    BY <2>2 DEF Option
  <2>4. ASSUME Refuse,
               \/ Number(args[i]) = NotANumber /\ UNCHANGED server_port
               \/ Number(args[i]) # NotANumber /\ server_port' = Number(args[i])
                  /\ server_port' < 0
        PROVE  IInv'
    <3>1. Bad(args[i])
      BY <2>2, <2>4 DEF Bad
    <3>2. Len(args) > MaxArguments \/ \E k \in DOMAIN args : Bad(args[k])
      BY <2>1, <3>1
    <3>3. server_port' \in Int
      BY <1>2, <1>5, <2>2, <2>4
    <3>. QED  BY <1>2, <2>1, <2>4, <3>2, <3>3, RefuseInv DEF Refuse
  <2>5. ASSUME Number(args[i]) # NotANumber, server_port' = Number(args[i]),
               ~(server_port' < 0), Proceed
        PROVE  IInv'
    <3>1. ~Bad(args[i])
      BY <2>1, <2>2, <2>3, <2>5, ValueFacts
    <3>2. server_port' \in Int /\ server_port' = Stoi[args[i][2]]
      BY <1>5, <2>2, <2>5
    <3>. QED  BY <1>2, <2>1, <2>2, <2>3, <2>5, <3>1, <3>2, ProceedInv
  <2>. QED  BY <1>10, <2>4, <2>5 DEF SetPort
<1>11. CASE Unrecognized
  <2>1. /\ Reading /\ args[i] \in Arguments /\ Matches(args[i]) /\ Proceed
        /\ UNCHANGED <<count_servers, db_filename, server_port>>
    BY <1>3, <1>11 DEF Unrecognized
  <2>2. ~Option(args[i], "srv") /\ ~Option(args[i], "db") /\ ~Option(args[i], "port")
    BY <1>4, <1>11, <2>1, OptionFacts DEF Unrecognized
  <2>3. ~Bad(args[i])
    BY <2>1, <2>2, ValueFacts
  <2>. QED  BY <1>2, <2>1, <2>2, <2>3, ProceedInv
<1>12. CASE Accept
  BY <1>12, AcceptInv
<1>. QED  BY <1>1, <1>6, <1>7, <1>8, <1>9, <1>10, <1>11, <1>12 DEF Next

\* After each argument setup_args has assigned what was good and refused what was bad.
THEOREM Invariance == Spec => []IInv
  BY InitInv, NextInv, PTL DEF Spec

\* An argument that is recognised is given.
LEMMA OptionIsGiven ==
  ASSUME NEW a \in Arguments, NEW name, Option(a, name)
  PROVE  Given(a, name)
<1>1. PICK n \in Nat : a \in Seq(Words) /\ n = Len(a) /\ n \in {2, 3}
  BY DEF Arguments, Option
<1>2. Len(Tail(a)) = n - 1 /\ Tail(a)[1] = a[2]
  <2>1. a # <<>>
    BY <1>1
  <2>2. /\ Len(Tail(a)) = Len(a) - 1
        /\ \A j \in 1..Len(Tail(a)) : Tail(a)[j] = a[j + 1]
    BY <1>1, <2>1, HeadTailProperties
  <2>3. 1 \in 1..Len(Tail(a)) /\ 1 + 1 = 2
    BY <1>1, <2>2
  <2>4. Tail(a)[1] = a[1 + 1]
    BY <2>2, <2>3
  <2>. QED  BY <1>1, <2>2, <2>4
<1>3. Len(<<>>) = 0 /\ Len(<<Empty>>) = 1 /\ <<Empty>>[1] = Empty
  OBVIOUS
<1>4. ASSUME Tail(a) = <<>> PROVE FALSE
  <2>1. Len(Tail(a)) = 0
    BY <1>3, <1>4
  <2>. QED  BY <1>1, <1>2, <2>1
<1>5. ASSUME Tail(a) = <<Empty>> PROVE FALSE
  <2>1. Len(Tail(a)) = 1 /\ Tail(a)[1] = Empty
    BY <1>3, <1>5
  <2>2. n = 2
    BY <1>1, <1>2, <2>1
  <2>3. a[2] = Empty
    BY <1>2, <2>1
  <2>. QED  BY <1>1, <2>2, <2>3 DEF Option
<1>. QED  BY <1>4, <1>5 DEF Option, Given

\* As long as no argument for an option is misread, those given are those recognised.
LEMMA GivenFacts ==
  ASSUME IInv, NEW name, ~Misread(name)
  PROVE  /\ NeverGiven(name) => NeverWritten(name)
         /\ \A k \in DOMAIN args : LastGiven(k, name) => LastWritten(k, name)
<1>1. \A k \in 1..(i - 1) : args[k] \in Arguments
  BY SetupArgsAssumption DEF IInv, TypeOK
<1>2. \A k \in 1..(i - 1) : Given(args[k], name) <=> Written(k, name)
  BY <1>1, OptionIsGiven DEF Misread, Written
<1>3. NeverGiven(name) => NeverWritten(name)
  BY <1>2 DEF NeverGiven, NeverWritten
<1>4. ASSUME NEW k \in DOMAIN args, LastGiven(k, name) PROVE LastWritten(k, name)
  <2>1. \A j \in (k + 1)..(i - 1) : ~Given(args[j], name)
    BY <1>4 DEF LastGiven
  <2>2. k \in 1..(i - 1) /\ i \in Int
    BY <1>4, SetupArgsAssumption DEF LastGiven, IInv, TypeOK
  <2>3. \A j \in (k + 1)..(i - 1) : j \in 1..(i - 1)
    BY <2>2
  <2>. QED  BY <1>2, <1>4, <2>1, <2>2, <2>3 DEF LastGiven, LastWritten
<1>. QED  BY <1>3, <1>4

\* Each setting is what the last argument that gives it says, or its default, for every
\* command line in which no argument for it has an "=" inside its value.
THEOREM SettingsAreGiven == Spec => []LastOptionWins
<1>1. IInv => LastOptionWins
  BY GivenFacts DEF IInv, SettingsAreRead, LastOptionWins
<1>. QED  BY <1>1, Invariance, PTL

\* setup_args refuses a command line exactly when it is too long or has a bad argument.
THEOREM RefusalsAreJust == Spec => []RefusedForAReason
  BY Invariance, PTL DEF IInv

\* A value that the regular expression finds is not the empty string.
LEMMA ValueIsThere ==
  ASSUME NEW a \in Arguments, Matches(a)
  PROVE  Value(a) \notin {<<>>, <<Empty>>}
<1>1. PICK n \in Nat : a \in Seq(Words) /\ n = Len(a)
  BY DEF Arguments
<1>2. PICK g \in 1..(n - 1) : g = Greedy(a) /\ (g = n - 1 => a[n] # Empty)
  BY <1>1, GreedyFacts DEF Matches, Splits
<1>. DEFINE v == SubSeq(a, g + 1, n)
<1>3. Len(v) = n - g /\ Len(v) >= 1
  BY <1>1, <1>2
<1>4. ASSUME v = <<>> PROVE FALSE
  <2>1. Len(<<>>) = 0
    OBVIOUS
  <2>2. Len(v) = 0
    BY <1>4, <2>1
  <2>. QED  BY <1>3, <2>2
<1>5. ASSUME v = <<Empty>> PROVE FALSE
  <2>0. Len(<<Empty>>) = 1 /\ <<Empty>>[1] = Empty
    OBVIOUS
  <2>1. Len(v) = 1 /\ v[1] = Empty
    BY <1>5, <2>0
  <2>2. g = n - 1
    BY <1>2, <1>3, <2>1
  <2>3. v[1] = a[n]
    BY <1>1, <1>2, <2>2
  <2>. QED  BY <1>2, <2>1, <2>2, <2>3
<1>6. Value(a) = v
  BY <1>1, <1>2 DEF Value
<1>. HIDE DEF v
<1>. QED  BY <1>4, <1>5, <1>6

\* The settings that main goes on with name a file and give at least one server
\* and no negative port, whatever options come before and after one another.
THEOREM AcceptedIsUsable == Spec => []SettingsAreUsable
<1>1. Init => SettingsAreUsable
  BY DEF Init, SettingsAreUsable, DefaultServers, DefaultPort, DefaultFile, Empty
<1>2. ASSUME IInv, SettingsAreUsable, [Next]_vars PROVE SettingsAreUsable'
  <2>. USE <1>2
  <2>0. ASSUME NEW name \in OptionNames, Is(args[i], name), Reading
        PROVE  args[i] \in Arguments /\ Number(args[i]) \in Int \cup {NotANumber}
    <3>1. args \in Seq(Arguments) /\ i \in 1..Len(args)
      BY <2>0, SetupArgsAssumption DEF Reading, IInv, TypeOK
    <3>2. args[i] \in Arguments
      BY <3>1
    <3>. QED  BY <2>0, <3>2, OptionFacts, SetupArgsAssumption
  <2>1. CASE UNCHANGED vars
    BY <2>1 DEF vars, SettingsAreUsable
  <2>2. CASE TooMany \/ InvalidFormat
    BY <2>2 DEF TooMany, InvalidFormat, Refuse, SettingsAreUsable
  <2>3. CASE SetServers
    <3>1. Number(args[i]) \in Int \cup {NotANumber}
      BY <2>0, <2>3 DEF SetServers, OptionNames
    <3>. QED  BY <2>3, <3>1 DEF SetServers, Reading, Refuse, Proceed, SettingsAreUsable
  <2>4. CASE SetFilename
    <3>1. Value(args[i]) \notin {<<>>, <<Empty>>}
      BY <2>0, <2>4, ValueIsThere DEF SetFilename, Is, OptionNames
    <3>. QED  BY <2>4, <3>1 DEF SetFilename, Reading, Proceed, SettingsAreUsable
  <2>5. CASE SetPort
    <3>1. Number(args[i]) \in Int \cup {NotANumber}
      BY <2>0, <2>5 DEF SetPort, OptionNames
    <3>. QED  BY <2>5, <3>1 DEF SetPort, Reading, Refuse, Proceed, SettingsAreUsable
  <2>6. CASE Unrecognized
    BY <2>6 DEF Unrecognized, Reading, Proceed, SettingsAreUsable
  <2>7. CASE Accept
    BY <2>7 DEF Accept, SettingsAreUsable
  <2>. QED  BY <2>1, <2>2, <2>3, <2>4, <2>5, <2>6, <2>7 DEF Next
<1>. QED  BY <1>1, <1>2, Invariance, PTL DEF Spec
=============================================================================
