---------------------------- MODULE SessionProofs ----------------------------
(***************************************************************************)
(* Whatever the frontend and the backend, wherever opening fails and       *)
(* whenever `done` is posted: what is made is freed in order, and not      *)
(* while another thread may use it.  The argument is about the list of     *)
(* steps the main thread has left: which step may be behind which, and     *)
(* what holds when a step is the next one (SessionInv); and, for how a     *)
(* session ends, that what was made is still to be freed, and once, unless *)
(* jalv_update has closed from within a loop (FlowInv).                    *)
(***************************************************************************)
EXTENDS Session, SequenceTheorems, TLAPS

\* The steps that open a plugin, each put in front by the one before it.
Openers == {"open_world", "find_plugin", "choose_ui", "init_process",
            "create_ports", "open_backend", "check_features", "instantiate",
            "activate_process"}

\* The steps from there to a running program.
Activation == {"launch", "start_audio", "set_running", "enter", "window"}

Opening == {"frontend_init", "frontend_run"} \union Openers \union Activation

\* The steps of closing that are always behind a certain other one.
Chained == {"stop_plugin", "stop_worker", "unbuffer", "close_client",
            "free_plugin", "free_process", "free_world"}

Before(b) ==
  CASE b = "stop_plugin"  -> "stop_audio"
    [] b = "stop_worker"  -> "stop_plugin"
    [] b = "unbuffer"     -> "stop_worker"
    [] b = "close_client" -> "unbuffer"
    [] b = "free_plugin"  -> "close_client"
    [] b = "free_process" -> "free_plugin"
    [] b = "free_world"   -> "free_process"

Leading == {"stop_audio", "stop_plugin", "stop_worker", "unbuffer",
            "close_client", "free_plugin", "free_process"}

\* The step b may be right behind the step a.
Behind(a, b) ==
  /\ a # "free_backend"
  /\ b \notin Openers /\ b # "frontend_init"
  /\ b = "frontend_run" => a = "frontend_init"
  /\ b \in Activation => a \in Activation \ {"enter"}
  /\ b \in Chained => a = Before(b)

\* What is behind any other step is ordinary.
Tied == Leading \union (Activation \ {"enter"}) \union {"frontend_init"}
Ordinary(h) == h \notin Opening \union Chained

Linked(s) == \A i \in 2..Len(s) : Behind(s[i - 1], s[i])

\* Only GTK's application is quit, and only the console is entered.
Allowed == {s \in Steps : /\ s = "quit_app" => cfg.frontend = "gtk"
                          /\ s = "enter" => cfg.frontend = "console"}

\* The steps that stop the audio sooner or later.
Enders ==
  {"stop_audio"} \union
    CASE cfg.frontend = "console"  -> {"frontend_close"}
      [] cfg.frontend = "gtk"      -> {"gtk_loop", "app_shutdown"}
      [] cfg.frontend = "qt"       -> {"qt_loop", "qt_leave"}
      [] cfg.frontend = "internal" -> {"loaded"}

Has(s, E) == \E i \in 1..Len(s) : s[i] \in E

-----------------------------------------------------------------------------
(* What holds when h is the next step                                      *)

Lives(r) == life[r] = "live"

\* While the program opens, nothing was freed and no other thread runs; each
\* step finds what those before it have made.
Opened(h) ==
  /\ h \in Opening => failed = "none" /\ \A r \in Resource : life[r] # "freed"
  /\ h \in Opening \ Activation => ~audio /\ ~thread /\ ~active
  /\ h \in Opening \ {"frontend_init", "frontend_run", "open_world"} =>
       Lives("world") /\ Lives("done")
  /\ h \in {"create_ports", "open_backend", "check_features", "instantiate",
            "activate_process"} \union Activation =>
       (cfg.worker => Lives("workers"))
  /\ h \in {"open_backend", "check_features", "instantiate",
            "activate_process"} \union Activation => Lives("ports")
  /\ h \in {"check_features", "instantiate", "activate_process"}
           \union Activation => ~guest
  /\ h \in {"instantiate", "activate_process"} \union Activation =>
       Lives("controls")
  /\ h \in {"activate_process"} \union Activation => Lives("instance")
  /\ h \in Activation => Lives("buffers") /\ Lives("rings")

\* While it closes, what a step has stopped or freed stays so.
Closed(h) ==
  /\ h \in Chained => ~audio
  /\ h \in Chained \ {"stop_plugin"} => ~active
  /\ h \in Chained \ {"stop_plugin", "stop_worker"} => ~thread
  /\ h \in {"close_client", "free_plugin", "free_process", "free_world"} =>
       ~Lives("buffers")
  /\ h \in {"free_plugin", "free_process", "free_world"} => ~Lives("client")
  /\ h \in {"free_process", "free_world"} => ~Lives("instance") /\ ~Lives("ui")
  /\ h = "free_world" => ~Lives("ports") /\ ~Lives("controls")

\* The steps that are left: their order, what the next one finds, and that
\* the audio will be stopped.
ListOK ==
  /\ todo \in Seq(Allowed)
  /\ Linked(todo)
  /\ (todo # <<>> /\ Head(todo) = "frontend_init") =>
       todo = <<"frontend_init", "frontend_run", "frontend_close", "free_backend">>
  /\ audio => Has(todo, Enders)
  /\ (todo # <<>> /\ Head(todo) \in Activation) => Has(todo, Enders)
  /\ (todo # <<>> /\ Head(todo) \in Opening /\ cfg.frontend = "console") =>
       Has(todo, {"frontend_close"})

HeadOK == todo # <<>> => Opened(Head(todo)) /\ Closed(Head(todo))

\* What lives rests on what lives.
Stands ==
  /\ Lives("ports") \/ Lives("controls") \/ Lives("instance") => Lives("world")
  /\ Lives("client") => Lives("done")
  /\ Lives("instance") => Lives("controls")
  /\ Lives("buffers") => Lives("instance") /\ Lives("ports")
  /\ Lives("ui") => Lives("instance")

\* What the threads use, and how pointers are left.
LifeOK ==
  /\ Stands
  /\ life["buffers"] # "freed" /\ life["backend"] # "unset"
  /\ life["client"] = "freed" => Jack
  /\ (cfg.frontend = "gtk" /\ life["app"] = "unset") =>
       todo # <<>> /\ Head(todo) = "frontend_init"
  /\ guest => ~audio /\ ~Lives("client")
  /\ audio => /\ Lives("backend") /\ Lives("ports") /\ Lives("rings")
              /\ Lives("instance") /\ Lives("buffers")
              /\ failed = "none"
  /\ thread => Lives("workers") /\ Lives("instance")

KindsOK ==
  /\ cfg \in Configurations
  /\ life \in [Resource -> {"unset", "live", "freed"}]
  /\ audio \in BOOLEAN /\ guest \in BOOLEAN
  /\ active \in BOOLEAN /\ thread \in BOOLEAN /\ server \in BOOLEAN

SessionInv == KindsOK /\ LifeOK /\ ListOK /\ HeadOK

-----------------------------------------------------------------------------
(* Lists of steps                                                          *)

\* A list is shortened at its front.
LEMMA PopList ==
  ASSUME NEW S, NEW s \in Seq(S), s # <<>>, Linked(s)
  PROVE  /\ Tail(s) \in Seq(S) /\ Linked(Tail(s))
         /\ Tail(s) # <<>> => Behind(Head(s), Head(Tail(s)))
<1>1. /\ Tail(s) \in Seq(S) /\ Len(s) \in Nat /\ Len(s) >= 1
      /\ Len(Tail(s)) = Len(s) - 1
      /\ \A i \in 1..(Len(s) - 1) : Tail(s)[i] = s[i + 1]
  BY HeadTailProperties, EmptySeq
<1>2. Linked(Tail(s))
  <2> SUFFICES ASSUME NEW i \in 2..(Len(s) - 1)
               PROVE  Behind(Tail(s)[i - 1], Tail(s)[i])
    BY <1>1 DEF Linked
  <2>1. /\ Tail(s)[i - 1] = s[i] /\ Tail(s)[i] = s[i + 1]
        /\ i + 1 \in 2..Len(s) /\ (i + 1) - 1 = i
    BY <1>1
  <2> QED
    BY <2>1 DEF Linked
<1>3. ASSUME Tail(s) # <<>>
      PROVE  Behind(Head(s), Head(Tail(s)))
  <2>1. Len(Tail(s)) >= 1
    BY <1>1, <1>3, EmptySeq
  <2>2. /\ 2 \in 2..Len(s) /\ Head(Tail(s)) = s[2] /\ Head(s) = s[2 - 1]
    BY <1>1, <2>1
  <2> QED
    BY <2>2 DEF Linked
<1> QED
  BY <1>1, <1>2, <1>3

\* Lists are put together.
LEMMA JoinLists ==
  ASSUME NEW S, NEW p \in Seq(S), NEW q \in Seq(S), Linked(p), Linked(q),
         (p # <<>> /\ q # <<>>) => Behind(p[Len(p)], Head(q))
  PROVE  /\ p \o q \in Seq(S) /\ Linked(p \o q)
         /\ p # <<>> => p \o q # <<>> /\ Head(p \o q) = Head(p)
         /\ p = <<>> => p \o q = q
         /\ \A E : Has(p \o q, E) <=> Has(p, E) \/ Has(q, E)
<1>1. /\ p \o q \in Seq(S) /\ Len(p) \in Nat /\ Len(q) \in Nat
      /\ Len(p \o q) = Len(p) + Len(q)
      /\ \A i \in 1..(Len(p) + Len(q)) :
           (p \o q)[i] = IF i <= Len(p) THEN p[i] ELSE q[i - Len(p)]
  BY ConcatProperties
<1>2. Linked(p \o q)
  <2> SUFFICES ASSUME NEW i \in 2..(Len(p) + Len(q))
               PROVE  Behind((p \o q)[i - 1], (p \o q)[i])
    BY <1>1 DEF Linked
  <2>1. CASE i <= Len(p)
    <3>1. /\ (p \o q)[i] = p[i] /\ (p \o q)[i - 1] = p[i - 1]
          /\ i \in 2..Len(p)
      BY <1>1, <2>1
    <3> QED
      BY <3>1 DEF Linked
  <2>2. CASE i = Len(p) + 1
    <3>1. /\ (p \o q)[i] = q[1] /\ (p \o q)[i - 1] = p[Len(p)]
          /\ Len(p) >= 1 /\ Len(q) >= 1
      BY <1>1, <2>2
    <3>2. p # <<>> /\ q # <<>> /\ Head(q) = q[1]
      BY <3>1, EmptySeq
    <3> QED
      BY <3>1, <3>2
  <2>3. CASE i > Len(p) + 1
    <3> DEFINE k == i - Len(p)
    <3>1. /\ (p \o q)[i] = q[k] /\ (p \o q)[i - 1] = q[k - 1]
          /\ k \in 2..Len(q)
      BY <1>1, <2>3
    <3> QED
      BY <3>1 DEF Linked
  <2> QED
    BY <1>1, <2>1, <2>2, <2>3
<1>3. ASSUME p # <<>>
      PROVE  p \o q # <<>> /\ Head(p \o q) = Head(p)
  <2>1. Len(p) >= 1
    BY <1>1, <1>3, EmptySeq
  <2>2. (p \o q)[1] = p[1] /\ Len(p \o q) >= 1
    BY <1>1, <2>1
  <2> QED
    BY <1>1, <2>1, <2>2, EmptySeq
<1>4. p = <<>> => p \o q = q
  BY ConcatEmptySeq
<1>5. ASSUME NEW E
      PROVE  Has(p \o q, E) <=> Has(p, E) \/ Has(q, E)
  <2>1. ASSUME NEW i \in 1..Len(p), p[i] \in E PROVE Has(p \o q, E)
    BY <1>1, <2>1 DEF Has
  <2>2. ASSUME NEW i \in 1..Len(q), q[i] \in E PROVE Has(p \o q, E)
    <3>1. /\ (p \o q)[Len(p) + i] = q[i]
          /\ Len(p) + i \in 1..Len(p \o q)
      BY <1>1
    <3> QED
      BY <2>2, <3>1 DEF Has
  <2>3. ASSUME NEW i \in 1..Len(p \o q), (p \o q)[i] \in E
        PROVE  Has(p, E) \/ Has(q, E)
    <3>1. CASE i <= Len(p)
      BY <1>1, <2>3, <3>1 DEF Has
    <3>2. CASE i > Len(p)
      <4>1. (p \o q)[i] = q[i - Len(p)] /\ i - Len(p) \in 1..Len(q)
        BY <1>1, <3>2
      <4> QED
        BY <2>3, <4>1 DEF Has
    <3> QED
      BY <1>1, <3>1, <3>2
  <2> QED
    BY <2>1, <2>2, <2>3 DEF Has
<1> QED
  BY <1>1, <1>2, <1>3, <1>4, <1>5

\* What a list has is its first step or behind it.
LEMMA PopHas ==
  ASSUME NEW S, NEW s \in Seq(S), s # <<>>, NEW E, Has(s, E), Head(s) \notin E
  PROVE  Has(Tail(s), E)
<1>1. /\ Len(s) \in Nat /\ Len(Tail(s)) = Len(s) - 1 /\ Head(s) = s[1]
      /\ \A i \in 1..(Len(s) - 1) : Tail(s)[i] = s[i + 1]
  BY HeadTailProperties, EmptySeq
<1>2. PICK i \in 1..Len(s) : s[i] \in E
  BY DEF Has
<1>3. i # 1
  BY <1>1, <1>2
<1>4. i - 1 \in 1..Len(Tail(s)) /\ Tail(s)[i - 1] = s[i]
  BY <1>1, <1>3
<1> QED
  BY <1>2, <1>4 DEF Has

-----------------------------------------------------------------------------
(* The steps that are left after a step                                    *)

\* What a call may put in front of what is left.
Pushable(p) ==
  /\ p \in Seq(Allowed) /\ Linked(p)
  /\ p # <<>> => Ordinary(Head(p)) /\ p[Len(p)] # "free_backend"

\* Behind a step that ties nothing there is an ordinary one.
LEMMA BehindUntied ==
  ASSUME NEW a, NEW b, Behind(a, b), a \notin Tied
  PROVE  Ordinary(b)
<1>1. b \notin Chained
  BY DEF Behind, Before, Chained, Tied, Leading
<1>2. b \notin Activation
  BY DEF Behind, Tied
<1>3. b \notin {"frontend_init", "frontend_run"} \union Openers
  BY DEF Behind, Tied
<1> QED
  BY <1>1, <1>2, <1>3 DEF Ordinary, Opening

\* An ordinary step may be behind any but the last.
LEMMA BehindAny ==
  ASSUME NEW a, NEW b, Ordinary(b), a # "free_backend"
  PROVE  Behind(a, b)
BY DEF Ordinary, Opening, Behind

\* Nothing is asked of the state when the next step is an ordinary one.
LEMMA OrdinaryNext ==
  ASSUME NEW h, Ordinary(h)
  PROVE  Opened(h)' /\ Closed(h)'
<1>1. h \notin Opening /\ h \notin Chained
  BY DEF Ordinary
<1>2. Opened(h)'
  BY <1>1 DEF Opened, Opening, Openers
<1>3. Closed(h)'
  BY <1>1 DEF Closed, Chained
<1> QED
  BY <1>2, <1>3

\* The step that is next after a step, under a name of its own.
LEMMA HeadPrimed ==
  ASSUME NEW h, h = Head(todo'), Opened(h)', Closed(h)'
  PROVE  HeadOK'
<1>1. Opened(Head(todo))'
  BY DEF Opened
<1>2. Closed(Head(todo))'
  BY DEF Closed
<1> QED
  BY <1>1, <1>2 DEF HeadOK

\* A step that leaves the list alone keeps what is known of it.
LEMMA ListSame ==
  ASSUME ListOK, todo' = todo, cfg' = cfg, audio' => audio
  PROVE  ListOK'
<1>1. /\ Allowed' = Allowed /\ Enders' = Enders
      /\ Linked(todo)' <=> Linked(todo)
  BY DEF Allowed, Enders, Linked
<1>2. /\ Has(todo, Enders)' <=> Has(todo, Enders)
      /\ Has(todo, {"frontend_close"})' <=> Has(todo, {"frontend_close"})
  BY <1>1 DEF Has
<1> QED
  BY <1>1, <1>2 DEF ListOK

\* Nor of what holds when the next step stays the next one.
LEMMA HeadSame ==
  ASSUME HeadOK, todo' = todo, cfg' = cfg, life' = life, guest' = guest,
         active' = active, thread' = thread, failed' = failed,
         audio' => audio
  PROVE  HeadOK'
<1>0. ~audio => ~audio'
  OBVIOUS
<1>1. ASSUME NEW h, Opened(h) PROVE Opened(h)'
  BY <1>0, <1>1 DEF Opened, Lives
<1>2. ASSUME NEW h, Closed(h) PROVE Closed(h)'
  BY <1>0, <1>2 DEF Closed, Lives
<1>3. CASE todo = <<>>
  BY <1>3 DEF HeadOK
<1>4. CASE todo # <<>>
  <2>1. PICK h : h = Head(todo')
    OBVIOUS
  <2>2. Opened(h) /\ Closed(h)
    BY <1>4, <2>1 DEF HeadOK
  <2> QED
    BY <1>1, <1>2, <2>1, <2>2, HeadPrimed
<1> QED
  BY <1>3, <1>4

\* There is no fifth frontend.
LEMMA FrontendKnown ==
  ASSUME KindsOK
  PROVE  cfg.frontend \in {"console", "gtk", "qt", "internal"}
BY SessionAssumption DEF KindsOK, Configurations

\* A step of a loop or of a failure goes on with a call or with what is left.
LEMMA CallTodo ==
  ASSUME ListOK, todo # <<>>, Head(todo) \notin Tied, cfg' = cfg,
         NEW p, Pushable(p), todo' = p \o Tail(todo),
         audio' => audio /\ (Head(todo) \notin Enders \/ Has(p, Enders))
  PROVE  ListOK' /\ HeadOK' /\ (todo' # <<>> => Ordinary(Head(todo')))
<1>0. todo \in Seq(Allowed) /\ Linked(todo) /\ (audio => Has(todo, Enders))
  BY DEF ListOK
<1>1. /\ Tail(todo) \in Seq(Allowed) /\ Linked(Tail(todo))
      /\ Tail(todo) # <<>> => Ordinary(Head(Tail(todo)))
  BY <1>0, PopList, BehindUntied
<1>2. (p # <<>> /\ Tail(todo) # <<>>) => Behind(p[Len(p)], Head(Tail(todo)))
  BY <1>1, BehindAny DEF Pushable
<1>3. /\ todo' \in Seq(Allowed) /\ Linked(todo')
      /\ todo' # <<>> => Ordinary(Head(todo'))
      /\ \A E : Has(todo', E) <=> Has(p, E) \/ Has(Tail(todo), E)
  BY <1>1, <1>2, JoinLists DEF Pushable
<1>4. Allowed' = Allowed /\ Enders' = Enders
  BY DEF Allowed, Enders
<1>5. HeadOK'
  <2>1. CASE todo' = <<>>
    BY <2>1 DEF HeadOK
  <2>2. CASE todo' # <<>>
    BY <1>3, <2>2, OrdinaryNext, HeadPrimed
  <2> QED
    BY <2>1, <2>2
<1>6. audio' => Has(todo', Enders)
  BY <1>0, <1>3, PopHas
<1>7. todo' # <<>> => /\ Head(todo') \notin Opening
                      /\ Head(todo') \notin Activation
                      /\ Head(todo') # "frontend_init"
  BY <1>3 DEF Ordinary, Opening
<1>8. Linked(todo)' /\ (audio => Has(todo, Enders))'
  BY <1>3, <1>4, <1>6 DEF Linked, Has
<1>9. ListOK'
  BY <1>3, <1>4, <1>7, <1>8 DEF ListOK
<1> QED
  BY <1>3, <1>5, <1>9

\* A step of jalv_open goes on with the next one.
LEMMA OpenerTodo ==
  ASSUME ListOK, HeadOK, todo # <<>>,
         Head(todo) \in Openers \union {"frontend_run"},
         cfg' = cfg, audio' = audio, NEW x \in Openers,
         NEW p \in Seq(Allowed), Len(p) = 1, p[1] = x,
         todo' = p \o Tail(todo)
  PROVE  ListOK' /\ todo' # <<>> /\ Head(todo') = x
<1>0. /\ todo \in Seq(Allowed) /\ Linked(todo) /\ Opened(Head(todo))
      /\ (Head(todo) \in Opening /\ cfg.frontend = "console") =>
           Has(todo, {"frontend_close"})
  BY DEF ListOK, HeadOK
<1>1. /\ Head(todo) \notin Tied /\ Head(todo) \in Opening
      /\ Head(todo) \notin Activation /\ Head(todo) \notin {"frontend_close"}
      /\ x \in Allowed /\ x # "free_backend" /\ x \notin Activation
      /\ x # "frontend_init"
  BY DEF Openers, Tied, Leading, Activation, Opening, Allowed, Steps
<1>2. ~audio'
  BY <1>0, <1>1 DEF Opened
<1>3. /\ Tail(todo) \in Seq(Allowed) /\ Linked(Tail(todo))
      /\ Tail(todo) # <<>> => Ordinary(Head(Tail(todo)))
  BY <1>0, <1>1, PopList, BehindUntied
<1>4. p # <<>> /\ Head(p) = x
  <2>1. p # <<>>
    <3> SUFFICES ASSUME p = <<>> PROVE FALSE
      OBVIOUS
    <3>1. Len(p) = 0
      BY EmptySeq
    <3> QED
      BY <3>1
  <2>2. Head(p) = p[1]
    BY <2>1, HeadTailProperties
  <2> QED
    BY <2>1, <2>2
<1>5. Linked(p)
  BY <1>4 DEF Linked
<1>6. (Tail(todo) # <<>>) => Behind(p[Len(p)], Head(Tail(todo)))
  BY <1>1, <1>3, <1>4, BehindAny
<1>7. /\ todo' \in Seq(Allowed) /\ Linked(todo')
      /\ todo' # <<>> /\ Head(todo') = x
      /\ \A E : Has(todo', E) <=> Has(p, E) \/ Has(Tail(todo), E)
  BY <1>3, <1>4, <1>5, <1>6, JoinLists
<1>8. Allowed' = Allowed
  BY DEF Allowed
<1>9. cfg.frontend = "console" => Has(todo', {"frontend_close"})
  BY <1>0, <1>1, <1>7, PopHas
<1>10. Linked(todo)' /\ (cfg.frontend = "console" => Has(todo, {"frontend_close"}))'
  BY <1>7, <1>9 DEF Linked, Has
<1>11. ListOK'
  BY <1>1, <1>2, <1>7, <1>8, <1>10 DEF ListOK
<1> QED
  BY <1>7, <1>11

\* A step of activation or of closing goes on with what is left.
LEMMA PopTodo ==
  ASSUME ListOK, KindsOK, todo # <<>>, Head(todo) \in Leading \union Activation,
         cfg' = cfg, NEW t, t = Tail(todo), todo' = t,
         audio' => Has(todo, Enders) /\ Head(todo) \notin Enders
  PROVE  /\ ListOK'
         /\ todo' # <<>> => Behind(Head(todo), Head(todo'))
<1>0. /\ todo \in Seq(Allowed) /\ Linked(todo)
      /\ Head(todo) \in Activation => Has(todo, Enders)
      /\ (Head(todo) \in Opening /\ cfg.frontend = "console") =>
           Has(todo, {"frontend_close"})
  BY DEF ListOK
<1>1. /\ todo' \in Seq(Allowed) /\ Linked(todo')
      /\ todo' # <<>> => Behind(Head(todo), Head(todo'))
  BY <1>0, PopList
<1>2. Allowed' = Allowed /\ Enders' = Enders
  BY DEF Allowed, Enders
<1>3. ASSUME NEW h, Behind(Head(todo), h)
      PROVE  /\ h # "frontend_init"
             /\ h \in Opening => h \in Activation
             /\ h \in Activation => Head(todo) \in Activation
  BY <1>3 DEF Behind, Opening, Activation, Leading
<1>4. Head(todo) \in Activation => /\ Head(todo) \notin Enders
                                  /\ Head(todo) \notin {"frontend_close"}
                                  /\ Head(todo) \in Opening
  BY FrontendKnown DEF Activation, Enders, Opening
<1>5. audio' => Has(todo', Enders)
  BY <1>0, PopHas
<1>6. Head(todo) \in Activation => Has(todo', Enders)
  BY <1>0, <1>4, PopHas
<1>7. (Head(todo) \in Activation /\ cfg.frontend = "console") =>
         Has(todo', {"frontend_close"})
  BY <1>0, <1>4, PopHas
<1>8. /\ Linked(todo)'
      /\ (audio => Has(todo, Enders))'
      /\ (Head(todo) \in Activation => Has(todo, Enders)')
      /\ (Head(todo) \in Activation /\ cfg.frontend = "console") =>
           Has(todo, {"frontend_close"})'
  BY <1>1, <1>2, <1>5, <1>6, <1>7 DEF Linked, Has
<1>9. todo' # <<>> => /\ Head(todo') # "frontend_init"
                      /\ Head(todo') \in Opening => Head(todo) \in Activation
                      /\ Head(todo') \in Activation => Head(todo) \in Activation
  BY <1>1, <1>3
<1>10. ListOK'
  BY <1>1, <1>2, <1>8, <1>9 DEF ListOK
<1> QED
  BY <1>1, <1>10

-----------------------------------------------------------------------------
(* What the functions put in front                                         *)

\* A function that returns at once puts nothing in front.
LEMMA PushNone == Pushable(<<>>)
<1>1. <<>> \in Seq(Allowed) /\ Len(<<>>) = 0
  BY EmptySeq
<1> QED
  BY <1>1 DEF Pushable, Linked

\* One step in front.
LEMMA PushOne ==
  ASSUME NEW x \in Allowed, Ordinary(x), x # "free_backend"
  PROVE  Pushable(<<x>>) /\ \A E : x \in E => Has(<<x>>, E)
<1> DEFINE p == <<x>>
<1>1. p \in Seq(Allowed) /\ Len(p) = 1 /\ p[1] = x /\ p # <<>> /\ Head(p) = x
  OBVIOUS
<1> HIDE DEF p
<1>2. Pushable(p) /\ \A E : x \in E => Has(p, E)
  BY <1>1 DEF Pushable, Linked, Has
<1> QED
  BY <1>2 DEF p

\* Two steps in front.
LEMMA PushTwo ==
  ASSUME NEW x \in Allowed, NEW y \in Allowed, Ordinary(x), Ordinary(y),
         x # "free_backend", y # "free_backend"
  PROVE  /\ Pushable(<<x, y>>)
         /\ \A E : y \in E => Has(<<x, y>>, E)
<1> DEFINE p == <<x, y>>
<1>1. /\ p \in Seq(Allowed) /\ Len(p) = 2 /\ p[1] = x /\ p[2] = y /\ p # <<>>
      /\ Head(p) = x
  OBVIOUS
<1>2. Behind(x, y)
  BY BehindAny
<1> HIDE DEF p
<1>3. Linked(p)
  <2> SUFFICES ASSUME NEW i \in 2..Len(p) PROVE Behind(p[i - 1], p[i])
    BY DEF Linked
  <2>1. i = 2 /\ i - 1 = 1
    BY <1>1
  <2> QED
    BY <1>1, <1>2, <2>1
<1>4. Pushable(p) /\ \A E : y \in E => Has(p, E)
  BY <1>1, <1>3 DEF Pushable, Has
<1> QED
  BY <1>4 DEF p

\* The last step of two lists is the last of the second.
LEMMA LastJoined ==
  ASSUME NEW S, NEW p \in Seq(S), NEW q \in Seq(S), q # <<>>
  PROVE  (p \o q)[Len(p \o q)] = q[Len(q)]
<1>1. Len(q) \in Nat /\ Len(q) >= 1 /\ Len(p) \in Nat
  BY EmptySeq
<1>2. /\ Len(p \o q) = Len(p) + Len(q)
      /\ \A i \in 1..(Len(p) + Len(q)) :
           (p \o q)[i] = IF i <= Len(p) THEN p[i] ELSE q[i - Len(p)]
  BY ConcatProperties
<1>3. (Len(p) + Len(q)) - Len(p) = Len(q) /\ ~(Len(p) + Len(q) <= Len(p))
  BY <1>1
<1> QED
  BY <1>1, <1>2, <1>3

\* One list in front of another.
LEMMA PushBoth ==
  ASSUME NEW p, NEW q, Pushable(p), Pushable(q)
  PROVE  Pushable(p \o q) /\ \A E : Has(p \o q, E) <=> Has(p, E) \/ Has(q, E)
<1>1. /\ p \in Seq(Allowed) /\ q \in Seq(Allowed) /\ Linked(p) /\ Linked(q)
      /\ p # <<>> => Ordinary(Head(p)) /\ p[Len(p)] # "free_backend"
      /\ q # <<>> => Ordinary(Head(q)) /\ q[Len(q)] # "free_backend"
  BY DEF Pushable
<1>2. (p # <<>> /\ q # <<>>) => Behind(p[Len(p)], Head(q))
  BY <1>1, BehindAny
<1>3. /\ p \o q \in Seq(Allowed) /\ Linked(p \o q)
      /\ p # <<>> => p \o q # <<>> /\ Head(p \o q) = Head(p)
      /\ p = <<>> => p \o q = q
      /\ \A E : Has(p \o q, E) <=> Has(p, E) \/ Has(q, E)
  BY <1>1, <1>2, JoinLists
<1>4. q = <<>> => p \o q = p
  BY <1>1, ConcatEmptySeq
<1>5. q # <<>> => (p \o q)[Len(p \o q)] = q[Len(q)]
  BY <1>1, LastJoined
<1>6. Pushable(p \o q)
  BY <1>1, <1>3, <1>4, <1>5 DEF Pushable
<1> QED
  BY <1>3, <1>6

\* jalv_close, and jalv_deactivate before it, stop the audio first.
LEMMA PushClosing ==
  /\ Pushable(Close) /\ Has(Close, Enders)
  /\ Pushable(Deactivate \o Close) /\ Has(Deactivate \o Close, Enders)
<1> DEFINE d == Deactivate
           r == <<"unbuffer", "close_client", "free_plugin", "free_process",
                  "free_world">>
<1>1. /\ {"stop_audio", "stop_plugin", "stop_worker"} \subseteq Allowed
      /\ {"unbuffer", "close_client", "free_plugin", "free_process",
          "free_world"} \subseteq Allowed
      /\ "stop_audio" \in Enders
  BY DEF Allowed, Steps, Enders
<1>2. /\ d \in Seq(Allowed) /\ Len(d) = 3 /\ d # <<>> /\ Head(d) = "stop_audio"
      /\ d[1] = "stop_audio" /\ d[2] = "stop_plugin" /\ d[3] = "stop_worker"
  BY <1>1 DEF Deactivate
<1>3. /\ r \in Seq(Allowed) /\ Len(r) = 5 /\ r # <<>> /\ Head(r) = "unbuffer"
      /\ r[1] = "unbuffer" /\ r[2] = "close_client" /\ r[3] = "free_plugin"
      /\ r[4] = "free_process" /\ r[5] = "free_world"
  BY <1>1
<1>4. Close = d \o r
  BY DEF Close
<1> HIDE DEF d, r
<1>5. /\ Behind("stop_audio", "stop_plugin")
      /\ Behind("stop_plugin", "stop_worker")
      /\ Behind("stop_worker", "unbuffer")
  BY DEF Behind, Openers, Activation, Before
<1>6. /\ Behind("unbuffer", "close_client")
      /\ Behind("close_client", "free_plugin")
      /\ Behind("free_plugin", "free_process")
      /\ Behind("free_process", "free_world")
  BY DEF Behind, Openers, Activation, Before
<1>7. Ordinary("stop_audio")
  BY DEF Ordinary, Opening, Openers, Activation, Chained
<1>8. Linked(d)
  <2> SUFFICES ASSUME NEW i \in 2..Len(d) PROVE Behind(d[i - 1], d[i])
    BY DEF Linked
  <2>1. (i = 2 /\ i - 1 = 1) \/ (i = 3 /\ i - 1 = 2)
    BY <1>2
  <2> QED
    BY <1>2, <1>5, <2>1
<1>9. Linked(r)
  <2> SUFFICES ASSUME NEW i \in 2..Len(r) PROVE Behind(r[i - 1], r[i])
    BY DEF Linked
  <2>1. \/ i = 2 /\ i - 1 = 1
        \/ i = 3 /\ i - 1 = 2
        \/ i = 4 /\ i - 1 = 3
        \/ i = 5 /\ i - 1 = 4
    BY <1>3
  <2> QED
    BY <1>3, <1>6, <2>1
<1>10. /\ d \o r \in Seq(Allowed) /\ Linked(d \o r)
       /\ d \o r # <<>> /\ Head(d \o r) = "stop_audio"
       /\ \A E : Has(d \o r, E) <=> Has(d, E) \/ Has(r, E)
  <2>1. Behind(d[Len(d)], Head(r))
    BY <1>2, <1>3, <1>5
  <2>2. /\ d \in Seq(Allowed) /\ r \in Seq(Allowed) /\ d # <<>>
        /\ Head(d) = "stop_audio"
    BY <1>2, <1>3
  <2> QED
    BY <2>1, <2>2, <1>8, <1>9, JoinLists
<1>11. (d \o r)[Len(d \o r)] = "free_world"
  <2>1. d \in Seq(Allowed) /\ r \in Seq(Allowed) /\ Len(d) = 3 /\ Len(r) = 5
    BY <1>2, <1>3
  <2>2. /\ Len(d \o r) = Len(d) + Len(r)
        /\ \A i \in 1..(Len(d) + Len(r)) :
             (d \o r)[i] = IF i <= Len(d) THEN d[i] ELSE r[i - Len(d)]
    BY <2>1, ConcatProperties
  <2>3. Len(d \o r) = 8 /\ (d \o r)[8] = r[5]
    BY <2>1, <2>2
  <2> QED
    BY <1>3, <2>3
<1>12. Pushable(Close)
  BY <1>4, <1>7, <1>10, <1>11 DEF Pushable
<1>13. Pushable(d)
  BY <1>2, <1>7, <1>8 DEF Pushable
<1>14. Has(d, Enders)
  BY <1>1, <1>2 DEF Has
<1>15. Has(Close, Enders)
  BY <1>4, <1>10, <1>14
<1>16. Pushable(d \o Close) /\ Has(d \o Close, Enders)
  BY <1>12, <1>13, <1>14, PushBoth
<1> QED
  BY <1>12, <1>15, <1>16 DEF d

\* Closing the frontend stops the audio or has its loop end.
LEMMA PushFrontendClose ==
  ASSUME KindsOK
  PROVE  /\ Pushable(FrontendClose)
         /\ cfg.frontend = "console" => Has(FrontendClose, Enders)
<1>1. CASE cfg.frontend = "console"
  <2>1. FrontendClose = Deactivate \o Close
    BY <1>1 DEF FrontendClose
  <2> QED
    BY <2>1, PushClosing
<1>2. CASE cfg.frontend = "gtk"
  <2>1. FrontendClose = <<"quit_app">>
    BY <1>2 DEF FrontendClose
  <2>2. "quit_app" \in Allowed /\ Ordinary("quit_app")
    BY <1>2 DEF Allowed, Steps, Ordinary, Opening, Openers, Activation, Chained
  <2> QED
    BY <1>2, <2>1, <2>2, PushOne
<1>3. CASE cfg.frontend \notin {"console", "gtk"}
  <2>1. FrontendClose = <<"quit_loop">>
    BY <1>3 DEF FrontendClose
  <2>2. "quit_loop" \in Allowed /\ Ordinary("quit_loop")
    BY DEF Allowed, Steps, Ordinary, Opening, Openers, Activation, Chained
  <2> QED
    BY <1>3, <2>1, <2>2, PushOne
<1> QED
  BY <1>1, <1>2, <1>3

\* What a frontend does when jalv_open has failed.
LEMMA PushAfterFailure ==
  Pushable(AfterFailure)
<1>1. "app_shutdown" \in Allowed /\ Ordinary("app_shutdown")
  BY DEF Allowed, Steps, Ordinary, Opening, Openers, Activation, Chained
<1>2. Pushable(<<"app_shutdown">>)
  BY <1>1, PushOne
<1>3. \/ AfterFailure = <<"app_shutdown">> \/ AfterFailure = Close
      \/ AfterFailure = <<>>
  BY DEF AfterFailure
<1> QED
  BY <1>2, <1>3, PushClosing, PushNone

-----------------------------------------------------------------------------
(* One step                                                                *)

\* What a step does to what was allocated: it makes or gives back, and gives
\* the instance back only when nothing else runs.
LifeStep ==
  /\ \/ \A r \in Resource : life'[r] # life[r] =>
          life[r] = "unset" /\ life'[r] = "live"
     \/ \A r \in Resource : life'[r] # life[r] =>
          life[r] = "live" /\ life'[r] \in {"unset", "freed"}
  /\ (life["instance"] = "live" /\ life'["instance"] # "live") =>
        ~audio /\ ~thread /\ ~active

Kept == SessionInv' /\ LifeStep

\* A step of the program that changes nothing but the steps that are left.
LEMMA StepsOnly ==
  ASSUME SessionInv, todo # <<>>, Head(todo) \notin Tied,
         cfg' = cfg, life' = life, audio' = audio, guest' = guest,
         active' = active, thread' = thread, server' = server,
         failed' = failed,
         NEW p, Pushable(p), todo' = p \o Tail(todo),
         audio => Head(todo) \notin Enders \/ Has(p, Enders)
  PROVE  Kept
<1>1. KindsOK'
  BY DEF SessionInv, KindsOK
<1>2. ListOK' /\ HeadOK'
  BY CallTodo DEF SessionInv
<1>3. LifeOK'
  <2>1. Head(todo) # "frontend_init"
    BY DEF Tied
  <2> QED
    BY <2>1 DEF SessionInv, LifeOK, Stands, Lives, Jack
<1> QED
  BY <1>1, <1>2, <1>3 DEF SessionInv, Kept, LifeStep

\* The steps that a loop or a dialog goes on with.
Simple == {"check", "poll", "update", "wait", "ui_check", "ui_update",
           "ui_idle", "first_update", "gtk_loop", "gtk_dialog", "gtk_refresh",
           "app_shutdown", "qt_loop", "qt_leave", "apply_wait"}

\* Each of them may be put in front.
LEMMA PushSimple ==
  ASSUME NEW x \in Simple
  PROVE  /\ x \in Allowed /\ Ordinary(x) /\ x # "free_backend"
         /\ Pushable(<<x>>) /\ \A E : x \in E => Has(<<x>>, E)
         /\ x \notin Tied
<1>1. x \in Allowed /\ Ordinary(x) /\ x # "free_backend" /\ x \notin Tied
  BY DEF Simple, Allowed, Steps, Ordinary, Opening, Openers, Activation,
         Chained, Tied, Leading
<1> QED
  BY <1>1, PushOne

\* jalv_update, wherever it is called
LEMMA UpdateKept ==
  ASSUME SessionInv, NEW step \in Simple, NEW closed, NEW next,
         Update(step, closed, next), Pushable(closed), Pushable(next),
         step \in Enders => Has(closed, Enders) /\ Has(next, Enders)
  PROVE  Kept
<1>1. /\ todo # <<>> /\ Head(todo) = step
      /\ cfg' = cfg /\ life' = life /\ audio' = audio /\ guest' = guest
      /\ active' = active /\ thread' = thread /\ server' = server
      /\ failed' = failed
      /\ \/ todo' = (FrontendClose \o closed) \o Tail(todo)
         \/ todo' = next \o Tail(todo)
  BY DEF Update, At, Then, world, engine
<1>2. step \notin Tied
  BY PushSimple
<1>3. CASE todo' = (FrontendClose \o closed) \o Tail(todo)
  <2>1. Pushable(FrontendClose)
    BY PushFrontendClose DEF SessionInv
  <2>2. /\ Pushable(FrontendClose \o closed)
        /\ step \in Enders => Has(FrontendClose \o closed, Enders)
    BY <2>1, PushBoth
  <2> QED
    BY <1>1, <1>2, <1>3, <2>2, StepsOnly
<1>4. CASE todo' = next \o Tail(todo)
  BY <1>1, <1>2, <1>4, StepsOnly
<1> QED
  BY <1>1, <1>3, <1>4

\* The calls of jalv_update, in the order of the frontends.
LEMMA UpdatesKept ==
  ASSUME SessionInv,
         FirstUpdate \/ ConsoleUpdate \/ UiUpdate \/ GtkTimer \/ QtTimer
  PROVE  Kept
<1>0. KindsOK
  BY DEF SessionInv
<1>1. CASE FirstUpdate
  <2>1. "first_update" \in Simple /\ "check" \in Simple
    BY DEF Simple
  <2>2. "first_update" \notin Enders
    BY <1>0, FrontendKnown DEF Enders
  <2>3. Update("first_update", <<>>, <<"check">>)
    BY <1>1 DEF FirstUpdate
  <2> QED
    BY <2>1, <2>2, <2>3, PushNone, PushSimple, UpdateKept
<1>2. CASE ConsoleUpdate
  <2>1. "update" \in Simple /\ "check" \in Simple
    BY DEF Simple
  <2>2. "update" \notin Enders
    BY <1>0, FrontendKnown DEF Enders
  <2>3. Update("update", <<"check">>, <<"check">>)
    BY <1>2 DEF ConsoleUpdate
  <2> QED
    BY <2>1, <2>2, <2>3, PushSimple, UpdateKept
<1>3. CASE UiUpdate
  <2>1. "ui_update" \in Simple /\ "ui_idle" \in Simple
    BY DEF Simple
  <2>2. "ui_update" \notin Enders
    BY <1>0, FrontendKnown DEF Enders
  <2>3. Update("ui_update", <<"ui_idle">>, <<"ui_idle">>)
    BY <1>3 DEF UiUpdate
  <2> QED
    BY <2>1, <2>2, <2>3, PushSimple, UpdateKept
<1>4. ASSUME NEW step \in {"gtk_loop", "gtk_dialog"},
             Update(step, <<step>>, <<step>>)
      PROVE  Kept
  <2>1. step \in Simple
    BY DEF Simple
  <2>2. Pushable(<<step>>) /\ (step \in Enders => Has(<<step>>, Enders))
    BY <2>1, PushSimple
  <2> QED
    BY <1>4, <2>1, <2>2, UpdateKept
<1>5. GtkTimer => Kept
  BY <1>4 DEF GtkTimer
<1>6. CASE QtTimer
  <2>1. "qt_loop" \in Simple /\ "qt_leave" \in Simple
    BY DEF Simple
  <2>2. "qt_loop" \in Enders => "qt_leave" \in Enders
    BY <1>0, FrontendKnown DEF Enders
  <2>3. Update("qt_loop", <<"qt_leave">>, <<"qt_loop">>)
    BY <1>6 DEF QtTimer
  <2>4. /\ Pushable(<<"qt_leave">>) /\ Pushable(<<"qt_loop">>)
        /\ "qt_loop" \in Enders => /\ Has(<<"qt_leave">>, Enders)
                                  /\ Has(<<"qt_loop">>, Enders)
    BY <2>1, <2>2, PushSimple
  <2> QED
    BY <2>1, <2>3, <2>4, UpdateKept
<1> QED
  BY <1>1, <1>2, <1>3, <1>5, <1>6

\* What these steps leave alone.
Still ==
  /\ cfg' = cfg /\ life' = life /\ audio' = audio /\ guest' = guest
  /\ active' = active /\ thread' = thread /\ server' = server
  /\ failed' = failed

\* Steps of the loops whose place another step of the loop takes.
LEMMA LoopsKept ==
  ASSUME SessionInv,
         \/ CheckDone \/ Poll \/ Wait \/ UiCheck \/ UiIdle \/ CloseDialog
         \/ RefreshWindow \/ QuitLoop \/ ApplyState
  PROVE  Kept
<1> DEFINE ps == {<<>>, <<"poll">>, <<"update">>, <<"wait">>, <<"ui_update">>,
                  <<"ui_check">>, <<"gtk_refresh">>}
           hs == {"check", "poll", "wait", "ui_check", "ui_idle", "gtk_dialog",
                  "gtk_refresh", "quit_loop", "apply_wait"}
           Goes == \E p \in ps : todo' = p \o Tail(todo)
           Ok == todo # <<>> /\ Head(todo) \in hs /\ Still /\ Goes
<1>1. CheckDone => Ok
  BY DEF CheckDone, At, Then, Still, world, engine, story
<1>2. Poll => Ok
  BY DEF Poll, At, Then, Still, world, engine, story
<1>3. Wait => Ok
  BY DEF Wait, At, Then, Still, world, engine, story
<1>4. UiCheck => Ok
  BY DEF UiCheck, At, Then, Still, world, engine, story
<1>5. UiIdle => Ok
  BY DEF UiIdle, At, Then, Still, world, engine, story
<1>6. CloseDialog => Ok
  BY DEF CloseDialog, At, Then, Still, world, engine, story
<1>7. RefreshWindow => Ok
  BY DEF RefreshWindow, At, Then, Still, world, engine, story
<1>8. QuitLoop => Ok
  BY DEF QuitLoop, At, Then, Still, world, engine, story
<1>9. ApplyState => Ok
  BY DEF ApplyState, At, Then, Still, world, story
<1>10. Ok
  BY <1>1, <1>2, <1>3, <1>4, <1>5, <1>6, <1>7, <1>8, <1>9
<1>11. Head(todo) \notin Tied /\ Head(todo) \notin Enders
  <2>1. hs \cap Tied = {}
    BY DEF Tied, Leading, Activation
  <2>2. hs \cap Enders = {}
    BY FrontendKnown DEF SessionInv, Enders
  <2> QED
    BY <1>10, <2>1, <2>2
<1>12. \A p \in ps : Pushable(p)
  <2>1. {"poll", "update", "wait", "ui_update", "ui_check", "gtk_refresh"}
          \subseteq Simple
    BY DEF Simple
  <2>2. \A x \in Simple : Pushable(<<x>>)
    BY PushSimple
  <2> QED
    BY <2>1, <2>2, PushNone
<1>13. PICK p \in ps : todo' = p \o Tail(todo)
  BY <1>10
<1>14. Pushable(p)
  BY <1>12
<1> HIDE DEF ps, hs
<1> QED
  BY <1>10, <1>11, <1>13, <1>14, StepsOnly DEF Still

\* The loops end and are left, and close.
LEMMA EndsKept ==
  ASSUME SessionInv,
         CloseWindow \/ OpenDialog \/ AppShutdown \/ QtLeave \/ Unload
           \/ CallFrontendClose
  PROVE  Kept
<1>0. KindsOK
  BY DEF SessionInv
<1>1. CASE CloseWindow
  <2>1. PICK h \in {"gtk_loop", "qt_loop"} :
          \E x \in {"app_shutdown", "qt_leave"} :
            /\ h = "gtk_loop" <=> x = "app_shutdown"
            /\ todo # <<>> /\ Head(todo) = h /\ Still
            /\ todo' = <<x>> \o Tail(todo)
    BY <1>1 DEF CloseWindow, At, Then, Still, world, engine, story
  <2>2. PICK x \in {"app_shutdown", "qt_leave"} :
            /\ h = "gtk_loop" <=> x = "app_shutdown"
            /\ todo # <<>> /\ Head(todo) = h /\ Still
            /\ todo' = <<x>> \o Tail(todo)
    BY <2>1
  <2>3. h \in Simple /\ x \in Simple
    BY DEF Simple
  <2>4. h \in Enders => x \in Enders
    BY <1>0, <2>2, FrontendKnown DEF Enders
  <2>5. /\ h \notin Tied /\ Pushable(<<x>>)
        /\ h \in Enders => Has(<<x>>, Enders)
    BY <2>3, <2>4, PushSimple
  <2> QED
    BY <2>2, <2>5, StepsOnly DEF Still
<1>2. CASE OpenDialog
  <2>1. /\ todo # <<>> /\ Head(todo) = "gtk_loop" /\ Still
        /\ todo' = <<"gtk_dialog", "gtk_loop">> \o Tail(todo)
    BY <1>2 DEF OpenDialog, At, Then, Still, world, engine, story
  <2>2. "gtk_loop" \in Simple /\ "gtk_dialog" \in Simple
    BY DEF Simple
  <2>3. /\ "gtk_loop" \notin Tied
        /\ Pushable(<<"gtk_dialog", "gtk_loop">>)
        /\ "gtk_loop" \in Enders => Has(<<"gtk_dialog", "gtk_loop">>, Enders)
    BY <2>2, PushSimple, PushTwo
  <2> QED
    BY <2>1, <2>3, StepsOnly DEF Still
<1>3. CASE AppShutdown
  <2> DEFINE p == IF failed = "none" THEN Close ELSE <<>>
  <2>1. /\ todo # <<>> /\ Head(todo) = "app_shutdown" /\ Still
        /\ todo' = p \o Tail(todo)
    BY <1>3 DEF AppShutdown, At, Then, Still, world, engine, story
  <2>2. Pushable(p) /\ (failed = "none" => Has(p, Enders))
    BY PushClosing, PushNone
  <2>3. audio => failed = "none"
    BY DEF SessionInv, LifeOK
  <2>4. "app_shutdown" \notin Tied
    BY DEF Tied, Leading, Activation
  <2> HIDE DEF p
  <2> QED
    BY <2>1, <2>2, <2>3, <2>4, StepsOnly DEF Still
<1>4. CASE QtLeave \/ Unload
  <2>1. /\ todo # <<>> /\ Head(todo) \in {"qt_leave", "loaded"} /\ Still
        /\ todo' = (Deactivate \o Close) \o Tail(todo)
    BY <1>4 DEF QtLeave, Unload, At, Then, Still, world, engine, story
  <2>2. Head(todo) \notin Tied
    BY <2>1 DEF Tied, Leading, Activation
  <2> QED
    BY <2>1, <2>2, PushClosing, StepsOnly DEF Still
<1>5. CASE CallFrontendClose
  <2>1. /\ todo # <<>> /\ Head(todo) = "frontend_close" /\ Still
        /\ todo' = FrontendClose \o Tail(todo)
    BY <1>5 DEF CallFrontendClose, At, Then, Still, world, engine, story
  <2>2. "frontend_close" \notin Tied
    BY DEF Tied, Leading, Activation
  <2>3. "frontend_close" \in Enders => cfg.frontend = "console"
    BY <1>0, FrontendKnown DEF Enders
  <2> QED
    BY <1>0, <2>1, <2>2, <2>3, PushFrontendClose, StepsOnly DEF Still
<1> QED
  BY <1>1, <1>2, <1>3, <1>4, <1>5

\* jalv_apply_state waits in front of the loop that called it.
LEMMA AskPauseKept ==
  ASSUME SessionInv, AskPause
  PROVE  Kept
<1> DEFINE y == IF Head(todo) = "poll" THEN "update" ELSE Head(todo)
<1>1. /\ todo # <<>> /\ Head(todo) \in {"poll", "gtk_loop", "qt_loop"} /\ Still
      /\ todo' = <<"apply_wait", y>> \o Tail(todo)
  BY DEF AskPause, At, Then, Still, world, story
<1>2. y \in Simple /\ "apply_wait" \in Simple /\ Head(todo) \in Simple
  BY <1>1 DEF Simple
<1>3. Head(todo) \in Enders => y = Head(todo)
  BY FrontendKnown DEF SessionInv, Enders
<1> HIDE DEF y
<1>4. /\ Pushable(<<"apply_wait", y>>)
      /\ y \in Enders => Has(<<"apply_wait", y>>, Enders)
  BY <1>2, PushSimple, PushTwo
<1> QED
  BY <1>1, <1>2, <1>3, <1>4, PushSimple, StepsOnly DEF Still

\* Other threads leave the main thread's steps alone, but a signal ends a poll.
LEMMA OthersKept ==
  ASSUME SessionInv,
         ProcessGate \/ BufferSize \/ Signal \/ ServerShutdown \/ UseAfterFree
  PROVE  Kept
<1>1. CASE Signal /\ todo' = <<>> \o Tail(todo) /\ todo # <<>>
           /\ Head(todo) = "poll"
  <2>1. Still
    BY <1>1 DEF Signal, Still, engine
  <2>2. "poll" \in Simple /\ "poll" \notin Enders
    BY FrontendKnown DEF SessionInv, Simple, Enders
  <2> QED
    BY <1>1, <2>1, <2>2, PushSimple, PushNone, StepsOnly DEF Still
<1>2. ASSUME todo' = todo, cfg' = cfg, life' = life, guest' = guest,
             active' = active, thread' = thread, failed' = failed,
             server' \in BOOLEAN, audio' \in BOOLEAN, audio' => audio
      PROVE  Kept
  <2>1. KindsOK' /\ LifeOK'
    BY <1>2 DEF SessionInv, KindsOK, LifeOK, Stands, Lives, Jack
  <2>2. ListOK' /\ HeadOK'
    BY <1>2, ListSame, HeadSame DEF SessionInv
  <2> QED
    BY <1>2, <2>1, <2>2 DEF SessionInv, Kept, LifeStep
<1>3. KindsOK
  BY DEF SessionInv
<1>4. CASE ProcessGate
  BY <1>2, <1>3, <1>4 DEF ProcessGate, KindsOK, world, story
<1>5. CASE BufferSize
  BY <1>2, <1>3, <1>5 DEF BufferSize, KindsOK, world, story
<1>6. CASE ServerShutdown
  BY <1>2, <1>3, <1>6 DEF ServerShutdown, KindsOK
<1>7. CASE UseAfterFree
  BY <1>2, <1>3, <1>7 DEF UseAfterFree, KindsOK, world, engine
<1>8. CASE Signal
  <2>1. \/ todo' = todo
        \/ todo # <<>> /\ Head(todo) = "poll" /\ todo' = Tail(todo)
    BY <1>8 DEF Signal
  <2>2. CASE todo' = todo
    BY <1>2, <1>3, <1>8, <2>2 DEF Signal, KindsOK, engine
  <2>3. CASE todo # <<>> /\ Head(todo) = "poll" /\ todo' = Tail(todo)
    <3>1. Tail(todo) \in Seq(Allowed)
      BY <2>3, PopList DEF SessionInv, ListOK
    <3>2. <<>> \o Tail(todo) = Tail(todo)
      BY <3>1, ConcatEmptySeq
    <3> QED
      BY <1>1, <1>8, <2>3, <3>2
  <2> QED
    BY <2>1, <2>2, <2>3
<1> QED
  BY <1>4, <1>5, <1>6, <1>7, <1>8

-----------------------------------------------------------------------------
(* Opening                                                                 *)

\* A step of opening makes what was not there, and keeps the rest.
LEMMA Makes ==
  ASSUME SessionInv, todo # <<>>, Head(todo) \in Opening,
         NEW R \in SUBSET Resource, life' = With(R, "live")
  PROVE  /\ life' \in [Resource -> {"unset", "live", "freed"}]
         /\ LifeStep
         /\ \A r \in Resource : life'[r] # "freed"
         /\ \A r \in Resource :
              life'[r] = IF r \in R THEN "live" ELSE life[r]
<1>1. /\ \A r \in Resource : life[r] # "freed"
      /\ life \in [Resource -> {"unset", "live", "freed"}]
  BY DEF SessionInv, HeadOK, Opened, KindsOK
<1>2. \A r \in Resource : life'[r] = IF r \in R THEN "live" ELSE life[r]
  BY DEF With
<1>3. life' \in [Resource -> {"unset", "live", "freed"}]
  BY <1>1 DEF With
<1>4. "instance" \in Resource
  BY DEF Resource
<1> QED
  BY <1>1, <1>2, <1>3, <1>4 DEF LifeStep

\* What is left alone is neither made nor given back.
LEMMA MakesNothing ==
  ASSUME life' = life
  PROVE  LifeStep
BY DEF LifeStep

\* A step of jalv_open that succeeds goes on with the next.
LEMMA OpenNext ==
  ASSUME SessionInv, todo # <<>>,
         Head(todo) \in Openers \union {"frontend_run"},
         cfg' = cfg, audio' = audio, NEW x \in Openers,
         todo' = <<x>> \o Tail(todo), Opened(x)'
  PROVE  ListOK' /\ HeadOK'
<1> DEFINE p == <<x>>
<1>1. Openers \subseteq Allowed
  BY DEF Openers, Allowed, Steps
<1>2. p \in Seq(Allowed) /\ Len(p) = 1 /\ p[1] = x
  BY <1>1
<1> HIDE DEF p
<1>3. ListOK' /\ todo' # <<>> /\ Head(todo') = x
  BY <1>2, OpenerTodo DEF SessionInv, p
<1>4. Closed(x)'
  BY DEF Closed, Openers, Chained
<1> QED
  BY <1>3, <1>4, HeadPrimed

\* A step of jalv_open that fails leaves no opener behind.
LEMMA OpenFails ==
  ASSUME SessionInv, todo # <<>>,
         Head(todo) \in Openers \union {"frontend_run"},
         cfg' = cfg, audio' = audio,
         NEW p, Pushable(p), todo' = p \o Tail(todo)
  PROVE  ListOK' /\ HeadOK'
<1>1. Head(todo) \notin Tied /\ Head(todo) \in Opening \ Activation
  BY DEF Openers, Tied, Leading, Activation, Opening
<1>2. ~audio
  BY <1>1 DEF SessionInv, HeadOK, Opened
<1> QED
  BY <1>1, <1>2, CallTodo DEF SessionInv

\* jalv_frontend_run calls jalv_open or returns.
LEMMA FrontendRunKept ==
  ASSUME SessionInv, FrontendRun
  PROVE  Kept
<1>1. /\ todo # <<>> /\ Head(todo) = "frontend_run" /\ Still
      /\ \/ todo' = <<"open_world">> \o Tail(todo)
         \/ todo' = <<>> \o Tail(todo)
  BY DEF FrontendRun, At, Then, Still, world, engine, story
<1>2. "open_world" \in Openers
  BY DEF Openers
<1>3. Opened("open_world")'
  <2>1. Opened("frontend_run")
    BY <1>1 DEF SessionInv, HeadOK
  <2> QED
    BY <1>1, <2>1 DEF Opened, Opening, Openers, Activation, Still
<1>4. ListOK' /\ HeadOK'
  BY <1>1, <1>2, <1>3, PushNone, OpenNext, OpenFails DEF Still
<1>5. KindsOK' /\ LifeOK' /\ LifeStep
  BY <1>1, MakesNothing
     DEF SessionInv, KindsOK, LifeOK, Stands, Lives, Jack, Still
<1> QED
  BY <1>4, <1>5 DEF SessionInv, Kept

\* The first step of jalv_open makes the world and `done`.
LEMMA OpenWorldKept ==
  ASSUME SessionInv, OpenWorld
  PROVE  Kept
<1>1. /\ todo # <<>> /\ Head(todo) = "open_world"
      /\ todo' = <<"find_plugin">> \o Tail(todo)
      /\ life' = With({"world", "done"}, "live")
      /\ cfg' = cfg /\ audio' = audio /\ guest' = guest /\ active' = active
      /\ thread' = thread /\ server' = server /\ failed' = failed
  BY DEF OpenWorld, At, Then, world, engine, story
<1>2. Opened("open_world")
  BY <1>1 DEF SessionInv, HeadOK
<1>3. /\ "find_plugin" \in Openers /\ "open_world" \in Opening
      /\ {"world", "done"} \in SUBSET Resource
  BY DEF Opening, Openers, Resource
<1>4. /\ life' \in [Resource -> {"unset", "live", "freed"}] /\ LifeStep
      /\ \A r \in Resource : life'[r] # "freed"
      /\ \A r \in Resource :
           life'[r] = IF r \in {"world", "done"} THEN "live" ELSE life[r]
  BY <1>1, <1>3, Makes
<1>5. Opened("find_plugin")'
  BY <1>1, <1>2, <1>4 DEF Opened, Opening, Openers, Activation, Lives, Resource
<1>6. ListOK' /\ HeadOK'
  BY <1>1, <1>3, <1>5, OpenNext DEF Openers
<1>7. KindsOK' /\ LifeOK'
  BY <1>1, <1>4 DEF SessionInv, KindsOK, LifeOK, Stands, Lives, Jack, Resource
<1> QED
  BY <1>4, <1>6, <1>7 DEF SessionInv, Kept

\* What every step of jalv_open keeps: only `failed`, the flag of the internal
\* client and what is made change, and what is made has what it rests on.
LEMMA OpenerKept ==
  ASSUME SessionInv, todo # <<>>, Head(todo) \in Openers,
         cfg' = cfg, audio' = audio, active' = active, thread' = thread,
         server' = server, guest' \in BOOLEAN,
         NEW R \in SUBSET Resource,
         life' = With(R, "live") \/ (R = {} /\ life' = life),
         guest' => guest /\ "client" \notin R, Stands',
         ListOK' /\ HeadOK'
  PROVE  Kept
<1>1. Head(todo) \in Opening \ Activation /\ Head(todo) # "frontend_init"
  BY DEF Openers, Opening, Activation
<1>2. ~audio /\ ~thread /\ ~active
  BY <1>1 DEF SessionInv, HeadOK, Opened
<1>3. /\ life' \in [Resource -> {"unset", "live", "freed"}] /\ LifeStep
      /\ \A r \in Resource : life'[r] # "freed"
      /\ \A r \in Resource : life'[r] = IF r \in R THEN "live" ELSE life[r]
  <2>1. CASE life' = With(R, "live")
    BY <1>1, <2>1, Makes
  <2>2. CASE R = {} /\ life' = life
    BY <1>1, <2>2, MakesNothing DEF SessionInv, HeadOK, Opened, KindsOK
  <2> QED
    BY <2>1, <2>2
<1>4. KindsOK'
  BY <1>3 DEF SessionInv, KindsOK
<1>5. LifeOK'
  <2>1. /\ life'["buffers"] # "freed" /\ life'["client"] # "freed"
        /\ life["backend"] # "unset" /\ life'["backend"] # "unset"
    BY <1>3 DEF SessionInv, LifeOK, Resource
  <2>2. ~(cfg.frontend = "gtk" /\ life["app"] = "unset")
    BY <1>1 DEF SessionInv, LifeOK
  <2>3. ~(cfg.frontend = "gtk" /\ life'["app"] = "unset")
    BY <1>3, <2>2 DEF Resource
  <2>4. guest' => ~audio' /\ life'["client"] # "live"
    BY <1>2, <1>3 DEF SessionInv, LifeOK, Lives, Resource
  <2> QED
    BY <1>2, <2>1, <2>3, <2>4 DEF LifeOK, Lives, Jack
<1> QED
  BY <1>3, <1>4, <1>5 DEF SessionInv, Kept

\* The look-ups of the plugin and of its UI make nothing.
LEMMA ChecksKept ==
  ASSUME SessionInv, FindPlugin \/ ChooseUi
  PROVE  Kept
<1>1. \E x \in {"choose_ui", "init_process"} :
        /\ Head(todo) = IF x = "choose_ui" THEN "find_plugin" ELSE "choose_ui"
        /\ todo # <<>>
        /\ \/ todo' = <<x>> \o Tail(todo) /\ failed' = failed
           \/ todo' = AfterFailure \o Tail(todo)
  BY DEF FindPlugin, ChooseUi, Fail, At, Then, story
<1>2. PICK x \in {"choose_ui", "init_process"} :
        /\ Head(todo) = IF x = "choose_ui" THEN "find_plugin" ELSE "choose_ui"
        /\ todo # <<>>
        /\ \/ todo' = <<x>> \o Tail(todo) /\ failed' = failed
           \/ todo' = AfterFailure \o Tail(todo)
  BY <1>1
<1>3. /\ cfg' = cfg /\ life' = life /\ audio' = audio /\ guest' = guest
      /\ active' = active /\ thread' = thread /\ server' = server
  BY DEF FindPlugin, ChooseUi, world, engine
<1>4. Head(todo) \in {"find_plugin", "choose_ui"}
  BY <1>2
<1>5. Head(todo) \in Openers /\ x \in Openers
  BY <1>4 DEF Openers
<1>6. ListOK' /\ HeadOK'
  <2>1. CASE todo' = <<x>> \o Tail(todo) /\ failed' = failed
    <3>1. Opened(Head(todo))
      BY <1>2 DEF SessionInv, HeadOK
    <3>2. Opened(x)'
      BY <1>3, <1>4, <2>1, <3>1
         DEF Opened, Opening, Openers, Activation, Lives
    <3> QED
      BY <1>2, <1>3, <1>5, <2>1, <3>2, OpenNext
  <2>2. CASE todo' = AfterFailure \o Tail(todo)
    BY <1>2, <1>3, <1>5, <2>2, PushAfterFailure, OpenFails
  <2> QED
    BY <1>2, <2>1, <2>2
<1>7. Stands'
  BY <1>3 DEF SessionInv, LifeOK, Stands, Lives
<1>8. guest' \in BOOLEAN
  BY <1>3 DEF SessionInv, KindsOK
<1> DEFINE R == {}
<1>9. R \in SUBSET Resource /\ R = {} /\ "client" \notin R
  OBVIOUS
<1> HIDE DEF R
<1> QED
  BY <1>2, <1>3, <1>5, <1>6, <1>7, <1>8, <1>9, OpenerKept

\* The workers, if the plugin has one.
LEMMA InitProcessKept ==
  ASSUME SessionInv, InitProcess
  PROVE  Kept
<1> DEFINE R == IF cfg.worker THEN {"workers"} ELSE {}
<1>1. /\ todo # <<>> /\ Head(todo) = "init_process"
      /\ todo' = <<"create_ports">> \o Tail(todo)
      /\ life' = With(R, "live") \/ (R = {} /\ life' = life)
      /\ cfg' = cfg /\ audio' = audio /\ guest' = guest /\ active' = active
      /\ thread' = thread /\ server' = server /\ failed' = failed
  BY DEF InitProcess, At, Then, world, story
<1>2. /\ R \in SUBSET Resource /\ "client" \notin R /\ "instance" \notin R
      /\ cfg.worker => "workers" \in R
      /\ \A r \in R : r = "workers"
  BY DEF Resource
<1> HIDE DEF R
<1>3. Opened("init_process")
  BY <1>1 DEF SessionInv, HeadOK
<1>4. \A r \in Resource : /\ life'[r] = IF r \in R THEN "live" ELSE life[r]
                          /\ life[r] # "freed"
  <2>1. "init_process" \in Opening
    BY DEF Opening, Openers
  <2> QED
    BY <1>1, <1>2, <1>3, <2>1 DEF With, Opened
<1>5. Opened("create_ports")'
  BY <1>1, <1>2, <1>3, <1>4
     DEF Opened, Opening, Openers, Activation, Lives, Resource
<1>6. "create_ports" \in Openers /\ "init_process" \in Openers
  BY DEF Openers
<1>7. ListOK' /\ HeadOK'
  BY <1>1, <1>5, <1>6, OpenNext
<1>8. Stands'
  BY <1>2, <1>4 DEF SessionInv, LifeOK, Stands, Lives, Resource
<1> QED
  BY <1>1, <1>2, <1>6, <1>7, <1>8, OpenerKept DEF SessionInv, KindsOK

\* The ports rest on the world.
LEMMA CreatePortsKept ==
  ASSUME SessionInv, CreatePorts
  PROVE  Kept
<1> DEFINE R == {"ports"}
           N == {}
<1>1. /\ todo # <<>> /\ Head(todo) = "create_ports"
      /\ cfg' = cfg /\ audio' = audio /\ active' = active
      /\ thread' = thread /\ server' = server
      /\ \/ /\ todo' = <<"open_backend">> \o Tail(todo)
            /\ life' = With(R, "live") /\ guest' = guest /\ failed' = failed
         \/ /\ todo' = AfterFailure \o Tail(todo)
            /\ life' = With(R, "live") /\ guest' = guest
  BY DEF CreatePorts, Fail, At, Then, world, engine, story
<1>2. /\ R \in SUBSET Resource /\ N \in SUBSET Resource /\ N = {}
      /\ "client" \notin N
  BY DEF Resource
<1>3. /\ "open_backend" \in Openers /\ "create_ports" \in Openers
      /\ "create_ports" \in Opening
  BY DEF Openers, Opening
<1>4. Opened("create_ports")
  BY <1>1 DEF SessionInv, HeadOK
<1>5. /\ guest' \in BOOLEAN
      /\ guest' => guest
  BY <1>1 DEF SessionInv, KindsOK
<1>6. \A r \in Resource : life'[r] = IF r \in R THEN "live" ELSE life[r]
  BY <1>1 DEF With
<1>7. Stands'
  BY <1>4, <1>6 DEF SessionInv, LifeOK, Stands, Lives, Resource, Opened, Opening,
                    Openers, Activation
<1>8. CASE todo' = <<"open_backend">> \o Tail(todo) /\ failed' = failed
  <2>1. Opened("open_backend")'
    BY <1>1, <1>3, <1>4, <1>6, <1>8
       DEF Opened, Opening, Openers, Activation, Lives, Resource
  <2>2. ListOK' /\ HeadOK'
    BY <1>1, <1>3, <1>8, <2>1, OpenNext
  <2>3. "client" \notin R
    OBVIOUS
  <2> HIDE DEF R
  <2> QED
    BY <1>1, <1>2, <1>3, <1>5, <1>7, <2>2, <2>3, OpenerKept
<1>9. CASE todo' = AfterFailure \o Tail(todo)
  <2>1. ListOK' /\ HeadOK'
    BY <1>1, <1>3, <1>9, PushAfterFailure, OpenFails
  <2>2. "client" \notin R
    OBVIOUS
  <2> HIDE DEF R
  <2> QED
    BY <1>1, <1>2, <1>3, <1>5, <1>7, <2>1, <2>2, OpenerKept
<1> QED
  BY <1>1, <1>8, <1>9

\* The client rests on `done`, which its callbacks post.
LEMMA OpenBackendKept ==
  ASSUME SessionInv, OpenBackend
  PROVE  Kept
<1> DEFINE R == {"client"}
           N == {}
<1>1. /\ todo # <<>> /\ Head(todo) = "open_backend"
      /\ cfg' = cfg /\ audio' = audio /\ active' = active
      /\ thread' = thread /\ server' = server
      /\ \/ /\ todo' = <<"check_features">> \o Tail(todo)
            /\ life' = With(R, "live") /\ guest' = FALSE /\ failed' = failed
         \/ /\ todo' = AfterFailure \o Tail(todo)
            /\ life' = life /\ guest' = guest
  BY DEF OpenBackend, Fail, At, Then, world, story
<1>2. /\ R \in SUBSET Resource /\ N \in SUBSET Resource /\ N = {}
      /\ "client" \notin N
  BY DEF Resource
<1>3. /\ "check_features" \in Openers /\ "open_backend" \in Openers
      /\ "open_backend" \in Opening
  BY DEF Openers, Opening
<1>4. Opened("open_backend")
  BY <1>1 DEF SessionInv, HeadOK
<1>5. /\ guest' \in BOOLEAN
      /\ guest' => guest
  <2>1. guest' = FALSE \/ guest' = guest
    BY <1>1
  <2>2. guest \in BOOLEAN
    BY DEF SessionInv, KindsOK
  <2>3. guest' \in BOOLEAN
    BY <2>1, <2>2
  <2>4. guest' => guest
    BY <2>1, Zenon
  <2> QED
    BY <2>3, <2>4
<1>6. CASE /\ todo' = <<"check_features">> \o Tail(todo)
           /\ life' = With(R, "live") /\ guest' = FALSE /\ failed' = failed
  <2>1. \A r \in Resource : life'[r] = IF r \in R THEN "live" ELSE life[r]
    BY <1>6 DEF With
  <2>2. Stands'
    BY <1>4, <2>1 DEF SessionInv, LifeOK, Stands, Lives, Resource, Opened,
                      Opening, Openers, Activation
  <2>3. Opened("check_features")'
    BY <1>1, <1>3, <1>4, <1>6, <2>1
       DEF Opened, Opening, Openers, Activation, Lives, Resource
  <2>4. ListOK' /\ HeadOK'
    BY <1>1, <1>3, <1>6, <2>3, OpenNext
  <2>5. guest' => guest /\ "client" \notin R
    BY <1>6
  <2> HIDE DEF R
  <2> QED
    BY <1>1, <1>2, <1>3, <1>5, <1>6, <2>2, <2>4, <2>5, OpenerKept
<1>7. CASE todo' = AfterFailure \o Tail(todo) /\ life' = life /\ guest' = guest
  <2>1. ListOK' /\ HeadOK'
    BY <1>1, <1>3, <1>7, PushAfterFailure, OpenFails
  <2>2. Stands'
    BY <1>7 DEF SessionInv, LifeOK, Stands, Lives
  <2> HIDE DEF N
  <2> QED
    BY <1>1, <1>2, <1>3, <1>5, <1>7, <2>1, <2>2, OpenerKept
<1> QED
  BY <1>1, <1>6, <1>7

\* The controls rest on the world.
LEMMA CheckFeaturesKept ==
  ASSUME SessionInv, CheckFeatures
  PROVE  Kept
<1> DEFINE R == {"controls"}
           N == {}
<1>1. /\ todo # <<>> /\ Head(todo) = "check_features"
      /\ cfg' = cfg /\ audio' = audio /\ active' = active
      /\ thread' = thread /\ server' = server
      /\ \/ /\ todo' = <<"instantiate">> \o Tail(todo)
            /\ life' = With(R, "live") /\ guest' = guest /\ failed' = failed
         \/ /\ todo' = AfterFailure \o Tail(todo)
            /\ life' = With(R, "live") /\ guest' = guest
  BY DEF CheckFeatures, Fail, At, Then, world, engine, story
<1>2. /\ R \in SUBSET Resource /\ N \in SUBSET Resource /\ N = {}
      /\ "client" \notin N
  BY DEF Resource
<1>3. /\ "instantiate" \in Openers /\ "check_features" \in Openers
      /\ "check_features" \in Opening
  BY DEF Openers, Opening
<1>4. Opened("check_features")
  BY <1>1 DEF SessionInv, HeadOK
<1>5. /\ guest' \in BOOLEAN
      /\ guest' => guest
  BY <1>1 DEF SessionInv, KindsOK
<1>6. \A r \in Resource : life'[r] = IF r \in R THEN "live" ELSE life[r]
  BY <1>1 DEF With
<1>7. Stands'
  BY <1>4, <1>6 DEF SessionInv, LifeOK, Stands, Lives, Resource, Opened, Opening,
                    Openers, Activation
<1>8. CASE todo' = <<"instantiate">> \o Tail(todo) /\ failed' = failed
  <2>1. Opened("instantiate")'
    BY <1>1, <1>3, <1>4, <1>6, <1>8
       DEF Opened, Opening, Openers, Activation, Lives, Resource
  <2>2. ListOK' /\ HeadOK'
    BY <1>1, <1>3, <1>8, <2>1, OpenNext
  <2>3. "client" \notin R
    OBVIOUS
  <2> HIDE DEF R
  <2> QED
    BY <1>1, <1>2, <1>3, <1>5, <1>7, <2>2, <2>3, OpenerKept
<1>9. CASE todo' = AfterFailure \o Tail(todo)
  <2>1. ListOK' /\ HeadOK'
    BY <1>1, <1>3, <1>9, PushAfterFailure, OpenFails
  <2>2. "client" \notin R
    OBVIOUS
  <2> HIDE DEF R
  <2> QED
    BY <1>1, <1>2, <1>3, <1>5, <1>7, <2>1, <2>2, OpenerKept
<1> QED
  BY <1>1, <1>8, <1>9

\* The instance rests on the world and the controls.
LEMMA InstantiateKept ==
  ASSUME SessionInv, Instantiate
  PROVE  Kept
<1> DEFINE R == {"instance"}
           N == {}
<1>1. /\ todo # <<>> /\ Head(todo) = "instantiate"
      /\ cfg' = cfg /\ audio' = audio /\ active' = active
      /\ thread' = thread /\ server' = server
      /\ \/ /\ todo' = <<"activate_process">> \o Tail(todo)
            /\ life' = With(R, "live") /\ guest' = guest /\ failed' = failed
         \/ /\ todo' = AfterFailure \o Tail(todo)
            /\ life' = life /\ guest' = guest
  BY DEF Instantiate, Fail, At, Then, world, engine, story
<1>2. /\ R \in SUBSET Resource /\ N \in SUBSET Resource /\ N = {}
      /\ "client" \notin N
  BY DEF Resource
<1>3. /\ "activate_process" \in Openers /\ "instantiate" \in Openers
      /\ "instantiate" \in Opening
  BY DEF Openers, Opening
<1>4. Opened("instantiate")
  BY <1>1 DEF SessionInv, HeadOK
<1>5. /\ guest' \in BOOLEAN
      /\ guest' => guest
  BY <1>1 DEF SessionInv, KindsOK
<1>6. CASE /\ todo' = <<"activate_process">> \o Tail(todo)
           /\ life' = With(R, "live") /\ guest' = guest /\ failed' = failed
  <2>1. \A r \in Resource : life'[r] = IF r \in R THEN "live" ELSE life[r]
    BY <1>6 DEF With
  <2>2. Stands'
    BY <1>4, <2>1 DEF SessionInv, LifeOK, Stands, Lives, Resource, Opened,
                      Opening, Openers, Activation
  <2>3. Opened("activate_process")'
    BY <1>1, <1>3, <1>4, <1>6, <2>1
       DEF Opened, Opening, Openers, Activation, Lives, Resource
  <2>4. ListOK' /\ HeadOK'
    BY <1>1, <1>3, <1>6, <2>3, OpenNext
  <2>5. guest' => guest /\ "client" \notin R
    BY <1>6, <1>5
  <2> HIDE DEF R
  <2> QED
    BY <1>1, <1>2, <1>3, <1>5, <1>6, <2>2, <2>4, <2>5, OpenerKept
<1>7. CASE todo' = AfterFailure \o Tail(todo) /\ life' = life /\ guest' = guest
  <2>1. ListOK' /\ HeadOK'
    BY <1>1, <1>3, <1>7, PushAfterFailure, OpenFails
  <2>2. Stands'
    BY <1>7 DEF SessionInv, LifeOK, Stands, Lives
  <2> HIDE DEF N
  <2> QED
    BY <1>1, <1>2, <1>3, <1>5, <1>7, <2>1, <2>2, OpenerKept
<1> QED
  BY <1>1, <1>6, <1>7

\* What the frontend goes on with when jalv_open has succeeded.
LEMMA AfterOpenList ==
  ASSUME KindsOK
  PROVE  /\ AfterOpen \in Seq(Allowed) /\ Linked(AfterOpen)
         /\ AfterOpen # <<>> /\ Head(AfterOpen) \in Activation
         /\ AfterOpen[Len(AfterOpen)] # "free_backend"
         /\ cfg.frontend # "console" => Has(AfterOpen, Enders)
<1> DEFINE a == Activate
           Good(p) == /\ p \in Seq(Allowed) /\ Linked(p)
                      /\ p # <<>> /\ Head(p) \in Activation
<1>1. /\ {"launch", "start_audio", "set_running", "window", "gtk_loop",
          "qt_loop", "loaded"} \subseteq Allowed
      /\ cfg.frontend = "console" => "enter" \in Allowed
      /\ {"launch", "start_audio", "set_running", "window", "enter"}
           \subseteq Activation
  BY DEF Allowed, Steps, Activation
<1>2. /\ a \in Seq(Allowed) /\ Len(a) = 3 /\ a # <<>> /\ Head(a) = "launch"
      /\ a[1] = "launch" /\ a[2] = "start_audio" /\ a[3] = "set_running"
  BY <1>1 DEF Activate
<1> HIDE DEF a
<1>3. \A x \in {"launch", "start_audio", "set_running", "window"},
         y \in {"launch", "start_audio", "set_running", "window", "enter",
                "gtk_loop", "qt_loop", "loaded"} : Behind(x, y)
  BY <1>1 DEF Behind, Openers, Activation, Chained
<1>4. Good(a)
  <2>1. ASSUME NEW i \in 2..Len(a) PROVE Behind(a[i - 1], a[i])
    <3>1. (i = 2 /\ i - 1 = 1) \/ (i = 3 /\ i - 1 = 2)
      BY <1>2
    <3> QED
      BY <1>2, <1>3, <3>1
  <2>2. Linked(a)
    BY <2>1 DEF Linked
  <2> QED
    BY <1>1, <1>2, <2>2
<1>5. ASSUME NEW p, Good(p), p[Len(p)] \in Activation \ {"enter"},
             NEW x \in {"enter", "window", "gtk_loop", "qt_loop", "loaded"},
             x \in Allowed
      PROVE  /\ Good(p \o <<x>>) /\ (p \o <<x>>)[Len(p \o <<x>>)] = x
             /\ \A E : x \in E => Has(p \o <<x>>, E)
  <2> DEFINE q == <<x>>
  <2>1. /\ q \in Seq(Allowed) /\ q # <<>> /\ Head(q) = x /\ Len(q) = 1
        /\ q[1] = x
    BY <1>5
  <2> HIDE DEF q
  <2>2. Linked(q) /\ \A E : x \in E => Has(q, E)
    BY <2>1 DEF Linked, Has
  <2>3. Behind(p[Len(p)], Head(q))
    BY <1>3, <1>5, <2>1 DEF Activation
  <2>4. /\ Good(p \o q)
        /\ \A E : Has(p \o q, E) <=> Has(p, E) \/ Has(q, E)
    BY <1>5, <2>1, <2>2, <2>3, JoinLists
  <2>5. (p \o q)[Len(p \o q)] = x
    BY <1>5, <2>1, LastJoined
  <2> QED
    BY <2>2, <2>4, <2>5 DEF q
<1>6. a[Len(a)] \in Activation \ {"enter"}
  BY <1>1, <1>2
<1>7. CASE cfg.frontend = "console"
  <2>1. AfterOpen = a \o <<"enter">>
    BY <1>7 DEF AfterOpen, a
  <2> HIDE DEF Good
  <2>2. Good(a \o <<"enter">>) /\ AfterOpen[Len(AfterOpen)] = "enter"
    BY <1>1, <1>4, <1>5, <1>6, <1>7, <2>1
  <2> QED
    BY <1>7, <2>1, <2>2 DEF Good
<1>8. CASE cfg.frontend = "gtk"
  <2> DEFINE w == <<"window">>
  <2>1. AfterOpen = (w \o a) \o <<"gtk_loop">>
    BY <1>8 DEF AfterOpen, a
  <2>2. /\ w \in Seq(Allowed) /\ w # <<>> /\ Head(w) = "window"
        /\ Len(w) = 1 /\ w[1] = "window"
    BY <1>1
  <2> HIDE DEF w
  <2>3. Good(w \o a)
    <3>1. Linked(w) /\ Behind(w[Len(w)], Head(a))
      BY <1>2, <1>3, <2>2 DEF Linked
    <3> QED
      BY <1>1, <1>2, <1>4, <2>2, <3>1, JoinLists
  <2>4. (w \o a)[Len(w \o a)] \in Activation \ {"enter"}
    BY <1>2, <1>6, <2>2, LastJoined
  <2> DEFINE p == w \o a
  <2> HIDE DEF Good, p
  <2>5. /\ Good(p \o <<"gtk_loop">>)
        /\ (p \o <<"gtk_loop">>)[Len(p \o <<"gtk_loop">>)] = "gtk_loop"
        /\ \A E : "gtk_loop" \in E => Has(p \o <<"gtk_loop">>, E)
    BY <1>1, <1>5, <2>3, <2>4 DEF p
  <2>6. "gtk_loop" \in Enders
    BY <1>8 DEF Enders
  <2> QED
    BY <2>1, <2>5, <2>6 DEF Good, p
<1>9. CASE cfg.frontend = "qt"
  <2> DEFINE p == a \o <<"window">>
  <2>1. AfterOpen = p \o <<"qt_loop">>
    <3>1. AfterOpen = a \o <<"window", "qt_loop">>
      BY <1>9 DEF AfterOpen, a
    <3>2. <<"window", "qt_loop">> = <<"window">> \o <<"qt_loop">>
      OBVIOUS
    <3>3. /\ <<"window">> \in Seq(Allowed) /\ <<"qt_loop">> \in Seq(Allowed)
          /\ a \in Seq(Allowed)
      BY <1>1, <1>2
    <3> QED
      BY <3>1, <3>2, <3>3, ConcatAssociative
  <2> HIDE DEF Good
  <2>2. Good(p) /\ p[Len(p)] = "window"
    BY <1>1, <1>4, <1>5, <1>6
  <2> HIDE DEF p
  <2>3. /\ Good(p \o <<"qt_loop">>)
        /\ (p \o <<"qt_loop">>)[Len(p \o <<"qt_loop">>)] = "qt_loop"
        /\ \A E : "qt_loop" \in E => Has(p \o <<"qt_loop">>, E)
    BY <1>1, <1>5, <2>2
  <2>4. "qt_loop" \in Enders
    BY <1>9 DEF Enders
  <2> QED
    BY <2>1, <2>3, <2>4 DEF Good
<1>10. CASE cfg.frontend = "internal"
  <2>1. AfterOpen = a \o <<"loaded">>
    BY <1>10 DEF AfterOpen, a
  <2> HIDE DEF Good
  <2>2. /\ Good(a \o <<"loaded">>) /\ AfterOpen[Len(AfterOpen)] = "loaded"
        /\ \A E : "loaded" \in E => Has(a \o <<"loaded">>, E)
    BY <1>1, <1>4, <1>5, <1>6, <2>1
  <2>3. "loaded" \in Enders
    BY <1>10 DEF Enders
  <2> QED
    BY <2>1, <2>2, <2>3 DEF Good
<1> QED
  BY <1>7, <1>8, <1>9, <1>10, FrontendKnown

\* The buffers rest on the instance; the frontend's activation is next.
LEMMA ActivateProcessKept ==
  ASSUME SessionInv, ActivateProcess
  PROVE  Kept
<1> DEFINE R == {"buffers", "rings"}
           p == AfterOpen
           h == Head(p)
<1>1. /\ todo # <<>> /\ Head(todo) = "activate_process"
      /\ todo' = p \o Tail(todo)
      /\ life' = With(R, "live")
      /\ cfg' = cfg /\ audio' = audio /\ guest' = guest /\ active' = active
      /\ thread' = thread /\ server' = server /\ failed' = failed
  BY DEF ActivateProcess, At, Then, world, story
<1>2. Opened("activate_process") /\ KindsOK /\ LifeOK /\ ListOK
  BY <1>1 DEF SessionInv, HeadOK
<1>3. /\ "activate_process" \in Opening \ Activation
      /\ "activate_process" \in Openers
      /\ "activate_process" \notin Tied
      /\ "activate_process" \notin {"frontend_close"}
      /\ R \in SUBSET Resource /\ "client" \notin R
  BY DEF Opening, Openers, Activation, Tied, Leading, Resource
<1>4. \A r \in Resource : life'[r] = IF r \in R THEN "live" ELSE life[r]
  BY <1>1 DEF With
<1>5. /\ p \in Seq(Allowed) /\ Linked(p) /\ p # <<>> /\ h \in Activation
      /\ p[Len(p)] # "free_backend"
      /\ cfg.frontend # "console" => Has(p, Enders)
  BY <1>2, AfterOpenList
<1>6. Stands'
  BY <1>2, <1>4 DEF LifeOK, Stands, Lives, Resource, Opened, Opening, Openers,
                    Activation
<1>7. \A g \in Activation : Opened(g)'
  BY <1>1, <1>2, <1>3, <1>4
     DEF Opened, Opening, Openers, Activation, Lives, Resource
<1> HIDE DEF p, h, R
<1>8. /\ Tail(todo) \in Seq(Allowed) /\ Linked(Tail(todo))
      /\ Tail(todo) # <<>> => Ordinary(Head(Tail(todo)))
  BY <1>1, <1>2, <1>3, PopList, BehindUntied DEF ListOK
<1>9. Tail(todo) # <<>> => Behind(p[Len(p)], Head(Tail(todo)))
  BY <1>5, <1>8, BehindAny
<1>10. /\ todo' \in Seq(Allowed) /\ Linked(todo')
       /\ todo' # <<>> /\ Head(todo') = h
       /\ \A E : Has(todo', E) <=> Has(p, E) \/ Has(Tail(todo), E)
  <2>1. p \in Seq(Allowed) /\ Linked(p) /\ p # <<>>
    BY <1>5
  <2>2. /\ p \o Tail(todo) \in Seq(Allowed) /\ Linked(p \o Tail(todo))
        /\ p \o Tail(todo) # <<>> /\ Head(p \o Tail(todo)) = Head(p)
        /\ \A E : Has(p \o Tail(todo), E) <=> Has(p, E) \/ Has(Tail(todo), E)
    BY <1>8, <1>9, <2>1, JoinLists
  <2> QED
    BY <1>1, <2>2 DEF h
<1>11. cfg.frontend = "console" => Has(todo', {"frontend_close"})
  BY <1>1, <1>2, <1>3, <1>10, PopHas DEF ListOK
<1>12. Has(todo', Enders)
  <2>1. CASE cfg.frontend = "console"
    <3>1. "frontend_close" \in Enders
      BY <2>1 DEF Enders
    <3> QED
      BY <1>11, <2>1, <3>1 DEF Has
  <2>2. CASE cfg.frontend # "console"
    BY <1>5, <1>10, <2>2
  <2> QED
    BY <2>1, <2>2
<1>13. ListOK'
  <2>1. Allowed' = Allowed /\ Enders' = Enders
    BY <1>1 DEF Allowed, Enders
  <2>2. /\ Linked(todo)' /\ Has(todo, Enders)'
        /\ (cfg.frontend = "console" => Has(todo, {"frontend_close"}))'
    BY <1>1, <1>10, <1>11, <1>12, <2>1 DEF Linked, Has
  <2>3. Head(todo') # "frontend_init"
    BY <1>5, <1>10 DEF Activation
  <2> QED
    BY <1>10, <2>1, <2>2, <2>3 DEF ListOK
<1>14. HeadOK'
  <2>1. PICK g : g = Head(todo')
    OBVIOUS
  <2>2. g \in Activation
    BY <1>5, <1>10, <2>1
  <2>3. Closed(g)'
    BY <2>2 DEF Closed, Activation, Chained
  <2>4. Opened(g)'
    BY <1>7, <2>2
  <2> QED
    BY <2>1, <2>3, <2>4, HeadPrimed
<1>15. guest' \in BOOLEAN /\ (guest' => guest)
  BY <1>1, <1>2 DEF KindsOK
<1> QED
  BY <1>1, <1>3, <1>6, <1>13, <1>14, <1>15, OpenerKept

-----------------------------------------------------------------------------
(* Activation                                                              *)

\* A step of activation makes at most the UI; what comes next finds the rest.
LEMMA ActivationKept ==
  ASSUME SessionInv, todo # <<>>, Head(todo) \in Activation \ {"enter"},
         NEW t, t = Tail(todo), todo' = t,
         cfg' = cfg, guest' = guest, server' = server, failed' = failed,
         NEW R \in SUBSET {"ui"},
         life' = With(R, "live") \/ (R = {} /\ life' = life),
         active' \in BOOLEAN, audio' \in BOOLEAN, thread' \in BOOLEAN,
         thread' => thread \/ cfg.worker
  PROVE  Kept
<1> DEFINE h == Head(todo)
<1>1. Opened(h) /\ KindsOK /\ LifeOK /\ ListOK /\ h \in Activation
  BY DEF SessionInv, HeadOK
<1>2. /\ \A r \in Resource : life[r] # "freed"
      /\ failed = "none" /\ ~guest
      /\ Lives("world") /\ Lives("done") /\ Lives("ports")
      /\ Lives("controls") /\ Lives("instance") /\ Lives("buffers")
      /\ Lives("rings") /\ (cfg.worker => Lives("workers"))
  BY <1>1 DEF Opened, Opening, Activation
<1>3. R \in SUBSET Resource /\ h \in Opening
  BY <1>1 DEF Resource, Opening
<1>4. /\ life' \in [Resource -> {"unset", "live", "freed"}] /\ LifeStep
      /\ \A r \in Resource : life'[r] # "freed"
      /\ \A r \in Resource : life'[r] = IF r \in R THEN "live" ELSE life[r]
  <2>1. CASE life' = With(R, "live")
    BY <1>3, <2>1, Makes
  <2>2. CASE R = {} /\ life' = life
    BY <1>1, <1>2, <2>2, MakesNothing DEF KindsOK
  <2> QED
    BY <2>1, <2>2
<1>5. /\ "frontend_init" # h
      /\ h \notin Enders
  BY <1>1, FrontendKnown DEF Activation, Enders
<1>6. KindsOK'
  BY <1>1, <1>4 DEF KindsOK
<1>7. LifeOK'
  <2>1. /\ life'["buffers"] # "freed" /\ life'["client"] # "freed"
        /\ life'["backend"] # "unset" /\ life'["backend"] = "live"
        /\ life'["ports"] = "live" /\ life'["rings"] = "live"
        /\ life'["instance"] = "live" /\ life'["buffers"] = "live"
        /\ life'["world"] = "live" /\ life'["done"] = "live"
        /\ life'["controls"] = "live"
    BY <1>1, <1>2, <1>4 DEF LifeOK, Resource, Lives, KindsOK
  <2>2. ~(cfg.frontend = "gtk" /\ life["app"] = "unset")
    BY <1>1, <1>5 DEF LifeOK
  <2>3. ~(cfg.frontend = "gtk" /\ life'["app"] = "unset")
    BY <1>4, <2>2 DEF Resource
  <2>4. thread' => life'["workers"] = "live"
    <3>1. thread' => life["workers"] = "live"
      BY <1>1, <1>2 DEF LifeOK, Lives
    <3> QED
      BY <1>4, <3>1 DEF Resource
  <2> QED
    BY <1>2, <2>1, <2>3, <2>4 DEF LifeOK, Stands, Lives, Jack
<1>8. /\ ListOK'
      /\ todo' # <<>> => Behind(h, Head(todo'))
  <2>1. Has(todo, Enders) /\ Head(todo) \in Leading \union Activation
    BY <1>1 DEF ListOK
  <2> QED
    BY <1>1, <1>5, <2>1, PopTodo
<1> HIDE DEF h
<1>9. HeadOK'
  <2>1. CASE todo' = <<>>
    BY <2>1 DEF HeadOK
  <2>2. CASE todo' # <<>>
    <3>0. PICK g : g = Head(todo')
      OBVIOUS
    <3>1. Behind(h, g)
      BY <1>8, <2>2, <3>0
    <3>2. /\ g \in Opening => g \in Activation
          /\ g \notin Chained
      BY <1>1, <3>1 DEF Behind, Opening, Openers, Activation, Before, Chained
    <3>3. Opened(g)'
      BY <1>2, <1>4, <3>2 DEF Opened, Lives, Resource, Opening, Openers,
                              Activation
    <3>4. Closed(g)'
      BY <3>2 DEF Closed, Chained
    <3> QED
      BY <3>0, <3>3, <3>4, HeadPrimed
  <2> QED
    BY <2>1, <2>2
<1> QED
  BY <1>4, <1>6, <1>7, <1>8, <1>9 DEF SessionInv, Kept

\* A list with nothing put in front is what is left.
LEMMA ThenNothing ==
  ASSUME ListOK, todo # <<>>
  PROVE  <<>> \o Tail(todo) = Tail(todo)
BY PopList, ConcatEmptySeq DEF ListOK

\* The four steps of activation.
LEMMA StartsKept ==
  ASSUME SessionInv, Launch \/ StartAudio \/ SetRunning \/ OpenWindow
  PROVE  Kept
<1>1. \E R \in SUBSET {"ui"} :
        /\ todo # <<>> /\ Head(todo) \in Activation \ {"enter"}
        /\ todo' = <<>> \o Tail(todo)
        /\ cfg' = cfg /\ guest' = guest /\ server' = server /\ failed' = failed
        /\ life' = With(R, "live") \/ (R = {} /\ life' = life)
        /\ active' \in {active, TRUE} /\ audio' \in {audio, server}
        /\ thread' \in {thread, cfg.worker}
  <2> DEFINE N == {}
  <2>1. ASSUME Launch \/ StartAudio \/ SetRunning
        PROVE  /\ todo # <<>> /\ Head(todo) \in Activation \ {"enter"}
               /\ todo' = <<>> \o Tail(todo)
               /\ cfg' = cfg /\ guest' = guest /\ server' = server
               /\ failed' = failed /\ life' = life
               /\ active' \in {active, TRUE} /\ audio' \in {audio, server}
               /\ thread' \in {thread, cfg.worker}
    BY <2>1 DEF Launch, StartAudio, SetRunning, At, Then, world, story, Activation
  <2>2. CASE Launch \/ StartAudio \/ SetRunning
    <3>1. N \in SUBSET {"ui"} /\ N = {}
      OBVIOUS
    <3> HIDE DEF N
    <3> QED
      BY <2>1, <2>2, <3>1
  <2>3. CASE OpenWindow
    <3>1. /\ todo # <<>> /\ Head(todo) \in Activation \ {"enter"}
          /\ todo' = <<>> \o Tail(todo)
          /\ cfg' = cfg /\ guest' = guest /\ server' = server
          /\ failed' = failed
          /\ life' = With({"ui"}, "live") \/ life' = life
          /\ active' = active /\ audio' = audio /\ thread' = thread
      BY <2>3 DEF OpenWindow, At, Then, world, engine, story, Activation
    <3>2. {"ui"} \in SUBSET {"ui"} /\ N \in SUBSET {"ui"} /\ N = {}
      OBVIOUS
    <3> HIDE DEF N
    <3> QED
      BY <3>1, <3>2
  <2> QED
    BY <2>2, <2>3
<1>2. PICK R \in SUBSET {"ui"} :
        /\ todo # <<>> /\ Head(todo) \in Activation \ {"enter"}
        /\ todo' = <<>> \o Tail(todo)
        /\ cfg' = cfg /\ guest' = guest /\ server' = server /\ failed' = failed
        /\ life' = With(R, "live") \/ (R = {} /\ life' = life)
        /\ active' \in {active, TRUE} /\ audio' \in {audio, server}
        /\ thread' \in {thread, cfg.worker}
  BY <1>1
<1>3. PICK t : t = Tail(todo)
  OBVIOUS
<1>4. todo' = t
  BY <1>2, <1>3, ThenNothing DEF SessionInv
<1>5. /\ active \in BOOLEAN /\ audio \in BOOLEAN /\ thread \in BOOLEAN
      /\ server \in BOOLEAN /\ cfg.worker \in BOOLEAN
  BY DEF SessionInv, KindsOK, Configurations
<1>6. active' \in BOOLEAN /\ audio' \in BOOLEAN /\ thread' \in BOOLEAN
  BY <1>2, <1>5
<1>7. thread' => thread \/ cfg.worker
  <2>1. thread' = thread \/ thread' = cfg.worker
    BY <1>2
  <2> QED
    BY <2>1, Zenon
<1> QED
  BY <1>2, <1>3, <1>4, <1>6, <1>7, ActivationKept

\* The console's loop begins where activation has ended.
LEMMA EnterConsoleKept ==
  ASSUME SessionInv, EnterConsole
  PROVE  Kept
<1> DEFINE R == {"ui"}
<1>1. /\ todo # <<>> /\ Head(todo) = "enter"
      /\ life' = With(R, "live") \/ life' = life
      /\ cfg' = cfg /\ audio' = audio /\ guest' = guest /\ active' = active
      /\ thread' = thread /\ server' = server /\ failed' = failed
  BY DEF EnterConsole, At, world, engine, story
<1>2. /\ "enter" \in Activation /\ "enter" \in Opening /\ "enter" \notin Tied
      /\ "enter" # "frontend_init" /\ R \in SUBSET Resource
  BY DEF Activation, Opening, Tied, Leading, Resource
<1>3. Opened("enter") /\ KindsOK /\ LifeOK /\ ListOK
  BY <1>1 DEF SessionInv, HeadOK
<1>4. /\ life' \in [Resource -> {"unset", "live", "freed"}] /\ LifeStep
      /\ \A r \in Resource \ {"ui"} : life'[r] = life[r]
  <2>1. CASE life' = With(R, "live")
    BY <1>1, <1>2, <2>1, Makes
  <2>2. CASE life' = life
    BY <1>3, <2>2, MakesNothing DEF KindsOK
  <2> QED
    BY <1>1, <2>1, <2>2
<1>5. KindsOK'
  BY <1>1, <1>3, <1>4 DEF KindsOK
<1>6. LifeOK'
  <2>1. /\ \A r \in {"world", "ports", "controls", "instance", "client", "done",
                     "buffers", "backend", "app", "rings", "workers"} :
             life'[r] = life[r]
        /\ life["instance"] = "live" /\ Stands
    BY <1>2, <1>3, <1>4 DEF Resource, LifeOK, Opened, Opening, Lives
  <2>2. Stands'
    BY <2>1 DEF Stands, Lives
  <2> QED
    BY <1>1, <1>2, <1>3, <2>1, <2>2 DEF LifeOK, Lives, Jack
<1>7. PICK x \in {"ui_check", "first_update", "wait"} :
        todo' = <<x>> \o Tail(todo)
  <2>1. cfg.mode \in {"prompt", "silent", "ui"} =>
          \E x \in {"ui_check", "first_update", "wait"} :
            todo' = <<x>> \o Tail(todo)
    BY DEF EnterConsole, Then
  <2>2. cfg.mode \in {"prompt", "silent", "ui"}
    <3>1. todo \in Seq(Allowed)
      BY <1>3 DEF ListOK
    <3>2. Head(todo) \in Allowed
      BY <1>1, <3>1, HeadTailProperties
    <3> QED
      BY <1>1, <1>3, <3>2 DEF Allowed, KindsOK, Configurations
  <2> QED
    BY <2>1, <2>2
<1>8. Pushable(<<x>>)
  BY PushSimple DEF Simple
<1>9. "enter" \notin Enders
  BY <1>3, FrontendKnown DEF Enders
<1>10. ListOK' /\ HeadOK'
  BY <1>1, <1>2, <1>3, <1>7, <1>8, <1>9, CallTodo
<1> QED
  BY <1>4, <1>5, <1>6, <1>10 DEF SessionInv, Kept

-----------------------------------------------------------------------------
(* Closing                                                                 *)

\* A step of closing gives back what nothing rests on, once the audio stopped.
LEMMA ClosingLife ==
  ASSUME SessionInv, todo # <<>>, Head(todo) # "frontend_init",
         cfg' = cfg, guest' = guest, failed' = failed, server' = server,
         active' \in BOOLEAN, thread' \in BOOLEAN, audio' = FALSE,
         thread' => Lives("workers")' /\ Lives("instance")',
         life' \in [Resource -> {"unset", "live", "freed"}],
         \A r \in Resource : \/ life'[r] = life[r]
                             \/ life[r] = "live" /\ life'[r] \in {"unset", "freed"},
         Stands', life'["buffers"] # "freed", life'["backend"] # "unset",
         life'["client"] = "freed" => Jack, life'["app"] = life["app"],
         life'["instance"] = life["instance"] \/ (~audio /\ ~thread /\ ~active)
  PROVE  KindsOK' /\ LifeOK' /\ LifeStep
<1>1. KindsOK /\ LifeOK
  BY DEF SessionInv
<1>2. KindsOK'
  BY <1>1 DEF KindsOK
<1>3. guest' => ~Lives("client")'
  <2>1. life'["client"] = "live" => life["client"] = "live"
    BY DEF Resource
  <2> QED
    BY <1>1, <2>1 DEF LifeOK, Lives
<1>4. ~(cfg.frontend = "gtk" /\ life'["app"] = "unset")
  BY <1>1 DEF LifeOK
<1>5. ~audio'
  OBVIOUS
<1>6. LifeOK'
  BY <1>3, <1>4, <1>5 DEF LifeOK, Lives, Jack
<1> QED
  BY <1>2, <1>6 DEF LifeStep

\* One step of closing after another: b is the one that follows.
LEMMA ClosingKept ==
  ASSUME SessionInv, todo # <<>>, Head(todo) \in Leading,
         cfg' = cfg, audio' = FALSE, NEW t, t = Tail(todo), todo' = t,
         NEW b, b \in Chained, Before(b) = Head(todo), Closed(b)',
         KindsOK' /\ LifeOK' /\ LifeStep
  PROVE  Kept
<1>1. KindsOK /\ ListOK
  BY DEF SessionInv
<1>2. ~audio'
  OBVIOUS
<1>3. /\ ListOK'
      /\ todo' # <<>> => Behind(Head(todo), Head(todo'))
  BY <1>1, <1>2, PopTodo
<1>4. HeadOK'
  <2>1. CASE todo' = <<>>
    BY <2>1 DEF HeadOK
  <2>2. CASE todo' # <<>>
    <3>0. PICK g : g = Head(todo')
      OBVIOUS
    <3>1. Behind(Head(todo), g)
      BY <1>3, <2>2, <3>0
    <3>2. g \notin Opening /\ (g \in Chained => Before(g) = Before(b))
      BY <3>1 DEF Behind, Opening, Activation, Leading
    <3>3. g \in Chained => g = b
      BY <3>2 DEF Chained, Before
    <3>4. Opened(g)'
      BY <3>2 DEF Opened, Opening, Openers, Activation
    <3>5. Closed(g)'
      <4>1. CASE g = b
        BY <4>1
      <4>2. CASE g \notin Chained
        BY <4>2 DEF Closed, Chained
      <4> QED
        BY <3>3, <4>1, <4>2
    <3> QED
      BY <3>0, <3>4, <3>5, HeadPrimed
  <2> QED
    BY <2>1, <2>2
<1> QED
  BY <1>3, <1>4 DEF SessionInv, Kept

\* The step of jalv_deactivate and jalv_close that stop what runs
LEMMA StopsKept ==
  ASSUME SessionInv, StopAudio \/ StopPlugin \/ StopWorker
  PROVE  Kept
<1>0. KindsOK /\ LifeOK
  BY DEF SessionInv
<1>1. \E b \in {"stop_plugin", "stop_worker", "unbuffer"} :
        /\ todo # <<>> /\ Head(todo) = Before(b)
        /\ todo' = <<>> \o Tail(todo)
        /\ cfg' = cfg /\ guest' = guest /\ server' = server /\ failed' = failed
        /\ life' = life
        /\ b = "stop_plugin" => /\ audio' = IF guest THEN audio ELSE FALSE
                                /\ active' = active /\ thread' = thread
        /\ b = "stop_worker" => /\ audio' = audio /\ active' = FALSE
                                /\ thread' = thread
        /\ b = "unbuffer" => /\ audio' = audio /\ active' = active
                             /\ thread' = FALSE
  BY DEF StopAudio, StopPlugin, StopWorker, At, Then, world, story, Before
<1>2. PICK b \in {"stop_plugin", "stop_worker", "unbuffer"} :
        /\ todo # <<>> /\ Head(todo) = Before(b)
        /\ todo' = <<>> \o Tail(todo)
        /\ cfg' = cfg /\ guest' = guest /\ server' = server /\ failed' = failed
        /\ life' = life
        /\ b = "stop_plugin" => /\ audio' = IF guest THEN audio ELSE FALSE
                                /\ active' = active /\ thread' = thread
        /\ b = "stop_worker" => /\ audio' = audio /\ active' = FALSE
                                /\ thread' = thread
        /\ b = "unbuffer" => /\ audio' = audio /\ active' = active
                             /\ thread' = FALSE
  BY <1>1
<1>3. /\ b \in Chained /\ Head(todo) \in Leading
      /\ Head(todo) # "frontend_init"
  BY <1>2 DEF Before, Chained, Leading
<1>4. Closed(Head(todo))
  BY <1>2 DEF SessionInv, HeadOK
<1>5. /\ b # "stop_plugin" => ~audio
      /\ b = "unbuffer" => ~active
  BY <1>2, <1>4 DEF Closed, Chained, Before
<1>6. audio' = FALSE
  <2>1. guest => ~audio
    BY <1>0 DEF LifeOK
  <2>2. audio \in BOOLEAN
    BY <1>0 DEF KindsOK
  <2> QED
    BY <1>2, <1>5, <2>1, <2>2
<1>7. /\ active' \in BOOLEAN /\ thread' \in BOOLEAN
  BY <1>0, <1>2 DEF KindsOK
<1>8. thread' => thread
  BY <1>2
<1>9. KindsOK' /\ LifeOK' /\ LifeStep
  <2>1. /\ Stands' /\ life'["buffers"] # "freed" /\ life'["backend"] # "unset"
        /\ life' \in [Resource -> {"unset", "live", "freed"}]
        /\ life'["client"] = "freed" => Jack
        /\ thread' => Lives("workers")' /\ Lives("instance")'
    BY <1>0, <1>2, <1>8 DEF LifeOK, KindsOK, Stands, Lives
  <2> QED
    BY <1>2, <1>3, <1>6, <1>7, <2>1, ClosingLife
<1>10. Closed(b)'
  <2>1. /\ ~audio'
        /\ b \in {"stop_worker", "unbuffer"} => ~active'
        /\ b = "unbuffer" => ~thread'
    BY <1>2, <1>5, <1>6
  <2> QED
    BY <2>1 DEF Closed, Chained
<1>11. PICK t : t = Tail(todo)
  OBVIOUS
<1>12. todo' = t
  BY <1>2, <1>11, ThenNothing DEF SessionInv
<1> QED
  BY <1>2, <1>3, <1>6, <1>9, <1>10, <1>11, <1>12, ClosingKept

\* The client is gone when the instance is freed.
LEMMA CloseClientKept ==
  ASSUME SessionInv, CloseClient
  PROVE  Kept
<1>0. KindsOK /\ LifeOK
  BY DEF SessionInv
<1>1. /\ todo # <<>> /\ Head(todo) = "close_client"
      /\ todo' = <<>> \o Tail(todo)
      /\ cfg' = cfg /\ guest' = guest /\ server' = server /\ failed' = failed
      /\ audio' = audio /\ active' = active /\ thread' = thread
  BY DEF CloseClient, At, Then, world, engine, story
<1>2. /\ "close_client" \in Leading /\ "close_client" # "frontend_init"
      /\ "free_plugin" \in Chained /\ Before("free_plugin") = "close_client"
      /\ "close_client" \in Chained
      /\ "close_client" \notin {"stop_plugin", "stop_worker"}
  BY DEF Leading, Chained, Before
<1>3. Closed("close_client")
  BY <1>1 DEF SessionInv, HeadOK
<1>4. ~audio /\ ~active /\ ~thread /\ audio' = FALSE
  BY <1>0, <1>1, <1>2, <1>3 DEF Closed, KindsOK
<1>5. /\ life' \in [Resource -> {"unset", "live", "freed"}]
      /\ \A r \in Resource :
           life'[r] = IF r = "client" /\ ~(guest \/ life[r] = "unset")
                      THEN IF Jack THEN "freed" ELSE "unset"
                      ELSE life[r]
  BY <1>0 DEF CloseClient, Free, Live, With, KindsOK
<1>6. /\ \A r \in Resource :
           \/ life'[r] = life[r]
           \/ life[r] = "live" /\ life'[r] \in {"unset", "freed"}
      /\ life'["buffers"] # "freed" /\ life'["backend"] # "unset"
      /\ life'["app"] = life["app"]
      /\ life'["client"] = "freed" => Jack
  BY <1>0, <1>5 DEF LifeOK, KindsOK, Resource
<1>7. Stands'
  BY <1>0, <1>3, <1>5 DEF LifeOK, Stands, Lives, Closed, Resource
<1>8. KindsOK' /\ LifeOK' /\ LifeStep
  <2>1. /\ active' \in BOOLEAN /\ thread' \in BOOLEAN
        /\ thread' => Lives("workers")' /\ Lives("instance")'
    BY <1>0, <1>1, <1>4 DEF KindsOK
  <2> QED
    BY <1>1, <1>2, <1>4, <1>5, <1>6, <1>7, <2>1, ClosingLife
<1>9. Closed("free_plugin")'
  BY <1>0, <1>1, <1>3, <1>4, <1>5 DEF Closed, Chained, Lives, Resource, LifeOK
<1>10. PICK t : t = Tail(todo)
  OBVIOUS
<1>11. todo' = t
  BY <1>1, <1>10, ThenNothing DEF SessionInv
<1> QED
  BY <1>1, <1>2, <1>4, <1>8, <1>9, <1>10, <1>11, ClosingKept

\* The UI and the instance go before the controls and the ports.
LEMMA FreePluginKept ==
  ASSUME SessionInv, FreePlugin
  PROVE  Kept
<1>0. KindsOK /\ LifeOK
  BY DEF SessionInv
<1>1. /\ todo # <<>> /\ Head(todo) = "free_plugin"
      /\ todo' = <<>> \o Tail(todo)
      /\ cfg' = cfg /\ guest' = guest /\ server' = server /\ failed' = failed
      /\ audio' = audio /\ active' = active /\ thread' = thread
  BY DEF FreePlugin, At, Then, world, engine, story
<1>2. /\ "free_plugin" \in Leading /\ "free_plugin" # "frontend_init"
      /\ "free_process" \in Chained /\ Before("free_process") = "free_plugin"
      /\ "free_plugin" \in Chained
      /\ "free_plugin" \notin {"stop_plugin", "stop_worker"}
  BY DEF Leading, Chained, Before
<1>3. Closed("free_plugin")
  BY <1>1 DEF SessionInv, HeadOK
<1>4. ~audio /\ ~active /\ ~thread /\ audio' = FALSE
  BY <1>0, <1>1, <1>2, <1>3 DEF Closed, KindsOK
<1>5. /\ life' \in [Resource -> {"unset", "live", "freed"}]
      /\ \A r \in Resource :
           life'[r] = IF r \in {"ui", "instance"} /\ life[r] = "live"
                      THEN "freed" ELSE life[r]
  BY <1>0 DEF FreePlugin, Free, Live, With, KindsOK
<1>6. /\ \A r \in Resource :
           \/ life'[r] = life[r]
           \/ life[r] = "live" /\ life'[r] \in {"unset", "freed"}
      /\ life'["buffers"] # "freed" /\ life'["backend"] # "unset"
      /\ life'["app"] = life["app"]
      /\ life'["client"] = "freed" => Jack
  BY <1>0, <1>5 DEF LifeOK, KindsOK, Resource
<1>7. Stands'
  BY <1>0, <1>3, <1>5 DEF LifeOK, Stands, Lives, Closed, Resource
<1>8. KindsOK' /\ LifeOK' /\ LifeStep
  <2>1. /\ active' \in BOOLEAN /\ thread' \in BOOLEAN
        /\ thread' => Lives("workers")' /\ Lives("instance")'
    BY <1>0, <1>1, <1>4 DEF KindsOK
  <2> QED
    BY <1>1, <1>2, <1>4, <1>5, <1>6, <1>7, <2>1, ClosingLife
<1>9. Closed("free_process")'
  BY <1>0, <1>1, <1>3, <1>4, <1>5 DEF Closed, Chained, Lives, Resource, LifeOK
<1>10. PICK t : t = Tail(todo)
  OBVIOUS
<1>11. todo' = t
  BY <1>1, <1>10, ThenNothing DEF SessionInv
<1> QED
  BY <1>1, <1>2, <1>4, <1>8, <1>9, <1>10, <1>11, ClosingKept

\* The ports and the controls go before the world.
LEMMA FreeProcessKept ==
  ASSUME SessionInv, FreeProcess
  PROVE  Kept
<1>0. KindsOK /\ LifeOK
  BY DEF SessionInv
<1>1. /\ todo # <<>> /\ Head(todo) = "free_process"
      /\ todo' = <<>> \o Tail(todo)
      /\ cfg' = cfg /\ guest' = guest /\ server' = server /\ failed' = failed
      /\ audio' = audio /\ active' = active /\ thread' = thread
  BY DEF FreeProcess, At, Then, world, engine, story
<1>2. /\ "free_process" \in Leading /\ "free_process" # "frontend_init"
      /\ "free_world" \in Chained /\ Before("free_world") = "free_process"
      /\ "free_process" \in Chained
      /\ "free_process" \notin {"stop_plugin", "stop_worker"}
  BY DEF Leading, Chained, Before
<1>3. Closed("free_process")
  BY <1>1 DEF SessionInv, HeadOK
<1>4. ~audio /\ ~active /\ ~thread /\ audio' = FALSE
  BY <1>0, <1>1, <1>2, <1>3 DEF Closed, KindsOK
<1>5. /\ life' \in [Resource -> {"unset", "live", "freed"}]
      /\ \A r \in Resource :
           life'[r] = IF r \in {"ports", "workers", "rings", "controls"}
                         /\ life[r] = "live"
                      THEN "freed" ELSE life[r]
  BY <1>0 DEF FreeProcess, Free, Live, With, KindsOK
<1>6. /\ \A r \in Resource :
           \/ life'[r] = life[r]
           \/ life[r] = "live" /\ life'[r] \in {"unset", "freed"}
      /\ life'["buffers"] # "freed" /\ life'["backend"] # "unset"
      /\ life'["app"] = life["app"]
      /\ life'["client"] = "freed" => Jack
  BY <1>0, <1>5 DEF LifeOK, KindsOK, Resource
<1>7. Stands'
  BY <1>0, <1>3, <1>5 DEF LifeOK, Stands, Lives, Closed, Resource
<1>8. KindsOK' /\ LifeOK' /\ LifeStep
  <2>1. /\ active' \in BOOLEAN /\ thread' \in BOOLEAN
        /\ thread' => Lives("workers")' /\ Lives("instance")'
    BY <1>0, <1>1, <1>4 DEF KindsOK
  <2> QED
    BY <1>1, <1>2, <1>4, <1>5, <1>6, <1>7, <2>1, ClosingLife
<1>9. Closed("free_world")'
  BY <1>0, <1>1, <1>3, <1>4, <1>5 DEF Closed, Chained, Lives, Resource, LifeOK
<1>10. PICK t : t = Tail(todo)
  OBVIOUS
<1>11. todo' = t
  BY <1>1, <1>10, ThenNothing DEF SessionInv
<1> QED
  BY <1>1, <1>2, <1>4, <1>8, <1>9, <1>10, <1>11, ClosingKept

\* The buffers go first, unless there is no instance to disconnect from.
LEMMA UnbufferKept ==
  ASSUME SessionInv, Unbuffer
  PROVE  Kept
<1>0. KindsOK /\ LifeOK /\ ListOK /\ HeadOK
  BY DEF SessionInv
<1>1. /\ todo # <<>> /\ Head(todo) = "unbuffer"
      /\ cfg' = cfg /\ guest' = guest /\ server' = server /\ failed' = failed
      /\ audio' = audio /\ active' = active /\ thread' = thread
  BY DEF Unbuffer, At, world, engine
<1>2. /\ "unbuffer" \in Leading /\ "unbuffer" # "frontend_init"
      /\ "close_client" \in Chained /\ Before("close_client") = "unbuffer"
      /\ "unbuffer" \in Chained
      /\ "unbuffer" \notin {"stop_plugin", "stop_worker"}
  BY DEF Leading, Chained, Before
<1>3. Closed("unbuffer")
  BY <1>0, <1>1 DEF HeadOK
<1>4. ~audio /\ ~active /\ ~thread /\ audio' = FALSE
  BY <1>0, <1>1, <1>2, <1>3 DEF Closed, KindsOK
<1>5. /\ active' \in BOOLEAN /\ thread' \in BOOLEAN
      /\ thread' => Lives("workers")' /\ Lives("instance")'
  BY <1>0, <1>1, <1>4 DEF KindsOK
<1>6. CASE todo' = todo /\ life' = life
  <2>1. KindsOK' /\ LifeOK' /\ LifeStep
    <3>1. /\ Stands' /\ life'["buffers"] # "freed" /\ life'["backend"] # "unset"
          /\ life' \in [Resource -> {"unset", "live", "freed"}]
          /\ life'["client"] = "freed" => Jack
      BY <1>0, <1>6 DEF LifeOK, KindsOK, Stands, Lives
    <3> QED
      BY <1>1, <1>2, <1>4, <1>5, <1>6, <3>1, ClosingLife
  <2>2. ListOK' /\ HeadOK'
    BY <1>0, <1>1, <1>6, ListSame, HeadSame
  <2> QED
    BY <2>1, <2>2 DEF SessionInv, Kept
<1>7. CASE todo' = <<>> \o Tail(todo) /\ life' = With({"buffers"}, "unset")
  <2>1. /\ life' \in [Resource -> {"unset", "live", "freed"}]
        /\ \A r \in Resource : life'[r] = IF r = "buffers" THEN "unset"
                                                           ELSE life[r]
    BY <1>0, <1>7 DEF With, KindsOK
  <2>2. /\ \A r \in Resource :
             \/ life'[r] = life[r]
             \/ life[r] = "live" /\ life'[r] \in {"unset", "freed"}
        /\ life'["buffers"] # "freed" /\ life'["backend"] # "unset"
        /\ life'["app"] = life["app"]
        /\ life'["client"] = "freed" => Jack
    BY <1>0, <2>1 DEF LifeOK, KindsOK, Resource
  <2>3. Stands'
    BY <1>0, <2>1 DEF LifeOK, Stands, Lives, Resource
  <2>4. KindsOK' /\ LifeOK' /\ LifeStep
    BY <1>1, <1>2, <1>4, <1>5, <2>1, <2>2, <2>3, ClosingLife
  <2>5. Closed("close_client")'
    BY <1>1, <1>4, <2>1 DEF Closed, Chained, Lives, Resource
  <2>6. PICK t : t = Tail(todo)
    OBVIOUS
  <2>7. todo' = t
    BY <1>0, <1>1, <1>7, <2>6, ThenNothing
  <2> QED
    BY <1>1, <1>2, <1>4, <2>4, <2>5, <2>6, <2>7, ClosingKept
<1> QED
  BY <1>6, <1>7 DEF Unbuffer, Then

\* The world and the backend are the last to go.
LEMMA FreesKept ==
  ASSUME SessionInv, FreeWorld \/ FreeBackend
  PROVE  Kept
<1>0. KindsOK /\ LifeOK /\ ListOK /\ HeadOK
  BY DEF SessionInv
<1>1. /\ todo # <<>> /\ Head(todo) \in {"free_world", "free_backend"}
      /\ todo' = <<>> \o Tail(todo)
      /\ cfg' = cfg /\ guest' = guest /\ server' = server /\ failed' = failed
      /\ audio' = audio /\ active' = active /\ thread' = thread
  BY DEF FreeWorld, FreeBackend, At, Then, world, engine, story
<1>2. /\ Head(todo) \notin Tied /\ Head(todo) # "frontend_init"
      /\ Head(todo) \notin Enders
  <2>1. Head(todo) \notin Tied /\ Head(todo) # "frontend_init"
    BY <1>1 DEF Tied, Leading, Activation
  <2>2. Head(todo) \notin Enders
    BY <1>0, <1>1, FrontendKnown DEF Enders
  <2> QED
    BY <2>1, <2>2
<1>3. ~audio
  <2>1. CASE Head(todo) = "free_world"
    BY <1>0, <1>1, <2>1 DEF HeadOK, Closed, Chained
  <2>2. CASE Head(todo) = "free_backend"
    <3>1. todo \in Seq(Allowed) /\ Linked(todo) /\ (audio => Has(todo, Enders))
      BY <1>0 DEF ListOK
    <3>2. Tail(todo) = <<>>
      BY <1>1, <2>2, <3>1, PopList DEF Behind
    <3>3. ~Has(<<>>, Enders)
      BY DEF Has
    <3>4. Has(todo, Enders) => Has(Tail(todo), Enders)
      BY <1>1, <1>2, <3>1, PopHas
    <3> QED
      BY <3>1, <3>2, <3>3, <3>4
  <2> QED
    BY <1>1, <2>1, <2>2
<1>4. ListOK' /\ HeadOK'
  BY <1>0, <1>1, <1>2, <1>3, PushNone, CallTodo
<1>5. audio' = FALSE /\ active' \in BOOLEAN /\ thread' \in BOOLEAN
  BY <1>0, <1>1, <1>3 DEF KindsOK
<1>6. CASE FreeWorld
  <2>1. Head(todo) = "free_world"
    BY <1>6 DEF FreeWorld, At
  <2>2. Closed("free_world") /\ ~thread
    BY <1>0, <1>1, <2>1 DEF HeadOK, Closed, Chained
  <2>3. /\ life' \in [Resource -> {"unset", "live", "freed"}]
        /\ \A r \in Resource :
             life'[r] = IF r \in {"world", "done"} /\ life[r] = "live"
                        THEN "freed" ELSE life[r]
    BY <1>0, <1>6 DEF FreeWorld, Free, Live, With, KindsOK
  <2>4. /\ \A r \in Resource :
             \/ life'[r] = life[r]
             \/ life[r] = "live" /\ life'[r] \in {"unset", "freed"}
        /\ life'["buffers"] # "freed" /\ life'["backend"] # "unset"
        /\ life'["app"] = life["app"]
        /\ life'["client"] = "freed" => Jack
        /\ life'["instance"] = life["instance"]
    BY <1>0, <2>3 DEF LifeOK, KindsOK, Resource
  <2>5. Stands'
    BY <1>0, <2>2, <2>3 DEF LifeOK, Stands, Lives, Closed, Resource
  <2>6. thread' => Lives("workers")' /\ Lives("instance")'
    BY <1>1, <2>2
  <2>7. KindsOK' /\ LifeOK' /\ LifeStep
    BY <1>1, <1>2, <1>5, <2>3, <2>4, <2>5, <2>6, ClosingLife
  <2> QED
    BY <1>4, <2>7 DEF SessionInv, Kept
<1>7. CASE FreeBackend
  <2>1. life' = life \/ life' = With({"backend"}, "freed")
    BY <1>7 DEF FreeBackend
  <2>2. /\ life' \in [Resource -> {"unset", "live", "freed"}]
        /\ \A r \in Resource : \/ life'[r] = life[r]
                               \/ r = "backend" /\ life'[r] = "freed"
    BY <1>0, <2>1 DEF With, KindsOK
  <2>3. /\ \A r \in Resource :
             \/ life'[r] = life[r]
             \/ life[r] = "live" /\ life'[r] \in {"unset", "freed"}
        /\ life'["buffers"] # "freed" /\ life'["backend"] # "unset"
        /\ life'["app"] = life["app"]
        /\ life'["client"] = "freed" => Jack
        /\ life'["instance"] = life["instance"]
    BY <1>0, <2>2 DEF LifeOK, KindsOK, Resource
  <2>4. Stands'
    BY <1>0, <2>2 DEF LifeOK, Stands, Lives, Resource
  <2>5. thread' => Lives("workers")' /\ Lives("instance")'
    BY <1>0, <1>1, <2>2 DEF LifeOK, Lives, Resource
  <2>6. KindsOK' /\ LifeOK' /\ LifeStep
    BY <1>1, <1>2, <1>5, <2>2, <2>3, <2>4, <2>5, ClosingLife
  <2> QED
    BY <1>4, <2>6 DEF SessionInv, Kept
<1> QED
  BY <1>6, <1>7

\* GTK's App is freed, and its loop turns into its shutdown.
LEMMA QuitAppKept ==
  ASSUME SessionInv, QuitApp
  PROVE  Kept
<1> DEFINE rest == Tail(todo)
           New(x) == IF x = "gtk_loop" THEN "app_shutdown" ELSE x
<1>0. KindsOK /\ LifeOK /\ ListOK
  BY DEF SessionInv
<1>1. /\ todo # <<>> /\ Head(todo) = "quit_app"
      /\ life' = With({"app"}, "freed")
      /\ todo' = [i \in DOMAIN rest |-> New(rest[i])]
      /\ cfg' = cfg /\ guest' = guest /\ server' = server /\ failed' = failed
      /\ audio' = audio /\ active' = active /\ thread' = thread
  BY DEF QuitApp, At, world, engine, story
<1>2. "quit_app" \notin Tied /\ "quit_app" # "frontend_init"
  BY DEF Tied, Leading, Activation
<1>3. /\ todo \in Seq(Allowed) /\ Linked(todo) /\ (audio => Has(todo, Enders))
  BY <1>0 DEF ListOK
<1>4. cfg.frontend = "gtk"
  <2>1. Head(todo) \in Allowed
    BY <1>1, <1>3, HeadTailProperties
  <2> QED
    BY <1>1, <2>1 DEF Allowed
<1>5. /\ rest \in Seq(Allowed) /\ Linked(rest)
      /\ rest # <<>> => Ordinary(Head(rest))
  BY <1>1, <1>2, <1>3, PopList, BehindUntied
<1>6. audio => Has(rest, Enders)
  <2>1. "quit_app" \notin Enders
    BY <1>0, FrontendKnown DEF Enders
  <2> QED
    BY <1>1, <1>3, <2>1, PopHas
<1>7. \A x \in Allowed : New(x) \in Allowed
  BY DEF Allowed, Steps
<1>8. \A x : Ordinary(x) => Ordinary(New(x))
  BY DEF Ordinary, Opening, Openers, Activation, Chained
<1>9. \A x, y : Behind(x, y) => Behind(New(x), New(y))
  <2> SUFFICES ASSUME NEW x, NEW y, Behind(x, y)
               PROVE  Behind(New(x), New(y))
    OBVIOUS
  <2>1. CASE y = "gtk_loop"
    <3>1. New(x) # "free_backend" /\ Ordinary("app_shutdown")
      BY DEF Behind, Ordinary, Opening, Openers, Activation, Chained
    <3> QED
      BY <2>1, <3>1, BehindAny
  <2>2. CASE y # "gtk_loop" /\ x = "gtk_loop"
    BY <2>2 DEF Behind, Activation, Chained, Before
  <2>3. CASE y # "gtk_loop" /\ x # "gtk_loop"
    BY <2>3
  <2> QED
    BY <2>1, <2>2, <2>3
<1>10. \A x \in Enders : New(x) \in Enders
  BY <1>4 DEF Enders
<1> HIDE DEF rest, New
<1>11. /\ todo' \in Seq(Allowed) /\ Len(todo') = Len(rest) /\ Len(rest) \in Nat
       /\ \A i \in 1..Len(rest) : todo'[i] = New(rest[i]) /\ rest[i] \in Allowed
  BY <1>1, <1>5, <1>7
<1>12. Linked(todo')
  BY <1>5, <1>9, <1>11 DEF Linked
<1>13. todo' # <<>> => Ordinary(Head(todo'))
  <2> SUFFICES ASSUME todo' # <<>> PROVE Ordinary(Head(todo'))
    OBVIOUS
  <2>1. Len(todo') >= 1
    BY <1>11, EmptySeq
  <2>2. rest # <<>>
    BY <1>11, <2>1, EmptySeq
  <2>3. Head(todo') = todo'[1] /\ Head(rest) = rest[1]
    BY <1>5, <1>11, <2>2, HeadTailProperties
  <2> QED
    BY <1>5, <1>8, <1>11, <2>1, <2>2, <2>3
<1>14. audio => Has(todo', Enders)
  BY <1>6, <1>10, <1>11 DEF Has
<1>15. ListOK'
  <2>1. Allowed' = Allowed /\ Enders' = Enders
    BY <1>1 DEF Allowed, Enders
  <2>2. Linked(todo)' /\ (audio => Has(todo, Enders))'
    BY <1>1, <1>12, <1>14, <2>1 DEF Linked, Has
  <2>3. todo' # <<>> => /\ Head(todo') \notin Opening
                        /\ Head(todo') \notin Activation
                        /\ Head(todo') # "frontend_init"
    BY <1>13 DEF Ordinary, Opening
  <2> QED
    BY <1>11, <2>1, <2>2, <2>3 DEF ListOK
<1>16. HeadOK'
  <2>1. CASE todo' = <<>>
    BY <2>1 DEF HeadOK
  <2>2. CASE todo' # <<>>
    BY <1>13, <2>2, OrdinaryNext, HeadPrimed
  <2> QED
    BY <2>1, <2>2
<1>17. /\ life' \in [Resource -> {"unset", "live", "freed"}]
       /\ \A r \in Resource : life'[r] = IF r = "app" THEN "freed" ELSE life[r]
  BY <1>0, <1>1 DEF With, KindsOK
<1>18. KindsOK'
  BY <1>0, <1>1, <1>17 DEF KindsOK
<1>19. life["app"] # "unset"
  BY <1>0, <1>1, <1>2, <1>4 DEF LifeOK
<1>20. LifeOK'
  <2>1. Stands' /\ life'["app"] = "freed"
    BY <1>0, <1>17 DEF LifeOK, Stands, Lives, Resource
  <2> QED
    BY <1>0, <1>1, <1>17, <2>1 DEF LifeOK, Lives, Jack, Resource
<1>21. LifeStep
  <2>1. \A r \in Resource : life'[r] # life[r] =>
          life[r] = "live" /\ life'[r] \in {"unset", "freed"}
    BY <1>0, <1>17, <1>19 DEF KindsOK
  <2>2. life'["instance"] = life["instance"]
    BY <1>17 DEF Resource
  <2> QED
    BY <2>1, <2>2 DEF LifeStep
<1> QED
  BY <1>15, <1>16, <1>18, <1>20, <1>21 DEF SessionInv, Kept

\* The steps of what is left are those of the list, moved by one.
LEMMA TailSteps ==
  ASSUME NEW S, NEW s \in Seq(S), s # <<>>
  PROVE  /\ Len(s) \in Nat /\ Len(Tail(s)) = Len(s) - 1 /\ Head(s) = s[1]
         /\ \A i \in 1..(Len(s) - 1) : Tail(s)[i] = s[i + 1]
BY HeadTailProperties, EmptySeq

\* The first step of main().
LEMMA FrontendInitKept ==
  ASSUME SessionInv, FrontendInit
  PROVE  Kept
<1> DEFINE u == Tail(todo)
           R == {"app"}
<1>0. KindsOK /\ LifeOK /\ ListOK /\ HeadOK
  BY DEF SessionInv
<1>1. /\ todo # <<>> /\ Head(todo) = "frontend_init"
      /\ \/ cfg.frontend = "console" /\ life' = life
         \/ life' = With(R, "live")
      /\ \/ todo' = <<>> \o u
         \/ todo' = Tail(u)
      /\ cfg' = cfg /\ guest' = guest /\ server' = server /\ failed' = failed
      /\ audio' = audio /\ active' = active /\ thread' = thread
  BY DEF FrontendInit, At, Then, world, engine, story
<1>2. /\ todo \in Seq(Allowed) /\ Linked(todo) /\ Len(todo) = 4
      /\ todo[2] = "frontend_run" /\ todo[3] = "frontend_close"
  BY <1>0, <1>1 DEF ListOK
<1>3. Opened("frontend_init") /\ "frontend_init" \in Opening \ Activation
  BY <1>0, <1>1 DEF HeadOK, Opening, Activation
<1>4. ~audio /\ ~thread /\ ~active
  BY <1>3 DEF Opened
<1>5. /\ u \in Seq(Allowed) /\ Linked(u) /\ Len(u) = 3
      /\ u[1] = "frontend_run" /\ u[2] = "frontend_close"
      /\ u # <<>> /\ Head(u) = "frontend_run"
  <2>1. u \in Seq(Allowed) /\ Linked(u)
    BY <1>1, <1>2, PopList
  <2>2. /\ Len(u) = Len(todo) - 1
        /\ \A i \in 1..(Len(todo) - 1) : u[i] = todo[i + 1]
    BY <1>1, <1>2, TailSteps
  <2> HIDE DEF u
  <2>3. Len(u) = 3 /\ u[1] = todo[2] /\ u[2] = todo[3]
    <3>1. Len(todo) = 4 /\ 1 + 1 = 2 /\ 2 + 1 = 3
      BY <1>2
    <3> QED
      BY <2>2, <3>1
  <2>4. u # <<>>
    BY <2>1, <2>3, EmptySeq
  <2>5. Head(u) = u[1]
    BY <2>1, <2>4, TailSteps
  <2> QED
    BY <1>2, <2>1, <2>3, <2>4, <2>5
<1>6. <<>> \o u = u
  BY <1>0, <1>1, ThenNothing
<1> HIDE DEF u
<1>7. /\ Tail(u) \in Seq(Allowed) /\ Linked(Tail(u))
      /\ Tail(u) # <<>> /\ Head(Tail(u)) = "frontend_close"
  <2> DEFINE v == Tail(u)
  <2>1. v \in Seq(Allowed) /\ Linked(v)
    BY <1>5, PopList
  <2>2. /\ Len(v) = Len(u) - 1
        /\ \A i \in 1..(Len(u) - 1) : v[i] = u[i + 1]
    BY <1>5, TailSteps
  <2> HIDE DEF v
  <2>3. Len(v) = 2 /\ v[1] = u[2]
    BY <1>5, <2>2
  <2>4. v # <<>>
    BY <2>1, <2>3, EmptySeq
  <2>5. Head(v) = v[1]
    BY <2>1, <2>4, TailSteps
  <2> QED
    BY <1>5, <2>1, <2>3, <2>4, <2>5 DEF v
<1>8. /\ todo' \in Seq(Allowed) /\ Linked(todo') /\ todo' # <<>>
      /\ Head(todo') \in {"frontend_run", "frontend_close"}
      /\ Head(todo') = "frontend_run" => Has(todo', {"frontend_close"})
  <2>1. Has(u, {"frontend_close"})
    BY <1>5 DEF Has
  <2> QED
    BY <1>1, <1>5, <1>6, <1>7, <2>1
<1>9. /\ life' \in [Resource -> {"unset", "live", "freed"}] /\ LifeStep
      /\ \A r \in Resource : life'[r] # "freed"
      /\ \A r \in Resource \ {"app"} : life'[r] = life[r]
      /\ cfg.frontend = "gtk" => life'["app"] = "live"
  <2>1. R \in SUBSET Resource /\ "app" \in Resource
    BY DEF Resource
  <2>2. CASE life' = With(R, "live")
    BY <1>1, <1>3, <2>1, <2>2, Makes
  <2>3. CASE cfg.frontend = "console" /\ life' = life
    BY <1>0, <1>3, <2>3, MakesNothing DEF KindsOK, Opened
  <2> QED
    BY <1>1, <2>2, <2>3
<1>10. KindsOK'
  BY <1>0, <1>1, <1>9 DEF KindsOK
<1>11. LifeOK'
  <2>1. \A r \in {"world", "ports", "controls", "instance", "client", "done",
                  "buffers", "backend", "rings", "workers", "ui"} :
          life'[r] = life[r]
    BY <1>9 DEF Resource
  <2> QED
    BY <1>0, <1>1, <1>9, <2>1 DEF LifeOK, Stands, Lives, Jack
<1>12. ListOK'
  <2>1. Allowed' = Allowed
    BY <1>1 DEF Allowed
  <2>2. /\ Linked(todo)'
        /\ Head(todo') = "frontend_run" => Has(todo, {"frontend_close"})'
    BY <1>8 DEF Linked, Has
  <2>3. /\ Head(todo') \notin Activation /\ Head(todo') # "frontend_init"
        /\ Head(todo') \in Opening => Head(todo') = "frontend_run"
    BY <1>8 DEF Activation, Opening, Openers
  <2> QED
    BY <1>1, <1>4, <1>8, <2>1, <2>2, <2>3 DEF ListOK
<1>13. HeadOK'
  <2>0. PICK g : g = Head(todo')
    OBVIOUS
  <2>1. g \in {"frontend_run", "frontend_close"}
    BY <1>8, <2>0
  <2>2. /\ g \notin Activation
        /\ g \notin Opening \ {"frontend_init", "frontend_run", "open_world"}
        /\ g \notin Chained
    BY <2>1 DEF Activation, Opening, Openers, Chained
  <2>3. Opened(g)'
    BY <1>1, <1>3, <1>4, <1>9, <2>2 DEF Opened, Opening, Openers
  <2>4. Closed(g)'
    BY <2>2 DEF Closed, Chained
  <2> QED
    BY <2>0, <2>3, <2>4, HeadPrimed
<1> QED
  BY <1>9, <1>10, <1>11, <1>12, <1>13 DEF SessionInv, Kept

-----------------------------------------------------------------------------
(* The invariant                                                           *)

\* main() begins with nothing but the backend.
LEMMA SessionInit == Init => SessionInv
<1> SUFFICES ASSUME Init PROVE SessionInv
  OBVIOUS
<1>1. /\ cfg \in Configurations
      /\ life = [r \in Resource |-> IF r = "backend" THEN "live" ELSE "unset"]
      /\ guest = (cfg.frontend = "internal")
      /\ audio = FALSE /\ server = TRUE /\ active = FALSE /\ thread = FALSE
      /\ failed = "none"
  BY DEF Init
<1>2. KindsOK
  BY <1>1 DEF KindsOK
<1>3. \A r \in Resource : life[r] = IF r = "backend" THEN "live" ELSE "unset"
  BY <1>1
<1>4. \A h : h \notin Opening \ {"frontend_init", "frontend_run", "open_world"}
               => Opened(h)
  BY <1>1, <1>3 DEF Opened, Opening, Openers, Activation
<1>5. CASE cfg.frontend = "internal"
  <2> DEFINE p == <<"open_world", "free_backend">>
  <2>1. todo = p
    BY <1>5 DEF Init
  <2>2. /\ p \in Seq(Allowed) /\ Len(p) = 2 /\ p # <<>> /\ Head(p) = p[1]
        /\ p[1] = "open_world" /\ p[2] = "free_backend"
    BY <1>5 DEF Allowed, Steps
  <2> HIDE DEF p
  <2>3. Behind("open_world", "free_backend")
    BY DEF Behind, Openers, Activation, Chained
  <2>4. Linked(p)
    <3> SUFFICES ASSUME NEW i \in 2..Len(p) PROVE Behind(p[i - 1], p[i])
      BY DEF Linked
    <3>1. i = 2 /\ i - 1 = 1
      BY <2>2
    <3> QED
      BY <2>2, <2>3, <3>1
  <2>5. "open_world" \notin Activation /\ "open_world" \notin Chained
    BY DEF Activation, Chained
  <2>6. ListOK
    BY <1>1, <1>5, <2>1, <2>2, <2>4, <2>5 DEF ListOK
  <2>7. HeadOK
    <3>1. Opened("open_world")
      BY <1>4
    <3>2. Closed("open_world")
      BY <2>5 DEF Closed, Chained
    <3> QED
      BY <2>1, <2>2, <3>1, <3>2 DEF HeadOK
  <2>8. LifeOK
    BY <1>1, <1>3, <1>5 DEF LifeOK, Stands, Lives, Resource
  <2> QED
    BY <1>2, <2>6, <2>7, <2>8 DEF SessionInv
<1>6. CASE cfg.frontend # "internal"
  <2> DEFINE p == <<"frontend_init", "frontend_run", "frontend_close",
                    "free_backend">>
  <2>1. todo = p
    BY <1>6 DEF Init
  <2>2. /\ p \in Seq(Allowed) /\ Len(p) = 4 /\ p # <<>> /\ Head(p) = p[1]
        /\ p[1] = "frontend_init" /\ p[2] = "frontend_run"
        /\ p[3] = "frontend_close" /\ p[4] = "free_backend"
    BY DEF Allowed, Steps
  <2>3. (todo # <<>> /\ Head(todo) = "frontend_init") =>
          todo = <<"frontend_init", "frontend_run", "frontend_close",
                   "free_backend">>
    BY <2>1
  <2> HIDE DEF p
  <2>4. /\ Behind("frontend_init", "frontend_run")
        /\ Behind("frontend_run", "frontend_close")
        /\ Behind("frontend_close", "free_backend")
    BY DEF Behind, Openers, Activation, Chained
  <2>5. Linked(p)
    <3> SUFFICES ASSUME NEW i \in 2..Len(p) PROVE Behind(p[i - 1], p[i])
      BY DEF Linked
    <3>1. \/ i = 2 /\ i - 1 = 1
          \/ i = 3 /\ i - 1 = 2
          \/ i = 4 /\ i - 1 = 3
      BY <2>2
    <3> QED
      BY <2>2, <2>4, <3>1
  <2>6. Has(p, {"frontend_close"})
    BY <2>2 DEF Has
  <2>7. "frontend_init" \notin Activation /\ "frontend_init" \notin Chained
    BY DEF Activation, Chained
  <2>8. ListOK
    BY <1>1, <2>1, <2>2, <2>3, <2>5, <2>6, <2>7 DEF ListOK
  <2>9. HeadOK
    <3>1. Opened("frontend_init")
      BY <1>4
    <3>2. Closed("frontend_init")
      BY <2>7 DEF Closed, Chained
    <3> QED
      BY <2>1, <2>2, <3>1, <3>2 DEF HeadOK
  <2>10. LifeOK
    BY <1>1, <1>3, <1>6, <2>1, <2>2 DEF LifeOK, Stands, Lives, Resource
  <2> QED
    BY <1>2, <2>8, <2>9, <2>10 DEF SessionInv
<1> QED
  BY <1>5, <1>6

\* Every step of every thread keeps the invariant.
LEMMA SessionStep == SessionInv /\ [Next]_vars => Kept
<1> SUFFICES ASSUME SessionInv, [Next]_vars PROVE Kept
  OBVIOUS
<1>1. CASE UNCHANGED vars
  <2>1. /\ todo' = todo /\ cfg' = cfg /\ life' = life /\ audio' = audio
        /\ guest' = guest /\ active' = active /\ thread' = thread
        /\ server' = server /\ failed' = failed
    BY <1>1 DEF vars
  <2>2. KindsOK' /\ LifeOK'
    BY <2>1 DEF SessionInv, KindsOK, LifeOK, Stands, Lives, Jack
  <2>3. ListOK' /\ HeadOK'
    BY <2>1, ListSame, HeadSame DEF SessionInv
  <2> QED
    BY <2>1, <2>2, <2>3, MakesNothing DEF SessionInv, Kept
<1>2. CASE Open
  BY <1>2, OpenWorldKept, ChecksKept, InitProcessKept, CreatePortsKept,
     OpenBackendKept, CheckFeaturesKept, InstantiateKept, ActivateProcessKept
     DEF Open
<1>3. CASE Shut
  BY <1>3, StopsKept, UnbufferKept, CloseClientKept, FreePluginKept,
     FreeProcessKept, FreesKept DEF Shut
<1>4. CASE Loops
  BY <1>4, EnterConsoleKept, UpdatesKept, LoopsKept, StartsKept, EndsKept,
     QuitAppKept DEF Loops
<1>5. CASE Main
  BY <1>2, <1>3, <1>4, <1>5, FrontendInitKept, FrontendRunKept, EndsKept,
     FreesKept, StartsKept, AskPauseKept, LoopsKept, OthersKept DEF Main
<1>6. CASE ProcessGate \/ BufferSize \/ Signal \/ ServerShutdown
  BY <1>6, OthersKept
<1> QED
  BY <1>1, <1>5, <1>6 DEF Next

\* The list of steps and the memory fit each other in every run.
THEOREM SessionSafe == Spec => []SessionInv
<1>1. SessionInv /\ [Next]_vars => SessionInv'
  BY SessionStep DEF Kept
<1> QED
  BY SessionInit, <1>1, PTL DEF Spec

-----------------------------------------------------------------------------
(* What follows                                                            *)

\* The callbacks and the worker find what they read, through every way of
\* closing: jalv_close stops them before it frees.
THEOREM MemoryForThreads == Spec => []ThreadsHaveMemory
<1>1. SessionInv => ThreadsHaveMemory
  <2> SUFFICES ASSUME SessionInv PROVE ThreadsHaveMemory
    OBVIOUS
  <2>1. LifeOK
    BY DEF SessionInv
  <2>2. audio => {"backend", "ports", "rings", "instance", "buffers"} \subseteq Live
    BY <2>1 DEF LifeOK, Lives, Live, Resource
  <2>3. thread => {"workers", "instance"} \subseteq Live
    BY <2>1 DEF LifeOK, Lives, Live, Resource
  <2> QED
    BY <2>2, <2>3 DEF ThreadsHaveMemory
<1> QED
  BY SessionSafe, <1>1, PTL

\* jalv_close frees the instance only after it has stopped the callbacks,
\* joined the worker's thread and deactivated the plugin.
THEOREM InstanceFreedInQuiet == Spec => QuietRelease
<1>1. SessionInv /\ [Next]_vars =>
        [(life["instance"] = "live" /\ life'["instance"] # "live")
           => ~audio /\ ~thread /\ ~active]_vars
  BY SessionStep DEF Kept, LifeStep
<1> QED
  BY SessionSafe, <1>1, PTL DEF Spec, QuietRelease

-----------------------------------------------------------------------------
(* The refinement of Lifetimes                                             *)

\* What rests on what, in the words of Lifetimes.
LEMMA StandsSupported ==
  ASSUME Stands
  PROVE  Ordered!Supported(life)
<1> SUFFICES ASSUME NEW r \in Resource, life[r] = "live"
             PROVE  Needs[r] \subseteq {q \in Resource : life[q] = "live"}
  BY DEF Ordered!Supported, Ordered!LiveIn
<1>1. /\ r = "ports"    => Needs[r] = {"world"}
      /\ r = "client"   => Needs[r] = {"done"}
      /\ r = "controls" => Needs[r] = {"world"}
      /\ r = "instance" => Needs[r] = {"world", "controls"}
      /\ r = "buffers"  => Needs[r] = {"instance", "ports"}
      /\ r = "ui"       => Needs[r] = {"instance"}
      /\ r \notin {"ports", "client", "controls", "instance", "buffers", "ui"}
           => Needs[r] = {}
  BY DEF Needs
<1> QED
  BY <1>1 DEF Stands, Lives, Resource

\* main(), jalv_open and jalv_close make everything after what it rests on,
\* and give it back before that, once: the session implements Lifetimes.
THEOREM SessionOrdered == Spec => MadeAndFreedInOrder
<1>1. Init => Ordered!Init
  <2> SUFFICES ASSUME Init PROVE Ordered!Init
    OBVIOUS
  <2>1. life \in [Resource -> {"unset", "live"}]
    BY DEF Init
  <2>2. Ordered!Supported(life)
    BY SessionInit, StandsSupported DEF SessionInv, LifeOK
  <2> QED
    BY <2>1, <2>2 DEF Ordered!Init
<1>2. SessionInv /\ SessionInv' /\ [Next]_vars => [Ordered!Next]_life
  <2> SUFFICES ASSUME SessionInv, SessionInv', [Next]_vars
               PROVE  Ordered!Next
    OBVIOUS
  <2>1. LifeStep
    BY SessionStep DEF Kept
  <2>2. Ordered!Supported(life')
    <3>1. Ordered!Supported(life)'
      BY StandsSupported, PTL DEF SessionInv, LifeOK
    <3> QED
      BY <3>1 DEF Ordered!Supported, Ordered!LiveIn
  <2>3. life' \in [Resource -> {"unset", "live", "freed"}]
    BY DEF SessionInv, KindsOK
  <2>4. \A r \in Resource : \/ life'[r] = life[r]
                            \/ r \in Ordered!Made
                            \/ r \in Ordered!GivenBack
    BY <2>1 DEF LifeStep, Ordered!Made, Ordered!GivenBack
  <2>5. Ordered!Made = {} \/ Ordered!GivenBack = {}
    BY <2>1 DEF LifeStep, Ordered!Made, Ordered!GivenBack
  <2> QED
    BY <2>2, <2>3, <2>4, <2>5 DEF Ordered!Next
<1> QED
  BY SessionSafe, <1>1, <1>2, PTL DEF Spec, MadeAndFreedInOrder, Ordered!Spec

-----------------------------------------------------------------------------
(* What the list promises: that everything is closed once                  *)

\* The steps from which what was opened is closed, but for the post of `done`
\* that jalv_update takes.
Closers ==
  {"gtk_loop", "app_shutdown", "qt_loop", "qt_leave", "loaded"} \union
    IF cfg.frontend = "console" THEN {"frontend_close"}
    ELSE {"frontend_run"} \union Openers

\* How far the program is when it comes to a step.
Rank(s) ==
  IF s \in Closers THEN 1
  ELSE IF s \in {"stop_audio", "stop_plugin", "stop_worker"} THEN 2
  ELSE IF s = "unbuffer" THEN 3
  ELSE IF s = "close_client" THEN 4
  ELSE IF s = "free_plugin" THEN 5
  ELSE IF s = "free_process" THEN 6
  ELSE IF s = "free_world" THEN 7
  ELSE IF s \in {"frontend_close", "quit_app"} THEN 8
  ELSE IF s = "free_backend" THEN 9
  ELSE 0

\* The step b may be behind the step a, anywhere: what frees something is
\* there once, and so is what leads to it.
MayFollow(a, b) ==
  \/ Rank(a) < Rank(b) /\ (Rank(b) >= 8 \/ Rank(a) >= 2 \/ Rank(b) = 1)
  \/ Rank(a) = Rank(b) /\ Rank(b) \in {0, 2}

\* The steps that may not be behind the step a
Barred(a) == {b \in Steps : ~MayFollow(a, b)}

\* The list s closes once.
Once(s) == \A i, j \in 1..Len(s) : i < j => MayFollow(s[i], s[j])

\* What is freed by the step s, and what it and those it leads to rely on.
Gives(s) ==
  IF s = "close_client" THEN {"client"}
  ELSE IF s = "free_plugin" THEN {"ui", "instance"}
  ELSE IF s = "free_process" THEN {"ports", "workers", "rings", "controls"}
  ELSE IF s = "free_world" THEN {"world", "done"}
  ELSE IF s = "quit_app" THEN {"app"}
  ELSE IF s = "free_backend" THEN {"backend"}
  ELSE {}

Uses(s) ==
  IF s = "quit_loop" THEN {}
  ELSE IF Rank(s) <= 4 THEN Resource
  ELSE IF Rank(s) = 5 THEN Resource \ {"client"}
  ELSE IF Rank(s) = 6 THEN Resource \ {"client", "ui", "instance"}
  ELSE IF Rank(s) = 7 THEN {"world", "done", "app", "backend"}
  ELSE IF Rank(s) = 8 THEN {"app", "backend"}
  ELSE {"backend"}

\* The steps that no longer find what they rely on.
Stranded == {s \in Steps : Uses(s) \cap Freed # {}}

\* jalv_update has closed where that closes only once.
Sound == inside => cfg.frontend \in {"qt", "internal"}

\* What is left closes once, and finds all that it relies on.
ClosesOnce == Sound => Once(todo) /\ ~Has(todo, Stranded)

\* The steps that call jalv_update, or lead to it.
Prompts == {"first_update", "check", "poll", "update", "ui_check", "ui_update", "ui_idle",
            "gtk_loop", "qt_loop", "gtk_dialog"}

\* A console without a prompt waits, and never calls jalv_update.
Silent == cfg.mode = "silent" => ~inside /\ ~Has(todo, Prompts)

-----------------------------------------------------------------------------
(* Failing                                                                 *)

\* The steps before the ports are made
Early == {"frontend_init", "frontend_run", "open_world", "find_plugin", "choose_ui",
          "init_process", "create_ports"}

\* The steps between the ports and the instance
Halfway == {"open_backend", "check_features", "instantiate"}

\* All that GTK and Qt come to when jalv_open has failed.
Remains == {"app_shutdown", "frontend_close", "quit_app", "quit_loop", "free_backend"}

\* The ports are made before the instance and jalv_open fails between them, or
\* goes on; GTK and Qt close nothing when it has failed.
FailsWell ==
  /\ (todo # <<>> /\ Head(todo) \in Early) =>
       ~Lives("ports") /\ (Head(todo) = "frontend_init" => cfg.frontend # "internal")
  /\ (todo # <<>> /\ Head(todo) \in Early \union Openers) => ~inside
  /\ (Lives("ports") /\ life["instance"] = "unset" /\ failed = "none") =>
       todo # <<>> /\ Head(todo) \in Halfway
  /\ failed \in {"plugin", "ui"} => ~Lives("ports")
  /\ (failed # "none" /\ cfg.frontend \in {"gtk", "qt"}) => ~Has(todo, Steps \ Remains)

-----------------------------------------------------------------------------
(* What will be freed                                                      *)

\* The steps that free a resource or lead to it.
Freers(r) ==
  IF r = "app" THEN {"frontend_close", "quit_app"}
  ELSE IF r = "backend" THEN {"free_backend"}
  ELSE (Openers \union Closers \union {"unbuffer"} \union {s \in Steps : r \in Gives(s)})
         \ (IF r = "buffers" THEN {"frontend_run"} ELSE {"frontend_run", "unbuffer"})

\* What lives will be freed, unless jalv_open has failed.
Awaited ==
  /\ Lives("app") => cfg.frontend \in {"gtk", "qt"}
  /\ failed = "none" =>
       \A r \in Live : ~(r = "app" /\ cfg.frontend = "qt") => Has(todo, Freers(r))

-----------------------------------------------------------------------------
\* The values of the other variables; each post of `done` is taken at most once.
KindsKnown ==
  /\ done \in Nat /\ posts \in 0..MaxPosts /\ done <= posts
  /\ running \in BOOLEAN /\ missed \in BOOLEAN /\ inside \in BOOLEAN
  /\ gate \in {"open", "asked", "shut", "resume"}
  /\ size \in Sizes /\ bufs \in Sizes \union {0}
  /\ failed \in {"none", "plugin", "ui", "ports", "backend", "features",
                 "instance"}
  /\ fault \in {"none", "freed", "null", "posted"}

\* The buffers are as large as they were made or as the last change made them.
SizesFit == /\ bufs # 0 => missed \/ bufs = size
            /\ Lives("buffers") => bufs # 0

\* All that the list of steps promises
FlowInv == ClosesOnce /\ Silent /\ FailsWell /\ Awaited /\ KnownMisuse

-----------------------------------------------------------------------------
(* Lists that close once                                                   *)

\* What may be put in the place of the step h.
Carried(h, a) == Barred(a) \subseteq Barred(h) /\ Uses(a) \subseteq Uses(h)

\* A list that may be put in the place of the step h.
Good(h, p) == p \in Seq(Steps) /\ Once(p) /\ \A i \in 1..Len(p) : Carried(h, p[i])

\* The ranks are numbers.
LEMMA RankKnown ==
  ASSUME NEW s
  PROVE  Rank(s) \in 0..9
BY DEF Rank

\* The places of the steps depend on the frontend alone.
LEMMA SamePlaces ==
  ASSUME cfg' = cfg, NEW s
  PROVE  /\ Rank(s)' = Rank(s) /\ Uses(s)' = Uses(s) /\ Barred(s)' = Barred(s)
         /\ Closers' = Closers /\ Freers(s)' = Freers(s)
<1>1. Closers' = Closers
  BY DEF Closers
<1>2. \A x : Rank(x)' = Rank(x)
  BY <1>1 DEF Rank
<1>3. Uses(s)' = Uses(s)
  BY <1>2 DEF Uses
<1>4. Barred(s)' = Barred(s)
  BY <1>2 DEF Barred, MayFollow
<1>5. Freers(s)' = Freers(s)
  BY <1>1 DEF Freers
<1> QED
  BY <1>1, <1>2, <1>3, <1>4, <1>5

\* And so does what is closed once.
LEMMA OnceSame ==
  ASSUME cfg' = cfg, NEW s
  PROVE  Once(s)' <=> Once(s)
<1>1. \A x : Rank(x)' = Rank(x)
  BY SamePlaces
<1> QED
  BY <1>1 DEF Once, MayFollow

\* What is behind the first step may be there.
LEMMA PopOnce ==
  ASSUME NEW s \in Seq(Steps), s # <<>>, Once(s)
  PROVE  /\ Once(Tail(s)) /\ ~Has(Tail(s), Barred(Head(s)))
         /\ \A E : ~Has(s, E) => ~Has(Tail(s), E)
<1>1. /\ Len(s) \in Nat /\ Len(Tail(s)) = Len(s) - 1 /\ Head(s) = s[1]
      /\ \A i \in 1..(Len(s) - 1) : Tail(s)[i] = s[i + 1]
      /\ Len(s) >= 1
  BY HeadTailProperties, EmptySeq
<1>2. Once(Tail(s))
  BY <1>1 DEF Once
<1>3. \A i \in 1..(Len(s) - 1) : MayFollow(s[1], s[i + 1])
  BY <1>1 DEF Once
<1>4. ~Has(Tail(s), Barred(Head(s)))
  BY <1>1, <1>3 DEF Has, Barred
<1>5. \A E : ~Has(s, E) => ~Has(Tail(s), E)
  BY <1>1 DEF Has
<1> QED
  BY <1>2, <1>4, <1>5

\* Two lists that close once do so together if none of the second bars that.
LEMMA JoinOnce ==
  ASSUME NEW p \in Seq(Steps), NEW q \in Seq(Steps), Once(p), Once(q),
         \A i \in 1..Len(p) : ~Has(q, Barred(p[i]))
  PROVE  /\ p \o q \in Seq(Steps) /\ Once(p \o q)
         /\ \A E : Has(p \o q, E) <=> Has(p, E) \/ Has(q, E)
<1>1. /\ p \o q \in Seq(Steps) /\ Len(p) \in Nat /\ Len(q) \in Nat
      /\ Len(p \o q) = Len(p) + Len(q)
      /\ \A i \in 1..(Len(p) + Len(q)) :
           (p \o q)[i] = IF i <= Len(p) THEN p[i] ELSE q[i - Len(p)]
  BY ConcatProperties
<1> DEFINE m == Len(p)
           n == Len(q)
           r == p \o q
<1>2. ASSUME NEW i \in 1..(m + n), NEW j \in 1..(m + n), i < j
      PROVE  MayFollow(r[i], r[j])
  <2>1. CASE j <= m
    BY <1>1, <1>2, <2>1 DEF Once
  <2>2. CASE i > m
    <3>1. r[i] = q[i - m] /\ r[j] = q[j - m] /\ i - m \in 1..n /\ j - m \in 1..n /\ i - m < j - m
      BY <1>1, <1>2, <2>2
    <3> QED
      BY <3>1 DEF Once
  <2>3. CASE i <= m /\ j > m
    <3>1. r[i] = p[i] /\ r[j] = q[j - m] /\ i \in 1..m /\ j - m \in 1..n
      BY <1>1, <1>2, <2>3
    <3>2. q[j - m] \notin Barred(p[i]) /\ q[j - m] \in Steps
      BY <3>1 DEF Has
    <3> QED
      BY <3>1, <3>2 DEF Barred
  <2> QED
    BY <1>1, <2>1, <2>2, <2>3
<1>3. Once(p \o q)
  BY <1>1, <1>2 DEF Once
<1>4. \A E : Has(p \o q, E) <=> Has(p, E) \/ Has(q, E)
  <2> TAKE E
  <2>1. ASSUME Has(r, E) PROVE Has(p, E) \/ Has(q, E)
    <3>1. PICK i \in 1..(m + n) : r[i] \in E
      BY <1>1, <2>1 DEF Has
    <3>2. CASE i <= m
      BY <1>1, <3>1, <3>2 DEF Has
    <3>3. CASE i > m
      <4>1. r[i] = q[i - m] /\ i - m \in 1..n
        BY <1>1, <3>3
      <4> QED
        BY <3>1, <4>1 DEF Has
    <3> QED
      BY <1>1, <3>2, <3>3
  <2>2. ASSUME Has(p, E) PROVE Has(r, E)
    <3>1. PICK i \in 1..m : p[i] \in E
      BY <2>2 DEF Has
    <3>2. i \in 1..(m + n) /\ r[i] = p[i]
      BY <1>1
    <3> QED
      BY <1>1, <3>1, <3>2 DEF Has
  <2>3. ASSUME Has(q, E) PROVE Has(r, E)
    <3>1. PICK i \in 1..n : q[i] \in E
      BY <2>3 DEF Has
    <3>2. m + i \in 1..(m + n) /\ r[m + i] = q[i]
      BY <1>1
    <3> QED
      BY <1>1, <3>1, <3>2 DEF Has
  <2> QED
    BY <2>1, <2>2, <2>3
<1> QED
  BY <1>1, <1>3, <1>4

\* The step at the head goes, others come in its place, and it frees at most
\* what is its own.
LEMMA FlowList ==
  ASSUME cfg' = cfg, todo \in Seq(Steps), todo # <<>>, ClosesOnce, Sound' => Sound,
         NEW p, Sound' => Good(Head(todo), p), todo' = p \o Tail(todo),
         Freed' \subseteq Freed \union Gives(Head(todo)),
         p # <<>> => Freed' \subseteq Freed
  PROVE  ClosesOnce'
<1> SUFFICES ASSUME Sound' PROVE Once(todo)' /\ ~Has(todo, Stranded)'
  BY DEF ClosesOnce
<1> DEFINE h == Head(todo)
           t == Tail(todo)
<1>1. Once(todo) /\ ~Has(todo, Stranded) /\ Good(h, p)
  BY DEF ClosesOnce
<1>2. t \in Seq(Steps) /\ Once(t) /\ ~Has(t, Barred(h)) /\ ~Has(t, Stranded)
  BY <1>1, PopOnce, HeadTailProperties
<1>3. \A i \in 1..Len(p) : ~Has(t, Barred(p[i]))
  BY <1>1, <1>2 DEF Good, Carried, Has
<1>4. /\ todo' \in Seq(Steps) /\ Once(todo')
      /\ \A E : Has(todo', E) <=> Has(p, E) \/ Has(t, E)
  BY <1>1, <1>2, <1>3, JoinOnce DEF Good
<1>5. Once(todo)'
  <2>1. \A x : Once(x)' <=> Once(x)
    BY OnceSame
  <2> QED
    BY <1>4, <2>1 DEF Once
<1>6. \A s \in Steps : Uses(s)' = Uses(s)
  BY SamePlaces
<1>7. ASSUME NEW s \in Steps, MayFollow(h, s)
      PROVE  Uses(s) \cap Gives(h) = {}
  <2>1. Rank(s) \in 0..9
    BY RankKnown
  <2>2. CASE Gives(h) = {}
    BY <2>2
  <2>3. CASE h \in {"close_client", "free_plugin", "free_process", "free_world", "quit_app",
                   "free_backend"}
    <3>1. /\ Rank(h) >= 4 /\ Rank(s) > Rank(h) /\ s # "quit_loop"
          /\ h = "close_client" => Rank(h) = 4
          /\ h = "free_plugin" => Rank(h) = 5
          /\ h = "free_process" => Rank(h) = 6
          /\ h = "free_world" => Rank(h) = 7
          /\ h = "quit_app" => Rank(h) = 8
          /\ h = "free_backend" => Rank(h) = 9
      <4>1. /\ h = "close_client" => Rank(h) = 4
            /\ h = "free_plugin" => Rank(h) = 5
            /\ h = "free_process" => Rank(h) = 6
            /\ h = "free_world" => Rank(h) = 7
            /\ h = "quit_app" => Rank(h) = 8
            /\ h = "free_backend" => Rank(h) = 9
        BY DEF Rank, Closers, Openers
      <4>2. Rank(h) >= 4
        BY <2>3, <4>1
      <4>3. Rank(s) > Rank(h)
        BY <1>7, <2>1, <2>3, <4>1 DEF MayFollow
      <4>4. s # "quit_loop"
        <5>1. Rank("quit_loop") = 0
          <6>1. "quit_loop" \notin Closers
            BY DEF Closers, Openers
          <6> QED
            BY <6>1 DEF Rank
        <5>2. Rank(s) # 0
          <6>1. Rank(h) \in 0..9
            BY RankKnown
          <6> HIDE DEF h
          <6> QED
            BY <2>1, <4>2, <4>3, <6>1
        <5> QED
          BY <5>1, <5>2
      <4> QED
        BY <4>1, <4>2, <4>3, <4>4
    <3>2. /\ Rank(s) = 5 => Uses(s) = Resource \ {"client"}
          /\ Rank(s) = 6 => Uses(s) = Resource \ {"client", "ui", "instance"}
          /\ Rank(s) = 7 => Uses(s) = {"world", "done", "app", "backend"}
          /\ Rank(s) = 8 => Uses(s) = {"app", "backend"}
          /\ Rank(s) = 9 => Uses(s) = {"backend"}
      BY <3>1 DEF Uses
    <3> QED
      BY <2>1, <2>3, <3>1, <3>2 DEF Gives
  <2> QED
    BY <2>2, <2>3 DEF Gives
<1>8. ~Has(t, Stranded')
  <2> SUFFICES ASSUME NEW i \in 1..Len(t) PROVE t[i] \notin Stranded'
    BY DEF Has
  <2>1. t[i] \in Steps /\ MayFollow(h, t[i]) /\ t[i] \notin Stranded
    BY <1>2 DEF Has, Barred
  <2>2. Uses(t[i]) \cap Freed = {} /\ Uses(t[i]) \cap Gives(h) = {}
    BY <1>7, <2>1 DEF Stranded
  <2> QED
    BY <1>6, <2>1, <2>2 DEF Stranded
<1>9. ~Has(p, Stranded')
  <2> SUFFICES ASSUME NEW i \in 1..Len(p) PROVE p[i] \notin Stranded'
    BY DEF Has
  <2>1. p # <<>> /\ p[i] \in Steps /\ Uses(p[i]) \subseteq Uses(h)
    BY <1>1 DEF Good, Carried
  <2>2. h \in Steps /\ Uses(h) \cap Freed = {}
    <3>1. h = todo[1] /\ 1 \in 1..Len(todo)
      BY HeadTailProperties, EmptySeq
    <3>2. h \in Steps
      BY <3>1
    <3> QED
      BY <1>1, <3>1, <3>2 DEF Has, Stranded
  <2>3. Freed' \subseteq Freed
    BY <2>1
  <2> QED
    BY <1>6, <2>1, <2>2, <2>3 DEF Stranded
<1>10. ~Has(todo, Stranded)'
  BY <1>4, <1>8, <1>9 DEF Has
<1> QED
  BY <1>5, <1>10

-----------------------------------------------------------------------------
(* What a step has to show                                                 *)

\* The steps that make what a program needs
Starters == {"frontend_init"} \union Openers

\* The steps that are left are steps of the program.
LEMMA AllowedSteps ==
  ASSUME SessionInv
  PROVE  /\ todo \in Seq(Steps)
         /\ todo # <<>> => /\ Head(todo) \in Steps /\ Tail(todo) \in Seq(Steps)
                           /\ Tail(todo) # <<>> => Behind(Head(todo), Head(Tail(todo)))
<1>1. todo \in Seq(Allowed) /\ Linked(todo) /\ Allowed \subseteq Steps
  BY DEF SessionInv, ListOK, Allowed
<1>2. todo \in Seq(Steps)
  BY <1>1
<1> QED
  BY <1>1, <1>2, PopList, HeadTailProperties

\* What a list had, it still has, or it was the first step.
LEMMA HasBehind ==
  ASSUME NEW s \in Seq(Steps), s # <<>>, NEW p \in Seq(Steps), NEW E
  PROVE  /\ Has(p \o Tail(s), E) <=> Has(p, E) \/ Has(Tail(s), E)
         /\ Has(s, E) <=> Head(s) \in E \/ Has(Tail(s), E)
<1>1. /\ Len(s) \in Nat /\ Len(Tail(s)) = Len(s) - 1 /\ Head(s) = s[1]
      /\ \A i \in 1..(Len(s) - 1) : Tail(s)[i] = s[i + 1]
      /\ Tail(s) \in Seq(Steps) /\ Len(s) >= 1
  BY HeadTailProperties, EmptySeq
<1>2. ASSUME Has(Tail(s), E) PROVE Has(s, E)
  <2>1. PICK i \in 1..(Len(s) - 1) : Tail(s)[i] \in E
    BY <1>1, <1>2 DEF Has
  <2>2. i + 1 \in 1..Len(s) /\ s[i + 1] \in E
    BY <1>1, <2>1
  <2> QED
    BY <2>2 DEF Has
<1>3. ASSUME Head(s) \in E PROVE Has(s, E)
  BY <1>1, <1>3 DEF Has
<1>4. Has(s, E) => Head(s) \in E \/ Has(Tail(s), E)
  BY PopHas
<1>5. Has(p \o Tail(s), E) <=> Has(p, E) \/ Has(Tail(s), E)
  <2> DEFINE t == Tail(s)
  <2>1. /\ Len(p) \in Nat /\ Len(t) \in Nat
        /\ Len(p \o t) = Len(p) + Len(t)
        /\ \A i \in 1..(Len(p) + Len(t)) :
             (p \o t)[i] = IF i <= Len(p) THEN p[i] ELSE t[i - Len(p)]
    BY <1>1, ConcatProperties
  <2> HIDE DEF t
  <2>2. ASSUME Has(p \o t, E) PROVE Has(p, E) \/ Has(t, E)
    <3>1. PICK i \in 1..(Len(p) + Len(t)) : (p \o t)[i] \in E
      BY <2>1, <2>2 DEF Has
    <3>2. CASE i <= Len(p)
      BY <2>1, <3>1, <3>2 DEF Has
    <3>3. CASE i > Len(p)
      <4>1. (p \o t)[i] = t[i - Len(p)] /\ i - Len(p) \in 1..Len(t)
        BY <2>1, <3>3
      <4> QED
        BY <3>1, <4>1 DEF Has
    <3> QED
      BY <2>1, <3>2, <3>3
  <2>3. ASSUME Has(p, E) PROVE Has(p \o t, E)
    <3>1. PICK i \in 1..Len(p) : p[i] \in E
      BY <2>3 DEF Has
    <3>2. i \in 1..(Len(p) + Len(t)) /\ (p \o t)[i] = p[i]
      BY <2>1
    <3> QED
      BY <2>1, <3>1, <3>2 DEF Has
  <2>4. ASSUME Has(t, E) PROVE Has(p \o t, E)
    <3>1. PICK i \in 1..Len(t) : t[i] \in E
      BY <2>4 DEF Has
    <3>2. Len(p) + i \in 1..(Len(p) + Len(t)) /\ (p \o t)[Len(p) + i] = t[i]
      BY <2>1
    <3> QED
      BY <2>1, <3>1, <3>2 DEF Has
  <2> QED
    BY <2>2, <2>3, <2>4 DEF t
<1> QED
  BY <1>2, <1>3, <1>4, <1>5

\* jalv_open is not entered again.
LEMMA HeadBehind ==
  ASSUME SessionInv, todo # <<>>, NEW p \in Seq(Steps), todo' = p \o Tail(todo),
         Head(todo) # "frontend_init", p # <<>> => Head(p) \notin Early \union Openers
  PROVE  todo' # <<>> => Head(todo') \notin Early \union Openers
<1>1. CASE p = <<>>
  <2>1. todo' = Tail(todo)
    BY <1>1, AllowedSteps
  <2>2. ASSUME Tail(todo) # <<>>
        PROVE  Head(Tail(todo)) \notin Early \union Openers
    <3>1. Behind(Head(todo), Head(Tail(todo)))
      BY <2>2, AllowedSteps
    <3> QED
      BY <3>1 DEF Behind, Early, Openers
  <2> QED
    BY <2>1, <2>2
<1>2. CASE p # <<>>
  <2>1. Head(todo') = Head(p)
    <3>1. Tail(todo) \in Seq(Steps)
      BY AllowedSteps
    <3>2. /\ Len(p) \in Nat /\ Len(p) >= 1 /\ Len(todo') = Len(p) + Len(Tail(todo))
          /\ todo' \in Seq(Steps) /\ todo'[1] = p[1]
      BY <1>2, <3>1, ConcatProperties, EmptySeq
    <3>3. Head(p) = p[1] /\ Head(todo') = todo'[1]
      BY <1>2, <3>1, <3>2, HeadTailProperties, EmptySeq
    <3> QED
      BY <3>2, <3>3
  <2> QED
    BY <1>2, <2>1
<1> QED
  BY <1>1, <1>2

\* What keeps a program without a prompt from calling jalv_update
LEMMA SilentKept ==
  ASSUME SessionInv, Silent, todo # <<>>, cfg' = cfg,
         NEW p \in Seq(Steps), todo' = p \o Tail(todo),
         inside' => inside \/ Head(todo) \in Prompts,
         (cfg.mode = "silent" /\ Head(todo) \notin Prompts) => ~Has(p, Prompts)
  PROVE  Silent'
<1> SUFFICES ASSUME cfg.mode = "silent" PROVE ~inside' /\ ~Has(todo', Prompts)
  BY DEF Silent, Has
<1>1. Head(todo) \notin Prompts /\ ~Has(Tail(todo), Prompts)
  BY AllowedSteps, HasBehind DEF Silent
<1>2. ~Has(todo', Prompts)
  BY <1>1, AllowedSteps, HasBehind
<1> QED
  BY <1>1, <1>2 DEF Silent

\* What keeps the account of a failure
LEMMA FailsKept ==
  ASSUME SessionInv, FailsWell, todo # <<>>, cfg' = cfg, failed' = failed,
         NEW p \in Seq(Steps), todo' = p \o Tail(todo),
         Head(todo) \notin Starters, p # <<>> => Head(p) \notin Early \union Openers,
         life'["ports"] = "live" => Lives("ports"),
         life'["instance"] = "unset" => life["instance"] = "unset",
         (failed # "none" /\ cfg.frontend \in {"gtk", "qt"} /\ Head(todo) \in Remains) =>
           ~Has(p, Steps \ Remains)
  PROVE  FailsWell'
<1>0. Head(todo) # "frontend_init"
  BY DEF Starters
<1>1. todo' # <<>> => Head(todo') \notin Early \union Openers
  BY <1>0, HeadBehind
<1>2. Head(todo) \notin Halfway
  BY DEF Halfway, Starters, Openers
<1>3. (failed # "none" /\ cfg.frontend \in {"gtk", "qt"}) => ~Has(todo', Steps \ Remains)
  <2> SUFFICES ASSUME failed # "none", cfg.frontend \in {"gtk", "qt"}
               PROVE  ~Has(todo', Steps \ Remains)
    OBVIOUS
  <2>1. ~Has(todo, Steps \ Remains)
    BY DEF FailsWell
  <2>2. Head(todo) \in Remains /\ ~Has(Tail(todo), Steps \ Remains)
    BY <2>1, AllowedSteps, HasBehind
  <2> QED
    BY <2>2, AllowedSteps, HasBehind
<1>4. /\ (todo' # <<>> /\ Head(todo') \in Early) => ~Lives("ports")'
      /\ (todo' # <<>> /\ Head(todo') \in Early \union Openers) => ~inside'
  BY <1>1
<1>5. ~(life'["ports"] = "live" /\ life'["instance"] = "unset" /\ failed' = "none")
  BY <1>2 DEF FailsWell
<1>6. failed' \in {"plugin", "ui"} => ~(life'["ports"] = "live")
  BY DEF FailsWell, Lives
<1> QED
  BY <1>1, <1>3, <1>4, <1>5, <1>6 DEF FailsWell, Lives, Has

\* What keeps the freeing of the rest in the list
LEMMA AwaitedKept ==
  ASSUME SessionInv, Awaited, todo # <<>>, cfg' = cfg, failed' = failed,
         NEW p \in Seq(Steps), todo' = p \o Tail(todo),
         life'["app"] = "live" => Lives("app"),
         \A r \in Live' : (failed = "none" /\ ~(r = "app" /\ cfg.frontend = "qt")) =>
           \/ r \in Live /\ (Head(todo) \notin Freers(r) \/ Has(p, Freers(r)))
           \/ Has(todo', Freers(r))
  PROVE  Awaited'
<1>1. Lives("app")' => cfg.frontend \in {"gtk", "qt"}
  BY DEF Awaited, Lives
<1>2. ASSUME failed = "none", NEW r \in Live', ~(r = "app" /\ cfg.frontend = "qt")
      PROVE  Has(todo', Freers(r))
  <2>1. CASE r \in Live /\ (Head(todo) \notin Freers(r) \/ Has(p, Freers(r)))
    <3>1. Has(todo, Freers(r))
      BY <1>2, <2>1 DEF Awaited
    <3> QED
      BY <2>1, <3>1, AllowedSteps, HasBehind
  <2> QED
    BY <1>2, <2>1
<1>3. \A r : Freers(r)' = Freers(r)
  BY SamePlaces
<1> QED
  BY <1>1, <1>2, <1>3 DEF Awaited, Has

\* A step of the program after jalv_open: what has to be shown.
LEMMA FlowKept ==
  ASSUME SessionInv, FlowInv, todo # <<>>, cfg' = cfg, failed' = failed,
         fault' \in {"none", "posted"}, NEW p \in Seq(Steps), todo' = p \o Tail(todo),
         Head(todo) \notin Starters,
         Sound' => Sound /\ Good(Head(todo), p),
         inside' => inside \/ Head(todo) \in Prompts,
         (cfg.mode = "silent" /\ Head(todo) \notin Prompts) => ~Has(p, Prompts),
         p # <<>> => Head(p) \notin Early \union Openers,
         Freed' \subseteq Freed \union Gives(Head(todo)),
         p # <<>> => Freed' \subseteq Freed,
         \A r \in {"app", "ports"} : life'[r] = "live" => Lives(r),
         life'["instance"] = "unset" => life["instance"] = "unset",
         \A r \in Live' : (failed = "none" /\ ~(r = "app" /\ cfg.frontend = "qt")) =>
           \/ r \in Live /\ (Head(todo) \notin Freers(r) \/ Has(p, Freers(r)))
           \/ Has(todo', Freers(r)),
         (failed # "none" /\ cfg.frontend \in {"gtk", "qt"} /\ Head(todo) \in Remains) =>
           ~Has(p, Steps \ Remains)
  PROVE  FlowInv'
<1>1. ClosesOnce'
  BY AllowedSteps, FlowList DEF FlowInv
<1>2. Silent'
  BY SilentKept DEF FlowInv
<1>3. FailsWell'
  BY FailsKept DEF FlowInv
<1>4. Awaited'
  BY AwaitedKept DEF FlowInv
<1>5. KnownMisuse'
  BY DEF KnownMisuse
<1> QED
  BY <1>1, <1>2, <1>3, <1>4, <1>5 DEF FlowInv

\* The ranks of the steps that others put in front.
LEMMA RanksOf ==
  /\ \A s \in {"launch", "start_audio", "set_running", "enter", "window", "first_update",
               "check", "poll", "update", "wait", "ui_check", "ui_update", "ui_idle",
               "gtk_dialog", "gtk_refresh", "quit_loop", "apply_wait"} : Rank(s) = 0
  /\ \A s \in {"gtk_loop", "app_shutdown", "qt_loop", "qt_leave", "loaded"} : Rank(s) = 1
  /\ \A s \in {"stop_audio", "stop_plugin", "stop_worker"} : Rank(s) = 2
  /\ Rank("unbuffer") = 3 /\ Rank("close_client") = 4 /\ Rank("free_plugin") = 5
  /\ Rank("free_process") = 6 /\ Rank("free_world") = 7
  /\ Rank("quit_app") = 8 /\ Rank("free_backend") = 9
  /\ Rank("frontend_close") = IF cfg.frontend = "console" THEN 1 ELSE 8
  /\ \A s \in Openers \union {"frontend_run"} :
       Rank(s) = IF cfg.frontend = "console" THEN 0 ELSE 1
<1>1. \A s \in {"gtk_loop", "app_shutdown", "qt_loop", "qt_leave", "loaded"} : s \in Closers
  BY DEF Closers
<1>2. "frontend_close" \in Closers <=> cfg.frontend = "console"
  BY DEF Closers, Openers
<1>3. \A s \in Openers \union {"frontend_run"} : s \in Closers <=> cfg.frontend # "console"
  BY DEF Closers, Openers
<1>4. \A s \in Steps \ (Openers \union {"frontend_run", "frontend_close", "gtk_loop",
                         "app_shutdown", "qt_loop", "qt_leave", "loaded"}) : s \notin Closers
  BY DEF Closers
<1>5. \A s \in Openers : s \notin {"stop_audio", "stop_plugin", "stop_worker", "unbuffer",
                         "close_client", "free_plugin", "free_process", "free_world",
                         "frontend_close", "quit_app", "free_backend"}
  BY DEF Openers
<1>6. \A s \in {"launch", "start_audio", "set_running", "enter", "window", "first_update",
               "check", "poll", "update", "wait", "ui_check", "ui_update", "ui_idle",
               "gtk_dialog", "gtk_refresh", "quit_loop", "apply_wait", "stop_audio",
               "stop_plugin", "stop_worker", "unbuffer", "close_client", "free_plugin",
               "free_process", "free_world", "quit_app", "free_backend"} : s \notin Closers
  BY DEF Closers, Openers
<1>7. \A s \in Openers \union {"frontend_run"} :
       Rank(s) = IF cfg.frontend = "console" THEN 0 ELSE 1
  BY <1>3, <1>5 DEF Rank
<1>8. Rank("frontend_close") = IF cfg.frontend = "console" THEN 1 ELSE 8
  BY <1>2 DEF Rank
<1>9. \A s \in {"gtk_loop", "app_shutdown", "qt_loop", "qt_leave", "loaded"} : Rank(s) = 1
  BY <1>1 DEF Rank
<1>10. \A s \in {"launch", "start_audio", "set_running", "enter", "window", "first_update",
               "check", "poll", "update", "wait", "ui_check", "ui_update", "ui_idle",
               "gtk_dialog", "gtk_refresh", "quit_loop", "apply_wait"} : Rank(s) = 0
  BY <1>6 DEF Rank
<1>11. \A s \in {"stop_audio", "stop_plugin", "stop_worker"} : Rank(s) = 2
  BY <1>6 DEF Rank
<1>12. /\ Rank("unbuffer") = 3 /\ Rank("close_client") = 4 /\ Rank("free_plugin") = 5
       /\ Rank("free_process") = 6 /\ Rank("free_world") = 7
       /\ Rank("quit_app") = 8 /\ Rank("free_backend") = 9
  BY <1>6 DEF Rank
<1> QED
  BY <1>7, <1>8, <1>9, <1>10, <1>11, <1>12

\* A step may be put in the place of one of its own rank; steps of closing in
\* the place of those from which it begins.
LEMMA CarriedBy ==
  ASSUME NEW h, NEW a,
         \/ Rank(a) = Rank(h) /\ h # "quit_loop"
         \/ Rank(h) = 1 /\ Rank(a) <= 7
         \/ a = "quit_loop" /\ Rank(h) \in {0, 1, 8}
  PROVE  Carried(h, a)
<1>0. Rank(a) \in 0..9 /\ Rank(h) \in 0..9 /\ \A b : Rank(b) \in 0..9
  BY RankKnown
<1>1. Rank("quit_loop") = 0
  BY RanksOf
<1>2. ASSUME NEW b, MayFollow(h, b) PROVE MayFollow(a, b)
  <2> DEFINE x == Rank(a)
             y == Rank(h)
             z == Rank(b)
  <2>1. x \in 0..9 /\ y \in 0..9 /\ z \in 0..9
    BY <1>0
  <2>2. \/ y < z /\ (z >= 8 \/ y >= 2 \/ z = 1)
        \/ y = z /\ z \in {0, 2}
    BY <1>2 DEF MayFollow
  <2>3. \/ x = y
        \/ y = 1 /\ x <= 7
        \/ x = 0 /\ y \in {0, 1, 8}
    BY <1>1
  <2>4. MayFollow(a, b) <=> \/ x < z /\ (z >= 8 \/ x >= 2 \/ z = 1)
                            \/ x = z /\ z \in {0, 2}
    BY DEF MayFollow
  <2> HIDE DEF x, y, z
  <2> QED
    BY <2>1, <2>2, <2>3, <2>4
<1>3. Barred(a) \subseteq Barred(h)
  BY <1>2 DEF Barred
<1>4. Uses(a) \subseteq Uses(h)
  <2>1. CASE a = "quit_loop"
    BY <2>1 DEF Uses
  <2>2. CASE a # "quit_loop" /\ Rank(a) = Rank(h) /\ h # "quit_loop"
    BY <2>2 DEF Uses
  <2>3. CASE a # "quit_loop" /\ Rank(h) = 1 /\ Rank(a) <= 7
    <3>1. h # "quit_loop"
      BY <1>1, <2>3
    <3>2. Uses(h) = Resource
      BY <2>3, <3>1 DEF Uses
    <3>3. Uses(a) \subseteq Resource
      BY DEF Uses, Resource
    <3> QED
      BY <3>2, <3>3
  <2> QED
    BY <2>1, <2>2, <2>3
<1> QED
  BY <1>3, <1>4 DEF Carried

\* What is asked of a step that is put in the place of the step h.
Fitting(h, a) ==
  /\ a \in Steps \ (Early \union Openers)
  /\ (cfg.mode = "silent" /\ h \notin Prompts) => a \notin Prompts
  /\ (failed # "none" /\ cfg.frontend \in {"gtk", "qt"} /\ h \in Remains) => a \in Remains

\* The app of Qt is nobody's to free.
LeftToExit(r) == r = "app" /\ cfg.frontend = "qt"

\* A step that changes nothing but the list.
LEMMA CallFlow ==
  ASSUME SessionInv, FlowInv, todo # <<>>, NEW h, h = Head(todo), h \notin Starters,
         cfg' = cfg, failed' = failed, fault' \in {"none", "posted"}, life' = life,
         inside' => inside \/ h \in Prompts, Sound' => Sound,
         NEW p \in Seq(Steps), todo' = p \o Tail(todo), Sound' => Once(p),
         \A i \in 1..Len(p) : Fitting(h, p[i]) /\ (Sound' => Carried(h, p[i])),
         \A r \in Live : (failed = "none" /\ ~LeftToExit(r)) =>
           h \notin Freers(r) \/ Has(p, Freers(r))
  PROVE  FlowInv'
<1>1. Sound' => Sound /\ Good(Head(todo), p)
  BY DEF Good
<1>2. (cfg.mode = "silent" /\ Head(todo) \notin Prompts) => ~Has(p, Prompts)
  BY DEF Fitting, Has
<1>3. p # <<>> => Head(p) \notin Early \union Openers
  <2>1. ASSUME p # <<>> PROVE Head(p) = p[1] /\ 1 \in 1..Len(p)
    BY <2>1, HeadTailProperties, EmptySeq
  <2> QED
    BY <2>1 DEF Fitting
<1>4. Freed' = Freed /\ Live' = Live
  BY DEF Freed, Live
<1>5. (failed # "none" /\ cfg.frontend \in {"gtk", "qt"} /\ Head(todo) \in Remains) =>
           ~Has(p, Steps \ Remains)
  BY DEF Fitting, Has
<1>6. \A r \in {"app", "ports"} : life'[r] = "live" => Lives(r)
  BY DEF Lives
<1>7. life'["instance"] = "unset" => life["instance"] = "unset"
  OBVIOUS
<1>8. \A r \in Live' : (failed = "none" /\ ~(r = "app" /\ cfg.frontend = "qt")) =>
           \/ r \in Live /\ (Head(todo) \notin Freers(r) \/ Has(p, Freers(r)))
           \/ Has(todo', Freers(r))
  BY <1>4 DEF LeftToExit
<1>9. inside' => inside \/ Head(todo) \in Prompts
  OBVIOUS
<1>10. Freed' \subseteq Freed \union Gives(Head(todo)) /\ (p # <<>> => Freed' \subseteq Freed)
  BY <1>4
<1>11. Head(todo) \notin Starters
  OBVIOUS
<1> QED
  BY <1>1, <1>2, <1>3, <1>5, <1>6, <1>7, <1>8, <1>9, <1>10, <1>11, FlowKept

-----------------------------------------------------------------------------
(* Steps that go on with one or two others                                 *)

\* One step, or two, in the place of another.
LEMMA OneStep ==
  ASSUME NEW x \in Steps, NEW p, p = <<x>>
  PROVE  /\ p \in Seq(Steps) /\ Len(p) = 1 /\ p[1] = x /\ p # <<>> /\ Head(p) = x /\ Once(p)
         /\ \A E : Has(p, E) <=> x \in E
<1>1. p \in Seq(Steps) /\ Len(p) = 1 /\ p[1] = x /\ p # <<>> /\ Head(p) = x
  OBVIOUS
<1>2. Once(p)
  BY <1>1 DEF Once
<1>3. \A E : Has(p, E) <=> x \in E
  BY <1>1 DEF Has
<1> QED
  BY <1>1, <1>2, <1>3

\* The same of two.
LEMMA TwoSteps ==
  ASSUME NEW x \in Steps, NEW y \in Steps, NEW p, p = <<x, y>>
  PROVE  /\ p \in Seq(Steps) /\ Len(p) = 2 /\ p[1] = x /\ p[2] = y /\ p # <<>> /\ Head(p) = x
         /\ MayFollow(x, y) => Once(p)
         /\ \A E : Has(p, E) <=> x \in E \/ y \in E
<1>1. /\ p \in Seq(Steps) /\ Len(p) = 2 /\ p[1] = x /\ p[2] = y /\ p # <<>>
      /\ Head(p) = x
  OBVIOUS
<1>2. MayFollow(x, y) => Once(p)
  BY <1>1 DEF Once
<1>3. \A E : Has(p, E) <=> x \in E \/ y \in E
  BY <1>1 DEF Has
<1> QED
  BY <1>1, <1>2, <1>3

\* A step that only goes on with what is left.
LEMMA PopFlow ==
  ASSUME SessionInv, FlowInv, todo # <<>>, NEW h, h = Head(todo), h \notin Starters,
         cfg' = cfg, failed' = failed, fault' \in {"none", "posted"},
         life' = life, inside' = inside,
         todo' = <<>> \o Tail(todo),
         \A r \in Live : (failed = "none" /\ ~LeftToExit(r)) => h \notin Freers(r)
  PROVE  FlowInv'
<1>1. PICK p : p = <<>>
  OBVIOUS
<1>2. p \in Seq(Steps) /\ Len(p) = 0
  BY <1>1, EmptySeq
<1>3. Once(p) /\ \A i \in 1..Len(p) : Fitting(h, p[i]) /\ (Sound' => Carried(h, p[i]))
  BY <1>2 DEF Once
<1>4. Sound' => Sound
  BY DEF Sound
<1>5. todo' = p \o Tail(todo)
  BY <1>1
<1> QED
  BY <1>2, <1>3, <1>4, <1>5, CallFlow

\* A step that goes on with another.
LEMMA OneFlow ==
  ASSUME SessionInv, FlowInv, todo # <<>>, NEW h, h = Head(todo), h \notin Starters,
         cfg' = cfg, failed' = failed, fault' = "none", life' = life, inside' = inside,
         NEW x, Fitting(h, x), Carried(h, x), todo' = <<x>> \o Tail(todo),
         \A r \in Live : (failed = "none" /\ ~LeftToExit(r) /\ h \in Freers(r)) => x \in Freers(r)
  PROVE  FlowInv'
<1>0. x \in Steps
  BY DEF Fitting
<1>1. PICK p : p = <<x>>
  OBVIOUS
<1>2. /\ p \in Seq(Steps) /\ Len(p) = 1 /\ p[1] = x /\ Once(p)
      /\ \A E : Has(p, E) <=> x \in E
  BY <1>0, <1>1, OneStep
<1>3. \A i \in 1..Len(p) : Fitting(h, p[i]) /\ (Sound' => Carried(h, p[i]))
  BY <1>2
<1>4. Sound' => Sound
  BY DEF Sound
<1>5. todo' = p \o Tail(todo)
  BY <1>1
<1>6. \A r \in Live : (failed = "none" /\ ~LeftToExit(r)) =>
           h \notin Freers(r) \/ Has(p, Freers(r))
  BY <1>2
<1> QED
  BY <1>2, <1>3, <1>4, <1>5, <1>6, CallFlow

\* Or with two.
LEMMA TwoFlow ==
  ASSUME SessionInv, FlowInv, todo # <<>>, NEW h, h = Head(todo), h \notin Starters,
         cfg' = cfg, failed' = failed, fault' = "none", life' = life, inside' = inside,
         NEW x, NEW y, Fitting(h, x), Fitting(h, y), Carried(h, x), Carried(h, y), MayFollow(x, y),
         todo' = <<x, y>> \o Tail(todo),
         \A r \in Live : (failed = "none" /\ ~LeftToExit(r) /\ h \in Freers(r)) => y \in Freers(r)
  PROVE  FlowInv'
<1>0. x \in Steps /\ y \in Steps
  BY DEF Fitting
<1>1. PICK p : p = <<x, y>>
  OBVIOUS
<1>2. /\ p \in Seq(Steps) /\ Len(p) = 2 /\ p[1] = x /\ p[2] = y /\ Once(p)
      /\ \A E : Has(p, E) <=> x \in E \/ y \in E
  BY <1>0, <1>1, TwoSteps
<1>3. \A i \in 1..Len(p) : Fitting(h, p[i]) /\ (Sound' => Carried(h, p[i]))
  BY <1>2
<1>4. Sound' => Sound
  BY DEF Sound
<1>5. todo' = p \o Tail(todo)
  BY <1>1
<1>6. \A r \in Live : (failed = "none" /\ ~LeftToExit(r)) =>
           h \notin Freers(r) \/ Has(p, Freers(r))
  BY <1>2
<1> QED
  BY <1>2, <1>3, <1>4, <1>5, <1>6, CallFlow

\* The steps that are no start and that nothing is freed by or through.
Plain == {"launch", "start_audio", "set_running", "enter", "window", "first_update",
          "check", "poll", "update", "wait", "ui_check", "ui_update", "ui_idle",
          "gtk_dialog", "gtk_refresh", "quit_loop", "apply_wait"}

Loopers == {"gtk_loop", "app_shutdown", "qt_loop", "qt_leave", "loaded"}

\* The plain steps free nothing.
LEMMA PlainSteps ==
  ASSUME NEW h \in Plain
  PROVE  /\ h \in Steps \ (Early \union Openers) /\ h \notin Starters /\ Rank(h) = 0
         /\ \A r : h \notin Freers(r)
         /\ h # "quit_loop" => h \notin Remains
<1>1. h \in Steps /\ h \notin Early /\ h \notin Openers /\ h \notin Starters
  BY DEF Plain, Steps, Early, Openers, Starters
<1>2. Rank(h) = 0
  BY RanksOf DEF Plain
<1>3. h \notin Closers
  BY DEF Plain, Closers, Openers
<1>4. \A r : h \notin Freers(r)
  <2> TAKE r
  <2>1. h \notin Gives(h) /\ Gives(h) = {}
    BY DEF Plain, Gives
  <2> QED
    BY <1>1, <1>3, <2>1 DEF Freers, Plain
<1>5. h # "quit_loop" => h \notin Remains
  BY DEF Plain, Remains
<1> QED
  BY <1>1, <1>2, <1>4, <1>5

\* The loops lead to the freeing of all but the app and the backend.
LEMMA LooperSteps ==
  ASSUME NEW h \in Loopers
  PROVE  /\ h \in Steps \ (Early \union Openers) /\ h \notin Starters /\ Rank(h) = 1
         /\ \A r : h \in Freers(r) <=> r \notin {"app", "backend"}
<1>1. h \in Steps /\ h \notin Early /\ h \notin Openers /\ h \notin Starters
  BY DEF Loopers, Steps, Early, Openers, Starters
<1>2. Rank(h) = 1
  BY RanksOf DEF Loopers
<1>3. h \in Closers
  BY DEF Loopers, Closers
<1>4. \A r : h \in Freers(r) <=> r \notin {"app", "backend"}
  BY <1>3 DEF Freers, Loopers
<1> QED
  BY <1>1, <1>2, <1>4

\* A plain step goes on with what is left.
LEMMA PlainPop ==
  ASSUME SessionInv, FlowInv, todo # <<>>, Head(todo) \in Plain,
         cfg' = cfg, failed' = failed, fault' \in {"none", "posted"},
         life' = life, inside' = inside,
         todo' = <<>> \o Tail(todo)
  PROVE  FlowInv'
<1>1. PICK h : h = Head(todo)
  OBVIOUS
<1>2. h \notin Starters /\ \A r : h \notin Freers(r)
  BY <1>1, PlainSteps
<1> QED
  BY <1>1, <1>2, PopFlow

\* Or with another plain step.
LEMMA PlainOne ==
  ASSUME SessionInv, FlowInv, todo # <<>>, NEW h \in Plain, h = Head(todo), h # "quit_loop",
         cfg' = cfg, failed' = failed, fault' = "none", life' = life, inside' = inside,
         NEW x \in Plain, todo' = <<x>> \o Tail(todo),
         (cfg.mode = "silent" /\ h \notin Prompts) => x \notin Prompts
  PROVE  FlowInv'
<1>1. h \notin Starters /\ Rank(h) = 0 /\ h \notin Remains /\ \A r : h \notin Freers(r)
  BY PlainSteps
<1>2. x \in Steps \ (Early \union Openers) /\ Rank(x) = 0
  BY PlainSteps
<1>3. Carried(h, x)
  BY <1>1, <1>2, CarriedBy
<1>4. Fitting(h, x)
  BY <1>1, <1>2 DEF Fitting
<1> QED
  BY <1>1, <1>3, <1>4, OneFlow

\* A loop goes on with a loop.
LEMMA LooperOne ==
  ASSUME SessionInv, FlowInv, todo # <<>>, NEW h \in Loopers, h = Head(todo),
         cfg' = cfg, failed' = failed, fault' = "none", life' = life, inside' = inside,
         NEW x \in Loopers, todo' = <<x>> \o Tail(todo),
         h \in Prompts, h \notin Remains
  PROVE  FlowInv'
<1>1. h \notin Starters /\ Rank(h) = 1 /\ \A r : h \in Freers(r) <=> r \notin {"app", "backend"}
  BY LooperSteps
<1>2. /\ x \in Steps \ (Early \union Openers) /\ Rank(x) = 1
      /\ \A r : x \in Freers(r) <=> r \notin {"app", "backend"}
  BY LooperSteps
<1>3. h # "quit_loop"
  BY DEF Loopers
<1>4. Carried(h, x)
  BY <1>1, <1>2, <1>3, CarriedBy
<1>5. Fitting(h, x)
  BY <1>2 DEF Fitting
<1>6. \A r \in Live : (failed = "none" /\ ~LeftToExit(r) /\ h \in Freers(r)) => x \in Freers(r)
  BY <1>1, <1>2
<1> QED
  BY <1>1, <1>4, <1>5, <1>6, OneFlow

-----------------------------------------------------------------------------
(* Closing                                                                 *)

ClosingSteps == {"stop_audio", "stop_plugin", "stop_worker", "unbuffer", "close_client",
                 "free_plugin", "free_process", "free_world"}

\* The steps of closing may be put in front wherever it begins.
LEMMA ClosingFits ==
  ASSUME NEW a \in ClosingSteps
  PROVE  /\ a \in Steps \ (Early \union Openers) /\ a \notin Prompts /\ a \notin Remains
         /\ a \notin Starters /\ Rank(a) \in 2..7
<1>1. /\ a \in Steps \ (Early \union Openers) /\ a \notin Prompts /\ a \notin Remains
      /\ a \notin Starters
  BY DEF ClosingSteps, Steps, Early, Openers, Prompts, Remains, Starters
<1>2. Rank(a) \in 2..7
  BY RanksOf DEF ClosingSteps
<1> QED
  BY <1>1, <1>2

\* jalv_close frees everything once, but for the app and the backend.
LEMMA CloseList ==
  /\ Close \in Seq(Steps) /\ Once(Close) /\ Close # <<>>
  /\ \A i \in 1..Len(Close) : Close[i] \in ClosingSteps
  /\ \A r \in Resource \ {"app", "backend"} : Has(Close, Freers(r))
<1> DEFINE c == Close
<1>1. /\ c \in Seq(Steps) /\ Len(c) = 8
      /\ c[1] = "stop_audio" /\ c[2] = "stop_plugin" /\ c[3] = "stop_worker"
      /\ c[4] = "unbuffer" /\ c[5] = "close_client" /\ c[6] = "free_plugin"
      /\ c[7] = "free_process" /\ c[8] = "free_world"
  BY DEF Close, Deactivate, Steps
<1> HIDE DEF c
<1>2. \A i \in 1..8 : c[i] \in ClosingSteps
  BY <1>1 DEF ClosingSteps
<1>3. /\ Rank(c[1]) = 2 /\ Rank(c[2]) = 2 /\ Rank(c[3]) = 2 /\ Rank(c[4]) = 3
      /\ Rank(c[5]) = 4 /\ Rank(c[6]) = 5 /\ Rank(c[7]) = 6 /\ Rank(c[8]) = 7
  BY <1>1, RanksOf
<1>4. Once(c)
  <2> DEFINE f(i) == Rank(c[i])
  <2>1. /\ f(1) = 2 /\ f(2) = 2 /\ f(3) = 2 /\ f(4) = 3 /\ f(5) = 4 /\ f(6) = 5
        /\ f(7) = 6 /\ f(8) = 7
    BY <1>3
  <2>2. \A i, j : MayFollow(c[i], c[j]) <=>
          \/ f(i) < f(j) /\ (f(j) >= 8 \/ f(i) >= 2 \/ f(j) = 1)
          \/ f(i) = f(j) /\ f(j) \in {0, 2}
    BY DEF MayFollow
  <2> HIDE DEF f
  <2>3. ASSUME NEW i \in 1..8, NEW j \in 1..8, i < j
        PROVE  MayFollow(c[i], c[j])
    <3>1. f(i) >= 2 /\ f(i) <= f(j) /\ (f(i) = f(j) => f(i) = 2) /\ f(i) \in Nat /\ f(j) \in Nat
      BY <2>1, <2>3
    <3> QED
      BY <2>2, <3>1
  <2> QED
    BY <1>1, <2>3 DEF Once
<1>5. ASSUME NEW r \in Resource \ {"app", "backend"} PROVE Has(c, Freers(r))
  <2>1. /\ r = "buffers" => "unbuffer" \in Freers(r)
        /\ r = "client" => "close_client" \in Freers(r)
        /\ r \in {"ui", "instance"} => "free_plugin" \in Freers(r)
        /\ r \in {"ports", "workers", "rings", "controls"} => "free_process" \in Freers(r)
        /\ r \in {"world", "done"} => "free_world" \in Freers(r)
    BY DEF Freers, Gives, Steps
  <2>2. r \in {"buffers", "client", "ui", "instance", "ports", "workers", "rings",
               "controls", "world", "done"}
    BY <1>5 DEF Resource
  <2>3. \E i \in 1..8 : c[i] \in Freers(r)
    <3>1. {4, 5, 6, 7, 8} \subseteq 1..8
      OBVIOUS
    <3> QED
      BY <1>1, <2>1, <2>2, <3>1
  <2> QED
    BY <1>1, <2>3 DEF Has
<1>6. c # <<>>
  BY <1>1, EmptySeq
<1> QED
  BY <1>1, <1>2, <1>4, <1>5, <1>6 DEF c

\* And so does what closes a running program.
LEMMA ClosingList ==
  ASSUME NEW p, p = Deactivate \o Close
  PROVE  /\ p \in Seq(Steps) /\ Once(p) /\ p # <<>>
         /\ \A i \in 1..Len(p) : p[i] \in ClosingSteps
         /\ \A r \in Resource \ {"app", "backend"} : Has(p, Freers(r))
<1> DEFINE d == Deactivate
           c == Close
<1>1. /\ d \in Seq(Steps) /\ Len(d) = 3 /\ d[1] = "stop_audio" /\ d[2] = "stop_plugin"
      /\ d[3] = "stop_worker"
  BY DEF Deactivate, Steps
<1>2. /\ c \in Seq(Steps) /\ Once(c) /\ c # <<>>
      /\ \A i \in 1..Len(c) : c[i] \in ClosingSteps
      /\ \A r \in Resource \ {"app", "backend"} : Has(c, Freers(r))
  BY CloseList
<1>3. p = d \o c
  OBVIOUS
<1> HIDE DEF d, c
<1>4. \A i \in 1..3 : d[i] \in ClosingSteps /\ Rank(d[i]) = 2
  BY <1>1, RanksOf DEF ClosingSteps
<1>5. Once(d)
  BY <1>1, <1>4 DEF Once, MayFollow
<1>6. ASSUME NEW i \in 1..Len(d) PROVE ~Has(c, Barred(d[i]))
  <2> SUFFICES ASSUME NEW j \in 1..Len(c) PROVE MayFollow(d[i], c[j])
    BY DEF Has, Barred
  <2>1. Rank(c[j]) \in 2..7 /\ Rank(d[i]) = 2
    BY <1>1, <1>2, <1>4, ClosingFits
  <2> QED
    BY <2>1 DEF MayFollow
<1>7. /\ d \o c \in Seq(Steps) /\ Once(d \o c)
      /\ \A E : Has(d \o c, E) <=> Has(d, E) \/ Has(c, E)
  BY <1>1, <1>2, <1>5, <1>6, JoinOnce
<1>8. ~Has(p, Steps \ ClosingSteps)
  BY <1>1, <1>2, <1>3, <1>4, <1>7 DEF Has
<1>9. \A i \in 1..Len(p) : p[i] \in ClosingSteps
  BY <1>3, <1>7, <1>8 DEF Has
<1>10. p # <<>>
  <2>1. PICK i \in 1..Len(c) : c[i] \in ClosingSteps
    <3>1. Len(c) \in Nat /\ Len(c) # 0
      BY <1>2, EmptySeq
    <3>2. 1 \in 1..Len(c)
      BY <3>1
    <3> QED
      BY <1>2, <3>2
  <2>2. Has(p, ClosingSteps)
    BY <1>3, <1>7, <2>1 DEF Has
  <2>3. Len(p) # 0
    BY <2>2 DEF Has
  <2> QED
    BY <2>3, EmptySeq
<1> QED
  BY <1>2, <1>3, <1>7, <1>9, <1>10

\* A step that closes everything.
LEMMA ClosingFlow ==
  ASSUME SessionInv, FlowInv, todo # <<>>, NEW h, h = Head(todo), h \notin Starters,
         Rank(h) = 1,
         cfg' = cfg, failed' = failed, fault' = "none", life' = life, inside' = inside,
         NEW p, p = Close \/ p = Deactivate \o Close, todo' = p \o Tail(todo),
         h \notin {"quit_app", "free_backend"},
         h = "frontend_close" => cfg.frontend # "qt" /\ cfg.frontend # "gtk",
         h \in Remains => failed = "none" \/ cfg.frontend \notin {"gtk", "qt"}
  PROVE  FlowInv'
<1>1. /\ p \in Seq(Steps) /\ Once(p)
      /\ \A i \in 1..Len(p) : p[i] \in ClosingSteps
      /\ \A r \in Resource \ {"app", "backend"} : Has(p, Freers(r))
  BY CloseList, ClosingList
<1>2. \A i \in 1..Len(p) : Fitting(h, p[i]) /\ (Sound' => Carried(h, p[i]))
  <2> SUFFICES ASSUME NEW i \in 1..Len(p) PROVE Fitting(h, p[i]) /\ Carried(h, p[i])
    OBVIOUS
  <2>1. Rank(p[i]) \in 2..7
    BY <1>1, ClosingFits
  <2>2. Carried(h, p[i])
    BY <2>1, CarriedBy
  <2>3. p[i] \in Steps \ (Early \union Openers) /\ p[i] \notin Prompts
    BY <1>1, ClosingFits
  <2> QED
    BY <2>2, <2>3 DEF Fitting
<1>3. ASSUME NEW r \in Live, failed = "none", ~LeftToExit(r)
      PROVE  h \notin Freers(r) \/ Has(p, Freers(r))
  <2>1. CASE r \notin {"app", "backend"}
    <3>1. r \in Resource
      BY DEF Live
    <3> QED
      BY <1>1, <2>1, <3>1
  <2>2. CASE r = "backend"
    BY <2>2 DEF Freers
  <2>3. CASE r = "app"
    <3>1. cfg.frontend = "gtk"
      BY <1>3, <2>3 DEF Live, Lives, FlowInv, Awaited, LeftToExit
    <3> QED
      BY <2>3, <3>1 DEF Freers
  <2> QED
    BY <2>1, <2>2, <2>3
<1>4. Sound' => Sound
  BY DEF Sound
<1> QED
  BY <1>1, <1>2, <1>3, <1>4, CallFlow

-----------------------------------------------------------------------------
(* jalv_update and the loops                                               *)

\* What a loop or a prompt may go on with when jalv_update has closed.
GoesOn(h, q) ==
  /\ q \in Seq(Steps) /\ Once(q)
  /\ \A i \in 1..Len(q) : Fitting(h, q[i]) /\ Carried(h, q[i]) /\ Rank(q[i]) \in {0, 1}
  /\ \A r \in Live : (failed = "none" /\ ~LeftToExit(r)) =>
       h \notin Freers(r) \/ Has(q, Freers(r))

\* A plain step goes on with a plain one,
LEMMA GoesOnPlain ==
  ASSUME NEW h \in Plain \cap Prompts, NEW x \in Plain, NEW q, q = <<>> \/ q = <<x>>
  PROVE  GoesOn(h, q)
<1>1. h \notin Remains /\ Rank(h) = 0 /\ h # "quit_loop" /\ \A r : h \notin Freers(r)
  <2>1. h # "quit_loop"
    BY DEF Prompts
  <2> QED
    BY <2>1, PlainSteps
<1>2. x \in Steps \ (Early \union Openers) /\ Rank(x) = 0
  BY PlainSteps
<1>3. Carried(h, x) /\ Fitting(h, x)
  BY <1>1, <1>2, CarriedBy DEF Fitting
<1>4. CASE q = <<>>
  <2>1. q \in Seq(Steps) /\ Len(q) = 0
    BY <1>4, EmptySeq
  <2> QED
    BY <1>1, <2>1 DEF GoesOn, Once
<1>5. CASE q = <<x>>
  <2>1. q \in Seq(Steps) /\ Len(q) = 1 /\ q[1] = x /\ Once(q)
    BY <1>2, <1>5, OneStep
  <2> QED
    BY <1>1, <1>2, <1>3, <2>1 DEF GoesOn
<1> QED
  BY <1>4, <1>5

\* and a loop with a loop.
LEMMA GoesOnLooper ==
  ASSUME NEW h \in Loopers \cap Prompts, NEW x \in Loopers, NEW q, q = <<x>>
  PROVE  GoesOn(h, q)
<1>1. /\ h \notin Remains /\ Rank(h) = 1 /\ h # "quit_loop"
      /\ \A r : h \in Freers(r) <=> r \notin {"app", "backend"}
  <2>1. h # "quit_loop" /\ h \notin Remains
    BY DEF Prompts, Loopers, Remains
  <2> QED
    BY <2>1, LooperSteps
<1>2. /\ x \in Steps \ (Early \union Openers) /\ Rank(x) = 1
      /\ \A r : x \in Freers(r) <=> r \notin {"app", "backend"}
  BY LooperSteps
<1>3. Carried(h, x) /\ Fitting(h, x)
  BY <1>1, <1>2, CarriedBy DEF Fitting
<1>5. /\ q \in Seq(Steps) /\ Len(q) = 1 /\ q[1] = x /\ Once(q)
      /\ \A E : Has(q, E) <=> x \in E
  BY <1>2, OneStep
<1> QED
  BY <1>1, <1>2, <1>3, <1>5 DEF GoesOn

\* What jalv_update puts in front.
LEMMA FrontendCloseFits ==
  ASSUME KindsOK, NEW h, h \notin Remains, NEW f, f = FrontendClose
  PROVE  /\ f \in Seq(Steps)
         /\ \A i \in 1..Len(f) : Fitting(h, f[i])
         /\ cfg.frontend \in {"qt", "internal"} =>
              f = <<"quit_loop">>
<1>1. CASE cfg.frontend = "console"
  <2>1. f = Deactivate \o Close
    BY <1>1 DEF FrontendClose
  <2>2. f \in Seq(Steps) /\ \A i \in 1..Len(f) : f[i] \in ClosingSteps
    BY <2>1, ClosingList
  <2>3. \A i \in 1..Len(f) : Fitting(h, f[i])
    BY <2>2, ClosingFits DEF Fitting
  <2> QED
    BY <1>1, <2>2, <2>3
<1>2. CASE cfg.frontend = "gtk"
  <2>1. f = <<"quit_app">> /\ "quit_app" \in Steps \ (Early \union Openers)
        /\ "quit_app" \notin Prompts
    BY <1>2 DEF FrontendClose, Steps, Early, Openers, Prompts
  <2>2. f \in Seq(Steps) /\ Len(f) = 1 /\ f[1] = "quit_app"
    BY <2>1
  <2> QED
    BY <1>2, <2>1, <2>2 DEF Fitting
<1>3. CASE cfg.frontend \in {"qt", "internal"}
  <2>1. f = <<"quit_loop">> /\ "quit_loop" \in Steps \ (Early \union Openers)
        /\ "quit_loop" \notin Prompts
    BY <1>3 DEF FrontendClose, Steps, Early, Openers, Prompts
  <2>2. f \in Seq(Steps) /\ Len(f) = 1 /\ f[1] = "quit_loop"
    BY <2>1
  <2> QED
    BY <1>3, <2>1, <2>2 DEF Fitting
<1> QED
  BY <1>1, <1>2, <1>3, FrontendKnown

\* jalv_update, wherever it is called: when it takes the post of `done`, it
\* closes from within, after which only Qt is left with a sound list.
LEMMA UpdateFlow ==
  ASSUME SessionInv, FlowInv, NEW step, step \in Prompts, step \notin Starters,
         step \notin Remains, NEW closed, NEW next,
         Update(step, closed, next), GoesOn(step, closed), GoesOn(step, next)
  PROVE  FlowInv'
<1>0. /\ todo # <<>> /\ step = Head(todo) /\ cfg' = cfg /\ failed' = failed
      /\ fault' = "none" /\ life' = life
      /\ \/ inside' = TRUE /\ todo' = (FrontendClose \o closed) \o Tail(todo)
         \/ inside' = inside /\ todo' = next \o Tail(todo)
  BY DEF Update, At, Then, world
<1>1. CASE inside' = inside /\ todo' = next \o Tail(todo)
  <2>1. /\ next \in Seq(Steps) /\ Once(next)
        /\ \A i \in 1..Len(next) : Fitting(step, next[i]) /\ (Sound' => Carried(step, next[i]))
        /\ \A r \in Live : (failed = "none" /\ ~LeftToExit(r)) =>
             step \notin Freers(r) \/ Has(next, Freers(r))
    BY DEF GoesOn
  <2>2. Sound' => Sound
    BY <1>0, <1>1 DEF Sound
  <2> QED
    BY <1>0, <1>1, <2>1, <2>2, CallFlow
<1>2. CASE inside' = TRUE /\ todo' = (FrontendClose \o closed) \o Tail(todo)
  <2>0. PICK f : f = FrontendClose
    OBVIOUS
  <2>1. /\ f \in Seq(Steps)
        /\ \A i \in 1..Len(f) : Fitting(step, f[i])
        /\ cfg.frontend \in {"qt", "internal"} => f = <<"quit_loop">>
    BY <2>0, FrontendCloseFits DEF SessionInv
  <2>2. /\ closed \in Seq(Steps) /\ Once(closed)
        /\ \A i \in 1..Len(closed) :
             Fitting(step, closed[i]) /\ Carried(step, closed[i]) /\ Rank(closed[i]) \in {0, 1}
        /\ \A r \in Live : (failed = "none" /\ ~LeftToExit(r)) =>
             step \notin Freers(r) \/ Has(closed, Freers(r))
    BY DEF GoesOn
  <2>3. PICK p : p = f \o closed
    OBVIOUS
  <2>4. /\ p \in Seq(Steps) /\ Len(p) = Len(f) + Len(closed)
        /\ Len(f) \in Nat /\ Len(closed) \in Nat
        /\ \A i \in 1..(Len(f) + Len(closed)) :
             p[i] = IF i <= Len(f) THEN f[i] ELSE closed[i - Len(f)]
    BY <2>1, <2>2, <2>3, ConcatProperties
  <2>5. \A i \in 1..Len(p) :
          \/ \E j \in 1..Len(f) : p[i] = f[j]
          \/ \E j \in 1..Len(closed) : p[i] = closed[j]
    <3> TAKE i \in 1..Len(p)
    <3>1. CASE i <= Len(f)
      BY <2>4, <3>1
    <3>2. CASE i > Len(f)
      <4>1. i - Len(f) \in 1..Len(closed) /\ p[i] = closed[i - Len(f)]
        BY <2>4, <3>2
      <4> QED
        BY <4>1
    <3> QED
      BY <2>4, <3>1, <3>2
  <2>6. ASSUME Sound'
        PROVE  Sound /\ Once(p) /\ \A i \in 1..Len(p) : Carried(step, p[i])
    <3>1. cfg.frontend \in {"qt", "internal"}
      BY <1>0, <1>2, <2>6 DEF Sound
    <3>2. f = <<"quit_loop">> /\ "quit_loop" \in Steps
      BY <2>1, <3>1 DEF Steps
    <3>3. f \in Seq(Steps) /\ Len(f) = 1 /\ f[1] = "quit_loop" /\ Once(f)
      BY <3>2, OneStep
    <3>4. Rank("quit_loop") = 0
      BY RanksOf
    <3>5. Sound
      BY <3>1 DEF Sound
    <3>6. \A i \in 1..Len(f) : ~Has(closed, Barred(f[i]))
      <4> SUFFICES ASSUME NEW j \in 1..Len(closed) PROVE MayFollow("quit_loop", closed[j])
        BY <3>3 DEF Has, Barred
      <4> QED
        BY <2>2, <3>4 DEF MayFollow
    <3>7. Once(f \o closed)
      BY <2>2, <3>3, <3>6, JoinOnce
    <3>8. Rank(step) \in {0, 1}
      <4>1. step \in Plain \union Loopers
        BY DEF Prompts, Plain, Loopers
      <4> QED
        BY <4>1, PlainSteps, LooperSteps
    <3>9. Carried(step, "quit_loop")
      BY <3>8, CarriedBy
    <3> QED
      BY <2>2, <2>3, <2>5, <3>3, <3>5, <3>7, <3>9
  <2>7. \A i \in 1..Len(p) : Fitting(step, p[i]) /\ (Sound' => Carried(step, p[i]))
    BY <2>1, <2>2, <2>5, <2>6
  <2>8. \A r \in Live : (failed = "none" /\ ~LeftToExit(r)) =>
          step \notin Freers(r) \/ Has(p, Freers(r))
    <3> SUFFICES ASSUME NEW E, Has(closed, E) PROVE Has(p, E)
      BY <2>2
    <3>1. PICK j \in 1..Len(closed) : closed[j] \in E
      BY DEF Has
    <3>2. Len(f) + j \in 1..Len(p) /\ p[Len(f) + j] = closed[j]
      BY <2>4
    <3> QED
      BY <3>1, <3>2 DEF Has
  <2>9. todo' = p \o Tail(todo)
    BY <1>2, <2>0, <2>3
  <2>10. Sound' => Sound /\ Once(p)
    BY <2>6
  <2>11. inside' => inside \/ step \in Prompts
    OBVIOUS
  <2> QED
    BY <1>0, <2>4, <2>7, <2>8, <2>9, <2>10, <2>11, CallFlow
<1> QED
  BY <1>0, <1>1, <1>2

\* The five places that call jalv_update
LEMMA UpdatesFlow ==
  ASSUME SessionInv, FlowInv, FirstUpdate \/ ConsoleUpdate \/ UiUpdate \/ GtkTimer \/ QtTimer
  PROVE  FlowInv'
<1>1. /\ {"first_update", "update", "ui_update", "gtk_dialog"} \subseteq Plain \cap Prompts
      /\ {"check", "ui_idle", "gtk_dialog"} \subseteq Plain
      /\ {"gtk_loop", "qt_loop"} \subseteq Loopers \cap Prompts
      /\ {"gtk_loop", "qt_loop", "qt_leave"} \subseteq Loopers
  BY DEF Plain, Prompts, Loopers
<1>2. \A s \in {"first_update", "update", "ui_update", "gtk_dialog", "gtk_loop", "qt_loop"} :
        s \in Prompts /\ s \notin Starters /\ s \notin Remains
  BY DEF Prompts, Starters, Openers, Remains
<1>3. CASE FirstUpdate
  <2>1. GoesOn("first_update", <<>>) /\ GoesOn("first_update", <<"check">>)
    BY <1>1, GoesOnPlain
  <2> QED
    BY <1>2, <1>3, <2>1, UpdateFlow DEF FirstUpdate
<1>4. CASE ConsoleUpdate
  <2>1. GoesOn("update", <<"check">>)
    BY <1>1, GoesOnPlain
  <2> QED
    BY <1>2, <1>4, <2>1, UpdateFlow DEF ConsoleUpdate
<1>5. CASE UiUpdate
  <2>1. GoesOn("ui_update", <<"ui_idle">>)
    BY <1>1, GoesOnPlain
  <2> QED
    BY <1>2, <1>5, <2>1, UpdateFlow DEF UiUpdate
<1>6. CASE GtkTimer
  <2>1. GoesOn("gtk_loop", <<"gtk_loop">>)
    BY <1>1, GoesOnLooper
  <2>2. GoesOn("gtk_dialog", <<"gtk_dialog">>)
    BY <1>1, GoesOnPlain
  <2> QED
    BY <1>2, <1>6, <2>1, <2>2, UpdateFlow DEF GtkTimer
<1>7. CASE QtTimer
  <2>1. GoesOn("qt_loop", <<"qt_loop">>) /\ GoesOn("qt_loop", <<"qt_leave">>)
    BY <1>1, GoesOnLooper
  <2> QED
    BY <1>2, <1>7, <2>1, UpdateFlow DEF QtTimer
<1> QED
  BY <1>3, <1>4, <1>5, <1>6, <1>7

\* The other steps of the loops
LEMMA LoopsFlow ==
  ASSUME SessionInv, FlowInv,
         \/ CheckDone \/ Poll \/ Wait \/ UiCheck \/ UiIdle \/ CloseWindow
         \/ OpenDialog \/ CloseDialog \/ RefreshWindow \/ QuitLoop \/ ApplyState
  PROVE  FlowInv'
<1> DEFINE Same == /\ todo # <<>> /\ cfg' = cfg /\ failed' = failed /\ fault' = "none"
                   /\ life' = life /\ inside' = inside
<1>1. Same
  BY DEF CheckDone, Poll, Wait, UiCheck, UiIdle, CloseWindow, OpenDialog, CloseDialog,
         RefreshWindow, QuitLoop, ApplyState, At, world, story
<1>2. CASE Head(todo) \in Plain /\ todo' = <<>> \o Tail(todo)
  BY <1>1, <1>2, PlainPop
<1>3. ASSUME NEW h \in Plain, h = Head(todo), NEW x \in Plain, todo' = <<x>> \o Tail(todo),
             h \in Prompts
      PROVE  FlowInv'
  <2>1. h # "quit_loop"
    BY <1>3 DEF Prompts
  <2> QED
    BY <1>1, <1>3, <2>1, PlainOne
<1>4. ASSUME NEW h \in Loopers, h = Head(todo), NEW x \in Loopers, todo' = <<x>> \o Tail(todo),
             h \in Prompts
      PROVE  FlowInv'
  <2>1. h \notin Remains
    BY <1>4 DEF Prompts, Remains
  <2> QED
    BY <1>1, <1>4, <2>1, LooperOne
<1>5. /\ {"check", "poll", "wait", "ui_check", "ui_idle", "gtk_dialog", "gtk_refresh",
          "quit_loop", "apply_wait", "update", "ui_update"} \subseteq Plain
      /\ {"check", "poll", "ui_check", "ui_idle", "gtk_dialog", "gtk_loop", "qt_loop"}
           \subseteq Prompts
      /\ {"gtk_loop", "qt_loop", "app_shutdown", "qt_leave"} \subseteq Loopers
  BY DEF Plain, Prompts, Loopers
<1>6. CASE CheckDone \/ Poll \/ Wait \/ UiCheck \/ UiIdle
  BY <1>2, <1>3, <1>5, <1>6 DEF CheckDone, Poll, Wait, UiCheck, UiIdle, At, Then
<1>7. CASE CloseWindow
  BY <1>4, <1>5, <1>7 DEF CloseWindow, At, Then
<1>8. CASE CloseDialog \/ RefreshWindow \/ QuitLoop \/ ApplyState
  <2>1. CASE todo' = <<>> \o Tail(todo)
    BY <1>2, <1>5, <1>8, <2>1 DEF CloseDialog, RefreshWindow, QuitLoop, ApplyState, At
  <2>2. CASE CloseDialog /\ todo' = <<"gtk_refresh">> \o Tail(todo)
    BY <1>3, <1>5, <2>2 DEF CloseDialog, At
  <2> QED
    BY <1>8, <2>1, <2>2 DEF CloseDialog, RefreshWindow, QuitLoop, ApplyState, Then
<1>9. CASE OpenDialog
  <2> DEFINE h == "gtk_loop"
  <2>1. h = Head(todo) /\ todo' = <<"gtk_dialog", h>> \o Tail(todo)
    BY <1>9 DEF OpenDialog, At, Then
  <2>2. /\ h \in Loopers /\ h \in Prompts /\ h \notin Remains /\ "gtk_dialog" \in Plain
    BY <1>5 DEF Remains
  <2>3. /\ h \notin Starters /\ Rank(h) = 1 /\ h \in Steps \ (Early \union Openers)
        /\ "gtk_dialog" \in Steps \ (Early \union Openers) /\ Rank("gtk_dialog") = 0
    BY <2>2, PlainSteps, LooperSteps
  <2>4. Carried(h, "gtk_dialog") /\ Carried(h, h)
    <3>1. Rank("gtk_dialog") <= 7 /\ Rank(h) <= 7
      BY <2>3
    <3> QED
      BY <2>3, <3>1, CarriedBy
  <2>5. Fitting(h, "gtk_dialog") /\ Fitting(h, h)
    BY <2>2, <2>3 DEF Fitting
  <2>6. MayFollow("gtk_dialog", h)
    BY <2>3 DEF MayFollow
  <2> HIDE DEF h
  <2> QED
    BY <1>1, <2>1, <2>3, <2>4, <2>5, <2>6, TwoFlow
<1> QED
  BY <1>6, <1>7, <1>8, <1>9

\* A preset is applied from within a loop.
LEMMA AskPauseFlow ==
  ASSUME SessionInv, FlowInv, AskPause
  PROVE  FlowInv'
<1>1. /\ todo # <<>> /\ cfg' = cfg /\ failed' = failed /\ fault' = "none"
      /\ life' = life /\ inside' = inside
  BY DEF AskPause, At, world, story
<1>2. PICK h \in {"poll", "gtk_loop", "qt_loop"} : h = Head(todo)
  BY DEF AskPause, At
<1>3. PICK y : y = IF h = "poll" THEN "update" ELSE h
  OBVIOUS
<1>4. todo' = <<"apply_wait", y>> \o Tail(todo)
  BY <1>2, <1>3 DEF AskPause, Then
<1>5. h \in Prompts /\ h \notin Remains /\ h # "quit_loop"
  BY <1>2 DEF Prompts, Remains
<1>6. /\ "apply_wait" \in Steps \ (Early \union Openers) /\ Rank("apply_wait") = 0
      /\ y \in Steps \ (Early \union Openers)
      /\ h \notin Starters
      /\ \/ Rank(h) = 0 /\ Rank(y) = 0 /\ \A r : h \notin Freers(r)
         \/ Rank(h) = 1 /\ Rank(y) = 1 /\ y = h
  <2>1. "apply_wait" \in Plain
    BY DEF Plain
  <2>2. CASE h = "poll"
    <3>1. h \in Plain /\ y \in Plain
      BY <1>3, <2>2 DEF Plain
    <3> QED
      BY <2>1, <3>1, PlainSteps
  <2>3. CASE h # "poll"
    <3>1. h \in Loopers /\ y = h
      BY <1>2, <1>3, <2>3 DEF Loopers
    <3> QED
      BY <2>1, <3>1, PlainSteps, LooperSteps
  <2> QED
    BY <2>2, <2>3
<1>7. Carried(h, "apply_wait") /\ Carried(h, y)
  <2>1. Rank("apply_wait") <= 7 /\ Rank(y) <= 7
    BY <1>6
  <2> QED
    BY <1>5, <1>6, <2>1, CarriedBy
<1>8. Fitting(h, "apply_wait") /\ Fitting(h, y)
  BY <1>5, <1>6 DEF Fitting
<1>9. MayFollow("apply_wait", y)
  BY <1>6 DEF MayFollow
<1>10. \A r \in Live : (failed = "none" /\ ~LeftToExit(r) /\ h \in Freers(r)) => y \in Freers(r)
  BY <1>6
<1>11. h \notin Starters
  BY <1>6
<1> QED
  BY <1>1, <1>2, <1>4, <1>7, <1>8, <1>9, <1>10, <1>11, TwoFlow

\* The ends of the loops
LEMMA EndsFlow ==
  ASSUME SessionInv, FlowInv, CallFrontendClose \/ AppShutdown \/ QtLeave \/ Unload
  PROVE  FlowInv'
<1>1. /\ todo # <<>> /\ cfg' = cfg /\ failed' = failed /\ fault' = "none"
      /\ life' = life /\ inside' = inside
  BY DEF CallFrontendClose, AppShutdown, QtLeave, Unload, At, world, story
<1>2. "app_shutdown" \in Loopers /\ "qt_leave" \in Loopers /\ "loaded" \in Loopers
  BY DEF Loopers
<1>3. CASE QtLeave \/ Unload
  <2>1. PICK h \in {"qt_leave", "loaded"} : h = Head(todo)
    BY <1>3 DEF QtLeave, Unload, At
  <2>2. h \notin Starters /\ Rank(h) = 1
    BY <1>2, LooperSteps
  <2>3. h \notin Remains /\ h \notin {"quit_app", "free_backend", "frontend_close"}
    BY DEF Remains
  <2>4. PICK p : p = Deactivate \o Close
    OBVIOUS
  <2>5. todo' = p \o Tail(todo)
    BY <1>3, <2>4 DEF QtLeave, Unload, Then
  <2> QED
    BY <1>1, <2>1, <2>2, <2>3, <2>4, <2>5, ClosingFlow
<1>4. CASE AppShutdown
  <2>1. PICK h : h = "app_shutdown"
    OBVIOUS
  <2>2. h = Head(todo) /\ h \notin Starters /\ Rank(h) = 1
    BY <1>2, <1>4, <2>1, LooperSteps DEF AppShutdown, At
  <2>3. CASE failed = "none"
    <3>1. h \notin {"quit_app", "free_backend", "frontend_close"}
      BY <2>1
    <3>2. PICK p : p = Close
      OBVIOUS
    <3>3. todo' = p \o Tail(todo)
      BY <1>4, <2>3, <3>2 DEF AppShutdown, Then
    <3> QED
      BY <1>1, <2>2, <2>3, <3>1, <3>2, <3>3, ClosingFlow
  <2>4. CASE failed # "none"
    <3>1. todo' = <<>> \o Tail(todo)
      BY <1>4, <2>4 DEF AppShutdown, Then
    <3> QED
      BY <1>1, <2>2, <2>4, <3>1, PopFlow
  <2> QED
    BY <2>3, <2>4
<1>5. CASE CallFrontendClose
  <2>1. PICK h : h = "frontend_close"
    OBVIOUS
  <2>2. /\ h = Head(todo) /\ todo' = FrontendClose \o Tail(todo)
        /\ Rank(h) = IF cfg.frontend = "console" THEN 1 ELSE 8
    BY <1>5, <2>1, RanksOf DEF CallFrontendClose, At, Then
  <2>3. h \notin Starters
    BY <2>1 DEF Starters, Openers
  <2>4. CASE cfg.frontend = "console"
    <3>1. PICK p : p = Deactivate \o Close
      OBVIOUS
    <3>2. todo' = p \o Tail(todo)
      BY <2>2, <2>4, <3>1 DEF FrontendClose
    <3>3. h \notin {"quit_app", "free_backend"}
      BY <2>1
    <3> QED
      BY <1>1, <2>2, <2>3, <2>4, <3>1, <3>2, <3>3, ClosingFlow
  <2>5. CASE cfg.frontend # "console"
    <3>1. PICK x : x = IF cfg.frontend = "gtk" THEN "quit_app" ELSE "quit_loop"
      OBVIOUS
    <3>2. todo' = <<x>> \o Tail(todo)
      BY <2>2, <2>5, <3>1 DEF FrontendClose
    <3>3. x \in Steps \ (Early \union Openers) /\ x \notin Prompts /\ x \in Remains
      BY <3>1 DEF Steps, Early, Openers, Prompts, Remains
    <3>4. Carried(h, x)
      <4>1. Rank("quit_app") = 8 /\ Rank(h) = 8
        BY <2>2, <2>5, RanksOf
      <4>2. h # "quit_loop"
        BY <2>1
      <4> QED
        BY <3>1, <4>1, <4>2, CarriedBy
    <3>5. Fitting(h, x)
      BY <3>3 DEF Fitting
    <3>6. \A r \in Live : (failed = "none" /\ ~LeftToExit(r) /\ h \in Freers(r)) => x \in Freers(r)
      <4> SUFFICES ASSUME NEW r \in Live, ~LeftToExit(r), h \in Freers(r)
                   PROVE  x \in Freers(r)
        OBVIOUS
      <4>1. r = "app"
        <5>1. h \notin Closers
          BY <2>1, <2>5 DEF Closers, Openers
        <5>2. h \notin Gives(h) /\ \A s : s = h => Gives(s) = {}
          BY <2>1 DEF Gives
        <5> QED
          BY <2>1, <5>1, <5>2 DEF Freers, Openers
      <4>2. cfg.frontend = "gtk"
        BY <4>1 DEF Live, Lives, FlowInv, Awaited, LeftToExit
      <4> QED
        BY <3>1, <4>1, <4>2 DEF Freers
    <3> QED
      BY <1>1, <2>2, <2>3, <3>2, <3>4, <3>5, <3>6, OneFlow
  <2> QED
    BY <2>4, <2>5
<1> QED
  BY <1>3, <1>4, <1>5

-----------------------------------------------------------------------------
(* Stopping and freeing                                                    *)

\* A step that gives something back and goes on with what is left.
LEMMA DropFlow ==
  ASSUME SessionInv, FlowInv, todo # <<>>, NEW h, h = Head(todo), h \notin Starters,
         cfg' = cfg, failed' = failed, fault' = "none", inside' = inside,
         todo' = <<>> \o Tail(todo),
         Freed' \subseteq Freed \union Gives(h), Live' \subseteq Live,
         life'["instance"] = "unset" => life["instance"] = "unset",
         \A r \in Live' : (failed = "none" /\ ~LeftToExit(r)) => h \notin Freers(r)
  PROVE  FlowInv'
<1>1. PICK p : p = <<>>
  OBVIOUS
<1>2. p \in Seq(Steps) /\ Len(p) = 0 /\ todo' = p \o Tail(todo)
  BY <1>1, EmptySeq
<1>3. ~Has(p, Prompts) /\ ~Has(p, Steps \ Remains)
  BY <1>2 DEF Has
<1>4. Once(p)
  BY <1>2 DEF Once
<1>5. Sound' => Sound /\ Good(Head(todo), p)
  BY <1>2, <1>4 DEF Sound, Good
<1>6. \A r \in {"app", "ports"} : life'[r] = "live" => Lives(r)
  BY DEF Lives, Live, Resource
<1>7. \A r \in Live' : (failed = "none" /\ ~(r = "app" /\ cfg.frontend = "qt")) =>
           \/ r \in Live /\ (Head(todo) \notin Freers(r) \/ Has(p, Freers(r)))
           \/ Has(todo', Freers(r))
  BY DEF LeftToExit
<1>8. Head(todo) \notin Starters /\ Freed' \subseteq Freed \union Gives(Head(todo))
  OBVIOUS
<1> QED
  BY <1>1, <1>2, <1>3, <1>5, <1>6, <1>7, <1>8, FlowKept

\* Stopping frees nothing.
LEMMA StopsFlow ==
  ASSUME SessionInv, FlowInv, StopAudio \/ StopPlugin \/ StopWorker
  PROVE  FlowInv'
<1>1. /\ todo # <<>> /\ cfg' = cfg /\ failed' = failed /\ fault' = "none"
      /\ life' = life /\ inside' = inside /\ todo' = <<>> \o Tail(todo)
  BY DEF StopAudio, StopPlugin, StopWorker, At, Then, world, story
<1>2. PICK h \in {"stop_audio", "stop_plugin", "stop_worker"} : h = Head(todo)
  BY DEF StopAudio, StopPlugin, StopWorker, At
<1>3. h \notin Starters /\ h \notin Closers /\ Gives(h) = {}
  BY <1>2 DEF Starters, Openers, Closers, Gives
<1>4. \A r : h \notin Freers(r)
  BY <1>2, <1>3 DEF Freers, Openers
<1> QED
  BY <1>1, <1>2, <1>3, <1>4, PopFlow

\* Starting makes nothing.
LEMMA StartsFlow ==
  ASSUME SessionInv, FlowInv, Launch \/ StartAudio \/ SetRunning
  PROVE  FlowInv'
<1>1. /\ todo # <<>> /\ cfg' = cfg /\ failed' = failed /\ fault' = "none"
      /\ life' = life /\ inside' = inside /\ todo' = <<>> \o Tail(todo)
  BY DEF Launch, StartAudio, SetRunning, At, Then, world, story
<1>2. Head(todo) \in Plain
  BY DEF Launch, StartAudio, SetRunning, At, Plain
<1> QED
  BY <1>1, <1>2, PlainPop

\* The steps of closing that free
LEMMA FreersAre ==
  ASSUME NEW r \in Resource
  PROVE  /\ r # "client" => "close_client" \notin Freers(r)
         /\ r \notin {"ui", "instance"} => "free_plugin" \notin Freers(r)
         /\ r \notin {"ports", "workers", "rings", "controls"} => "free_process" \notin Freers(r)
         /\ r \notin {"world", "done"} => "free_world" \notin Freers(r)
         /\ r # "buffers" => "unbuffer" \notin Freers(r)
         /\ r # "backend" => "free_backend" \notin Freers(r)
         /\ r # "app" => "quit_app" \notin Freers(r)
<1>1. \A h \in {"close_client", "free_plugin", "free_process", "free_world", "unbuffer",
               "free_backend", "quit_app"} : h \notin Closers /\ h \notin Openers
  BY DEF Closers, Openers
<1>2. /\ Gives("close_client") = {"client"} /\ Gives("free_plugin") = {"ui", "instance"}
      /\ Gives("free_process") = {"ports", "workers", "rings", "controls"}
      /\ Gives("free_world") = {"world", "done"} /\ Gives("unbuffer") = {}
      /\ Gives("free_backend") = {"backend"} /\ Gives("quit_app") = {"app"}
  BY DEF Gives
<1> QED
  BY <1>1, <1>2 DEF Freers

\* Each is freed by the step that it waits for.
LEMMA FreesFlow ==
  ASSUME SessionInv, FlowInv, FreePlugin \/ FreeProcess \/ FreeWorld
  PROVE  FlowInv'
<1>1. /\ todo # <<>> /\ cfg' = cfg /\ failed' = failed /\ fault' = "none"
      /\ inside' = inside /\ todo' = <<>> \o Tail(todo)
  BY DEF FreePlugin, FreeProcess, FreeWorld, At, Then, world, story
<1>2. PICK h \in {"free_plugin", "free_process", "free_world"} :
        h = Head(todo) /\ Free(Gives(h))
  <2>1. /\ Gives("free_plugin") = {"ui", "instance"}
        /\ Gives("free_process") = {"ports", "workers", "rings", "controls"}
        /\ Gives("free_world") = {"world", "done"}
    BY DEF Gives
  <2> QED
    BY <2>1 DEF FreePlugin, FreeProcess, FreeWorld, At
<1>3. \A r \in Resource : life'[r] = IF r \in Gives(h) /\ life[r] = "live" THEN "freed" ELSE life[r]
  BY <1>2 DEF Free, With, Live
<1>4. /\ Freed' \subseteq Freed \union Gives(h) /\ Live' \subseteq Live
      /\ \A r \in Live' : r \notin Gives(h) /\ r \in Resource
      /\ life'["instance"] = "unset" => life["instance"] = "unset"
  BY <1>3 DEF Freed, Live, Resource
<1>5. \A r \in Live' : h \notin Freers(r)
  BY <1>2, <1>4, FreersAre DEF Gives
<1>6. h \notin Starters
  BY <1>2 DEF Starters, Openers
<1> QED
  BY <1>1, <1>2, <1>4, <1>5, <1>6, DropFlow

\* The client is closed by the backend.
LEMMA CloseClientFlow ==
  ASSUME SessionInv, FlowInv, CloseClient
  PROVE  FlowInv'
<1>1. /\ todo # <<>> /\ cfg' = cfg /\ failed' = failed /\ fault' = "none"
      /\ inside' = inside /\ todo' = <<>> \o Tail(todo)
      /\ Head(todo) = "close_client"
  BY DEF CloseClient, At, Then, world, story
<1>2. PICK h : h = "close_client"
  OBVIOUS
<1>3. /\ Gives(h) = {"client"} /\ h \notin Starters
  BY <1>2 DEF Gives, Starters, Openers
<1>4. /\ \A r \in Resource \ {"client"} : life'[r] = life[r]
      /\ life'["client"] # "live"
  <2>1. CASE guest \/ life["client"] = "unset"
    <3>1. life' = life
      BY <2>1 DEF CloseClient
    <3>2. life["client"] # "live"
      BY <2>1 DEF SessionInv, LifeOK, Lives
    <3> QED
      BY <3>1, <3>2
  <2>2. CASE ~(guest \/ life["client"] = "unset")
    <3>1. life' = With({"client"}, IF Jack THEN "freed" ELSE "unset")
      BY <2>2 DEF CloseClient
    <3> QED
      BY <3>1 DEF With, Resource
  <2> QED
    BY <2>1, <2>2
<1>5. /\ Freed' \subseteq Freed \union Gives(h) /\ Live' \subseteq Live
      /\ \A r \in Live' : r # "client" /\ r \in Resource
      /\ life'["instance"] = "unset" => life["instance"] = "unset"
  BY <1>3, <1>4 DEF Freed, Live, Resource
<1>6. \A r \in Live' : h \notin Freers(r)
  BY <1>2, <1>5, FreersAre
<1> QED
  BY <1>1, <1>2, <1>3, <1>5, <1>6, DropFlow

\* The backend is the last to go.
LEMMA FreeBackendFlow ==
  ASSUME SessionInv, FlowInv, FreeBackend
  PROVE  FlowInv'
<1>1. /\ todo # <<>> /\ cfg' = cfg /\ failed' = failed /\ fault' = "none"
      /\ inside' = inside /\ todo' = <<>> \o Tail(todo)
      /\ Head(todo) = "free_backend"
      /\ \/ failed # "none" /\ life' = life
         \/ life' = With({"backend"}, "freed")
  BY DEF FreeBackend, At, Then, world, story
<1>2. PICK h : h = "free_backend"
  OBVIOUS
<1>3. /\ Gives(h) = {"backend"} /\ h \notin Starters
  BY <1>2 DEF Gives, Starters, Openers
<1>4. /\ \A r \in Resource \ {"backend"} : life'[r] = life[r]
      /\ failed = "none" => life'["backend"] = "freed"
      /\ life'["backend"] \in {life["backend"], "freed"}
  BY <1>1 DEF With, Resource
<1>5. /\ Freed' \subseteq Freed \union Gives(h) /\ Live' \subseteq Live
      /\ \A r \in Live' : (failed = "none" => r # "backend") /\ r \in Resource
      /\ life'["instance"] = "unset" => life["instance"] = "unset"
  BY <1>3, <1>4 DEF Freed, Live, Resource
<1>6. \A r \in Live' : failed = "none" => h \notin Freers(r)
  BY <1>2, <1>5, FreersAre
<1> QED
  BY <1>1, <1>2, <1>3, <1>5, <1>6, DropFlow

\* What a step that keeps the list has to show.
LEMMA SameFlow ==
  ASSUME FlowInv, todo' = todo, cfg' = cfg, life' = life, failed' = failed,
         inside' = inside, KnownMisuse'
  PROVE  FlowInv'
<1>1. \A s : /\ Uses(s)' = Uses(s) /\ Freers(s)' = Freers(s)
             /\ Once(s)' <=> Once(s)
  BY SamePlaces, OnceSame
<1>2. Freed' = Freed /\ Live' = Live /\ (Sound' <=> Sound)
  BY DEF Freed, Live, Sound
<1>3. Stranded' = Stranded
  BY <1>1, <1>2 DEF Stranded
<1>4. ClosesOnce'
  <2>1. Once(todo)' <=> Once(todo)
    BY <1>1 DEF Once
  <2> QED
    BY <1>2, <1>3, <2>1 DEF FlowInv, ClosesOnce, Has
<1>5. Silent'
  BY DEF FlowInv, Silent, Has
<1>6. FailsWell'
  BY DEF FlowInv, FailsWell, Lives, Has
<1>7. Awaited'
  BY <1>1, <1>2 DEF FlowInv, Awaited, Lives, Has
<1> QED
  BY <1>4, <1>5, <1>6, <1>7 DEF FlowInv

FailuresKnown ==
  failed \in {"none", "plugin", "ui", "ports", "backend", "features", "instance"}

\* Disconnecting ports of a missing instance happens only in those two.
LEMMA UnbufferFlow ==
  ASSUME SessionInv, FlowInv, FailuresKnown, Unbuffer
  PROVE  FlowInv'
<1>1. /\ todo # <<>> /\ cfg' = cfg /\ failed' = failed /\ inside' = inside
      /\ Head(todo) = "unbuffer" /\ fault = "none"
  BY DEF Unbuffer, At, world
<1>2. PICK h : h = "unbuffer"
  OBVIOUS
<1>3. h \notin Starters /\ h \notin Remains /\ h \notin Halfway /\ h \in Steps
  BY <1>2 DEF Starters, Openers, Remains, Halfway, Steps
<1>4. CASE fault' = "null" /\ todo' = todo /\ life' = life
           /\ life["ports"] = "live" /\ life["instance"] = "unset"
  <2>1. failed # "none"
    BY <1>1, <1>2, <1>3, <1>4 DEF FlowInv, FailsWell, Lives
  <2>2. failed \notin {"plugin", "ui"}
    BY <1>4 DEF FlowInv, FailsWell, Lives
  <2>3. cfg.frontend \notin {"gtk", "qt"}
    <3>1. Has(todo, Steps \ Remains)
      <4>1. todo \in Seq(Steps)
        BY AllowedSteps
      <4> QED
        BY <1>1, <1>2, <1>3, <4>1, HasBehind
    <3> QED
      BY <2>1, <3>1 DEF FlowInv, FailsWell
  <2>4. cfg.frontend \in {"console", "internal"}
    BY <2>3, FrontendKnown DEF SessionInv
  <2>5. KnownMisuse'
    BY <1>1, <1>4, <2>1, <2>2, <2>4 DEF KnownMisuse, FailuresKnown
  <2> QED
    BY <1>1, <1>4, <2>5, SameFlow
<1>5. CASE fault' = fault /\ todo' = <<>> \o Tail(todo) /\ life' = With({"buffers"}, "unset")
  <2>1. \A r \in Resource : life'[r] = IF r = "buffers" THEN "unset" ELSE life[r]
    BY <1>5 DEF With
  <2>2. /\ Freed' \subseteq Freed \union Gives(h) /\ Live' \subseteq Live
        /\ \A r \in Live' : r # "buffers" /\ r \in Resource
        /\ life'["instance"] = "unset" => life["instance"] = "unset"
    BY <2>1 DEF Freed, Live, Resource
  <2>3. \A r \in Live' : h \notin Freers(r)
    BY <1>2, <2>2, FreersAre
  <2> QED
    BY <1>1, <1>2, <1>3, <1>5, <2>2, <2>3, DropFlow
<1> QED
  BY <1>4, <1>5 DEF Unbuffer, Then

\* The UI is freed with the instance.
LEMMA UiFlow ==
  ASSUME SessionInv, FlowInv, EnterConsole \/ OpenWindow
  PROVE  FlowInv'
<1>1. /\ todo # <<>> /\ cfg' = cfg /\ failed' = failed /\ fault' = "none"
      /\ inside' = inside /\ Head(todo) \in {"enter", "window"}
      /\ life' = With({"ui"}, "live") \/ life' = life
  BY DEF EnterConsole, OpenWindow, At, world, story
<1>2. PICK h \in {"enter", "window"} : h = Head(todo)
  BY <1>1
<1>3. /\ h \in Plain /\ h \notin Starters /\ h \notin Remains /\ Rank(h) = 0
      /\ h # "quit_loop" /\ \A r : h \notin Freers(r)
  <2>1. h \in Plain /\ h # "quit_loop"
    BY DEF Plain
  <2> QED
    BY <2>1, PlainSteps
<1>4. Lives("instance")
  <2>1. h \in Activation
    BY DEF Activation
  <2> QED
    BY <1>1, <1>2, <2>1 DEF SessionInv, HeadOK, Opened
<1>5. \E p \in Seq(Steps) :
        /\ todo' = p \o Tail(todo) /\ Once(p)
        /\ \A i \in 1..Len(p) : Fitting(h, p[i]) /\ Carried(h, p[i])
  <2>1. CASE h = "window"
    <3>1. PICK p : p = <<>>
      OBVIOUS
    <3>2. p \in Seq(Steps) /\ Len(p) = 0
      BY <3>1, EmptySeq
    <3>3. todo' = p \o Tail(todo)
      BY <1>2, <2>1, <3>1 DEF EnterConsole, OpenWindow, At, Then
    <3>4. Once(p) /\ \A i \in 1..Len(p) : Fitting(h, p[i]) /\ Carried(h, p[i])
      BY <3>2 DEF Once
    <3> QED
      BY <3>2, <3>3, <3>4
  <2>2. CASE h = "enter"
    <3>1. PICK x \in {"ui_check", "first_update", "wait"} :
            todo' = <<x>> \o Tail(todo) /\ (cfg.mode = "silent" => x = "wait")
      <4>1. EnterConsole
        BY <1>2, <2>2 DEF OpenWindow, At
      <4>2. cfg.mode \in {"prompt", "silent", "ui"}
        <5>1. cfg.frontend = "console"
          <6>1. todo \in Seq(Allowed)
            BY DEF SessionInv, ListOK
          <6>2. Head(todo) \in Allowed
            BY <1>1, <6>1, HeadTailProperties
          <6> QED
            BY <1>2, <2>2, <6>2 DEF Allowed
        <5>2. cfg \in Configurations
          BY DEF SessionInv, KindsOK
        <5> QED
          BY <5>1, <5>2 DEF Configurations
      <4>3. CASE cfg.mode = "ui"
        BY <4>1, <4>3 DEF EnterConsole, Then
      <4>4. CASE cfg.mode = "prompt"
        BY <4>1, <4>4 DEF EnterConsole, Then
      <4>5. CASE cfg.mode = "silent"
        BY <4>1, <4>5 DEF EnterConsole, Then
      <4> QED
        BY <4>2, <4>3, <4>4, <4>5
    <3>2. x \in Plain /\ "wait" \notin Prompts
      BY DEF Plain, Prompts
    <3>3. x \in Steps \ (Early \union Openers) /\ Rank(x) = 0
      BY <3>2, PlainSteps
    <3>4. Carried(h, x) /\ Fitting(h, x)
      BY <1>3, <3>1, <3>2, <3>3, CarriedBy DEF Fitting
    <3>5. PICK p : p = <<x>>
      OBVIOUS
    <3>6. p \in Seq(Steps) /\ Len(p) = 1 /\ p[1] = x /\ Once(p)
      BY <3>3, <3>5, OneStep
    <3>7. todo' = p \o Tail(todo)
      BY <3>1, <3>5
    <3>8. \A i \in 1..Len(p) : Fitting(h, p[i]) /\ Carried(h, p[i])
      <4>1. SUFFICES ASSUME NEW i \in 1..Len(p)
                     PROVE  p[i] = x
        BY <3>4
      <4>2. i = 1
        BY <3>6, <4>1
      <4> QED
        BY <3>6, <4>2
    <3>9. p \in Seq(Steps) /\ Once(p)
      BY <3>6
    <3> QED
      BY <3>7, <3>8, <3>9
  <2> QED
    BY <2>1, <2>2
<1>6. PICK p \in Seq(Steps) :
        /\ todo' = p \o Tail(todo) /\ Once(p)
        /\ \A i \in 1..Len(p) : Fitting(h, p[i]) /\ Carried(h, p[i])
  BY <1>5
<1>7. /\ \A r \in Resource \ {"ui"} : life'[r] = life[r]
      /\ life'["ui"] \in {life["ui"], "live"}
  BY <1>1 DEF With, Resource
<1>8. Freed' \subseteq Freed
  BY <1>7 DEF Freed
<1>9. \A r \in {"app", "ports"} : life'[r] = "live" => Lives(r)
  BY <1>7 DEF Lives, Resource
<1>10. life'["instance"] = "unset" => life["instance"] = "unset"
  BY <1>7 DEF Resource
<1>11. ASSUME NEW r \in Live', failed = "none"
       PROVE  \/ r \in Live /\ Head(todo) \notin Freers(r)
              \/ Has(todo', Freers(r))
  <2>1. CASE r # "ui"
    BY <1>2, <1>3, <1>7, <2>1 DEF Live
  <2>2. CASE r = "ui"
    <3>1. Freers("ui") = Freers("instance")
      BY DEF Freers, Gives
    <3>2. "instance" \in Live /\ ~LeftToExit("instance")
      BY <1>4 DEF Live, Lives, Resource, LeftToExit
    <3>3. Has(todo, Freers("instance"))
      BY <1>11, <3>2 DEF FlowInv, Awaited, LeftToExit
    <3>4. Has(todo', Freers("instance"))
      BY <1>1, <1>2, <1>3, <1>6, <3>3, AllowedSteps, HasBehind
    <3> QED
      BY <2>2, <3>1, <3>4
  <2> QED
    BY <2>1, <2>2
<1>12. (cfg.mode = "silent" /\ Head(todo) \notin Prompts) => ~Has(p, Prompts)
  BY <1>2, <1>6 DEF Fitting, Has
<1>13. p # <<>> => Head(p) \notin Early \union Openers
  <2>1. ASSUME p # <<>> PROVE Head(p) = p[1] /\ 1 \in 1..Len(p)
    BY <2>1, HeadTailProperties, EmptySeq
  <2> QED
    BY <1>6, <2>1 DEF Fitting
<1>14. Sound' => Sound /\ Good(Head(todo), p)
  BY <1>1, <1>2, <1>6 DEF Good, Sound
<1>15. Head(todo) \notin Starters /\ Head(todo) \notin Remains
  BY <1>2, <1>3
<1> QED
  BY <1>1, <1>6, <1>8, <1>9, <1>10, <1>11, <1>12, <1>13, <1>14, <1>15, FlowKept

-----------------------------------------------------------------------------
(* The app of GTK, and the other threads                                   *)

\* GTK's App is freed, and its loop turns into its shutdown; unless that was
\* within the loop there is none.
LEMMA QuitAppFlow ==
  ASSUME SessionInv, FlowInv, QuitApp
  PROVE  FlowInv'
<1> DEFINE t == Tail(todo)
           New(x) == IF x = "gtk_loop" THEN "app_shutdown" ELSE x
<1>1. /\ todo # <<>> /\ Head(todo) = "quit_app" /\ fault' = "none"
      /\ life' = With({"app"}, "freed")
      /\ todo' = [i \in DOMAIN t |-> New(t[i])]
      /\ cfg' = cfg /\ failed' = failed /\ inside' = inside
  BY DEF QuitApp, At, world, story
<1>2. /\ todo \in Seq(Steps) /\ t \in Seq(Steps)
      /\ t # <<>> => Behind("quit_app", Head(t))
  BY <1>1, AllowedSteps
<1>3. cfg.frontend = "gtk" /\ cfg.mode # "silent"
  <2>1. todo \in Seq(Allowed) /\ cfg \in Configurations
    BY DEF SessionInv, ListOK, KindsOK
  <2>2. Head(todo) \in Allowed
    BY <1>1, <2>1, HeadTailProperties
  <2> QED
    BY <1>1, <2>1, <2>2 DEF Allowed, Configurations
<1>4. /\ \A r \in Resource : life'[r] = IF r = "app" THEN "freed" ELSE life[r]
      /\ Gives("quit_app") = {"app"} /\ Rank("quit_app") = 8
  BY <1>1, RanksOf DEF With, Gives
<1>5. /\ Freed' \subseteq Freed \union {"app"}
      /\ \A r \in Live' : r # "app" /\ r \in Live /\ r \in Resource
      /\ life'["app"] = "freed" /\ life'["ports"] = life["ports"]
      /\ life'["instance"] = life["instance"]
  BY <1>4 DEF Freed, Live, Resource
<1> HIDE DEF t
<1>6. /\ Len(t) \in Nat /\ Len(todo') = Len(t) /\ DOMAIN t = 1..Len(t)
      /\ \A i \in 1..Len(t) : todo'[i] = New(t[i]) /\ t[i] \in Steps
  <2>1. /\ Len(t) \in Nat /\ DOMAIN t = 1..Len(t) /\ \A i \in 1..Len(t) : t[i] \in Steps
    BY <1>2
  <2>2. \A x \in Steps : New(x) \in Steps
    BY DEF Steps
  <2> HIDE DEF New
  <2>3. todo' \in Seq(Steps) /\ Len(todo') = Len(t)
    BY <1>1, <2>1, <2>2
  <2> QED
    BY <1>1, <2>1, <2>3
<1>7. ClosesOnce'
  <2>1. Sound' <=> Sound
    BY <1>1 DEF Sound
  <2>2. CASE ~Sound
    BY <2>1, <2>2 DEF ClosesOnce
  <2>3. CASE Sound
    <3>1. Once(todo) /\ ClosesOnce
      BY <2>3 DEF FlowInv, ClosesOnce
    <3>2. ~Has(t, Barred("quit_app"))
      BY <1>1, <1>2, <3>1, PopOnce DEF t
    <3>3. Rank("gtk_loop") = 1
      BY RanksOf
    <3>4. "gtk_loop" \in Barred("quit_app")
      BY <1>4, <3>3 DEF Barred, MayFollow, Steps
    <3>5. \A i \in 1..Len(t) : todo'[i] = t[i]
      BY <1>6, <3>2, <3>4 DEF Has
    <3>6. todo' = t
      <4>1. t = [i \in 1..Len(t) |-> t[i]]
        BY <1>2
      <4>2. todo' = [i \in 1..Len(t) |-> todo'[i]]
        BY <1>1, <1>6
      <4> QED
        BY <3>5, <4>1, <4>2
    <3>7. PICK p : p = <<>>
      OBVIOUS
    <3>8. p \in Seq(Steps) /\ Len(p) = 0
      BY <3>7, EmptySeq
    <3>9. Good(Head(todo), p)
      BY <3>8 DEF Good, Once
    <3>10. todo' = p \o Tail(todo)
      BY <1>2, <3>6, <3>7, ConcatEmptySeq DEF t
    <3>11. Freed' \subseteq Freed \union Gives(Head(todo))
      BY <1>1, <1>4, <1>5
    <3> QED
      BY <1>1, <1>2, <2>1, <3>1, <3>7, <3>9, <3>10, <3>11, FlowList
  <2> QED
    BY <2>2, <2>3
<1>8. Silent'
  BY <1>1, <1>3 DEF Silent
<1>9. FailsWell'
  <2>1. ASSUME todo' # <<>>
        PROVE  Head(todo') \notin Early \union Openers
    <3>1. Len(t) >= 1 /\ t # <<>>
      <4>1. Len(t) # 0
        BY <1>1, <1>6, <2>1, EmptySeq
      <4> QED
        BY <1>2, <1>6, <4>1, EmptySeq
    <3>2. Head(todo') = New(t[1]) /\ Head(t) = t[1]
      <4>1. 1 \in 1..Len(t)
        BY <1>6, <3>1
      <4> QED
        BY <1>2, <1>6, <3>1, <4>1
    <3>3. Head(t) \notin Early \union Openers
      BY <1>2, <3>1 DEF Behind, Early, Openers
    <3>4. "app_shutdown" \notin Early \union Openers
      BY DEF Early, Openers
    <3> QED
      BY <3>2, <3>3, <3>4
  <2>2. "quit_app" \notin Halfway
    BY DEF Halfway
  <2>3. (failed # "none" /\ cfg.frontend \in {"gtk", "qt"}) => ~Has(todo', Steps \ Remains)
    <3> SUFFICES ASSUME failed # "none", NEW i \in 1..Len(t) PROVE todo'[i] \in Remains
      BY <1>3, <1>6 DEF Has
    <3>1. ~Has(todo, Steps \ Remains)
      BY <1>3 DEF FlowInv, FailsWell
    <3>2. ~Has(t, Steps \ Remains)
      BY <1>1, <1>2, <3>1, HasBehind DEF t
    <3>3. t[i] \in Remains
      BY <1>6, <3>2 DEF Has
    <3> QED
      BY <1>6, <3>3 DEF Remains
  <2>4. ~(life'["ports"] = "live" /\ life'["instance"] = "unset" /\ failed' = "none")
    BY <1>1, <1>5, <2>2 DEF FlowInv, FailsWell, Lives
  <2>5. failed' \in {"plugin", "ui"} => ~(life'["ports"] = "live")
    BY <1>1, <1>5 DEF FlowInv, FailsWell, Lives
  <2> QED
    BY <1>1, <2>1, <2>3, <2>4, <2>5 DEF FailsWell, Lives, Has
<1>10. Awaited'
  <2>1. ASSUME failed = "none", NEW r \in Live' PROVE Has(todo', Freers(r))
    <3>1. r # "app" /\ r \in Live /\ r \in Resource
      BY <1>5
    <3>2. Has(todo, Freers(r))
      BY <2>1, <3>1 DEF FlowInv, Awaited
    <3>3. "quit_app" \notin Freers(r)
      BY <3>1, FreersAre
    <3>4. Has(t, Freers(r))
      BY <1>1, <1>2, <3>2, <3>3, HasBehind DEF t
    <3>5. "gtk_loop" \in Freers(r) => "app_shutdown" \in Freers(r)
      BY LooperSteps DEF Loopers
    <3>6. PICK i \in 1..Len(t) : t[i] \in Freers(r)
      BY <3>4 DEF Has
    <3>7. todo'[i] \in Freers(r)
      BY <1>6, <3>5, <3>6
    <3> QED
      BY <1>6, <3>7 DEF Has
  <2>2. \A r : Freers(r)' = Freers(r)
    BY <1>1, SamePlaces
  <2> QED
    BY <1>1, <1>5, <2>1, <2>2 DEF Awaited, Lives, Has
<1>11. KnownMisuse'
  BY <1>1 DEF KnownMisuse
<1> QED
  BY <1>7, <1>8, <1>9, <1>10, <1>11 DEF FlowInv

\* A post of `done` that comes too late is not among the misuses of the
\* closing steps.
LEMMA PostMisuse ==
  ASSUME KnownMisuse, Post, fault = "none"
  PROVE  fault' \in {"none", "posted"} /\ KnownMisuse'
<1>1. fault' \in {"none", "posted"}
  BY DEF Post
<1> QED
  BY <1>1 DEF KnownMisuse

\* The other threads keep the list, but for a poll that a signal ends.
LEMMA OthersFlow ==
  ASSUME SessionInv, FlowInv, ProcessGate \/ BufferSize \/ Signal \/ ServerShutdown
  PROVE  FlowInv'
<1>1. cfg' = cfg /\ life' = life /\ failed' = failed /\ inside' = inside
  BY DEF ProcessGate, BufferSize, Signal, ServerShutdown, story,
         world
<1>2. CASE ProcessGate \/ BufferSize
  <2>1. todo' = todo /\ fault' = fault
    BY <1>2 DEF ProcessGate, BufferSize, story
  <2>2. KnownMisuse'
    BY <1>1, <2>1 DEF FlowInv, KnownMisuse
  <2> QED
    BY <1>1, <2>1, <2>2, SameFlow
<1>3. CASE Signal \/ ServerShutdown
  <2>1. /\ fault' \in {"none", "posted"} /\ KnownMisuse'
        /\ \/ todo' = todo
           \/ todo # <<>> /\ Head(todo) = "poll" /\ todo' = Tail(todo)
    <3>1. Post /\ fault = "none"
      BY <1>3 DEF Signal, ServerShutdown
    <3>2. \/ todo' = todo
          \/ todo # <<>> /\ Head(todo) = "poll" /\ todo' = Tail(todo)
      BY <1>3 DEF Signal, ServerShutdown
    <3> QED
      BY <3>1, <3>2, PostMisuse DEF FlowInv
  <2>2. CASE todo' = todo
    BY <1>1, <2>1, <2>2, SameFlow
  <2>3. CASE todo # <<>> /\ Head(todo) = "poll" /\ todo' = Tail(todo)
    <3>1. todo' = <<>> \o Tail(todo)
      BY <2>3, ThenNothing DEF SessionInv
    <3>2. Head(todo) \in Plain
      BY <2>3 DEF Plain
    <3> QED
      BY <1>1, <2>1, <2>3, <3>1, <3>2, PlainPop
  <2> QED
    BY <2>1, <2>2, <2>3
<1> QED
  BY <1>2, <1>3

\* Nothing is touched but what a step relies on.
LEMMA TouchesWhatItUses ==
  ASSUME NEW s \in Steps
  PROVE  Touched(s) \subseteq Uses(s)
<1>1. Touched(s) \subseteq Resource
  BY DEF Touched, Resource
<1>2. CASE s = "quit_loop"
  BY <1>2 DEF Touched
<1>3. CASE Rank(s) <= 4 /\ s # "quit_loop"
  BY <1>1, <1>3 DEF Uses
<1>4. CASE s \in {"free_plugin", "free_process", "free_world", "frontend_close", "quit_app",
                 "free_backend"}
  <2>1. /\ Rank("free_plugin") = 5 /\ Rank("free_process") = 6 /\ Rank("free_world") = 7
        /\ Rank("quit_app") = 8 /\ Rank("free_backend") = 9
    BY RanksOf
  <2>2. /\ Uses("free_plugin") = Resource \ {"client"}
        /\ Uses("free_process") = Resource \ {"client", "ui", "instance"}
        /\ Uses("free_world") = {"world", "done", "app", "backend"}
        /\ Uses("quit_app") = {"app", "backend"}
    BY <2>1 DEF Uses
  <2>3. /\ Touched("free_plugin") = {"ui", "instance"}
        /\ Touched("free_process") = {"ports", "workers", "rings", "controls"}
        /\ Touched("free_world") = {"world", "done"}
        /\ Touched("frontend_close") = {} /\ Touched("quit_app") = {"app"}
        /\ Touched("free_backend") = {}
    BY DEF Touched
  <2> QED
    BY <1>4, <2>2, <2>3 DEF Resource
<1>5. CASE s \notin {"free_plugin", "free_process", "free_world", "frontend_close", "quit_app",
                    "free_backend"} /\ Rank(s) > 4
  BY <1>5 DEF Rank
<1>6. Rank(s) \in 0..9
  BY RankKnown
<1> QED
  BY <1>2, <1>3, <1>4, <1>5, <1>6

\* What was freed is touched only when jalv_update has closed where that
\* closes twice.
LEMMA UseAfterFreeFlow ==
  ASSUME SessionInv, FlowInv, UseAfterFree
  PROVE  FlowInv'
<1>1. /\ todo # <<>> /\ Touched(Head(todo)) \cap Freed # {} /\ fault' = "freed"
      /\ cfg' = cfg /\ todo' = todo /\ life' = life /\ failed' = failed /\ inside' = inside
  BY DEF UseAfterFree, world
<1>2. ~Sound
  <2> SUFFICES ASSUME Sound PROVE FALSE
    OBVIOUS
  <2>1. PICK h : h = Head(todo)
    OBVIOUS
  <2>2. h \in Steps /\ todo \in Seq(Steps)
    BY <1>1, <2>1, AllowedSteps
  <2>3. h \in Stranded
    BY <1>1, <2>1, <2>2, TouchesWhatItUses DEF Stranded
  <2>4. ~Has(todo, Stranded)
    BY DEF FlowInv, ClosesOnce
  <2> QED
    BY <1>1, <2>1, <2>2, <2>3, <2>4, HasBehind
<1>3. inside /\ cfg.frontend \in {"console", "gtk"}
  BY <1>2, FrontendKnown DEF Sound, SessionInv
<1>4. cfg.mode # "silent"
  BY <1>3 DEF FlowInv, Silent
<1>5. KnownMisuse'
  BY <1>1, <1>3, <1>4 DEF KnownMisuse
<1> QED
  BY <1>1, <1>5, SameFlow

-----------------------------------------------------------------------------
(* jalv_open                                                               *)

\* A step of jalv_open, or before it: what has to be shown.
LEMMA OpenersFlow ==
  ASSUME SessionInv, FlowInv, todo # <<>>, NEW h \in Openers \union {"frontend_run"},
         h = Head(todo), cfg' = cfg, inside' = inside, fault' = "none",
         NEW p \in Seq(Steps), todo' = p \o Tail(todo), Once(p),
         \A i \in 1..Len(p) : Carried(h, p[i]),
         cfg.mode = "silent" => ~Has(p, Prompts),
         Freed' \subseteq Freed, life'["app"] = life["app"], FailsWell',
         \A r \in Live' : r \in Live \/ r \notin {"app", "backend"},
         failed' = "none" => /\ failed = "none"
                             /\ \A r : r \notin {"app", "backend"} => Has(todo', Freers(r))
  PROVE  FlowInv'
<1>1. h \notin Freers("app") /\ h \notin Freers("backend") /\ h \notin Prompts
  BY DEF Freers, Openers, Prompts
<1>2. ClosesOnce'
  <2>1. Sound' => Sound /\ Good(Head(todo), p)
    BY DEF Sound, Good
  <2>2. Freed' \subseteq Freed \union Gives(Head(todo))
    OBVIOUS
  <2> QED
    BY <2>1, <2>2, AllowedSteps, FlowList DEF FlowInv
<1>3. Silent'
  <2>1. inside' => inside \/ Head(todo) \in Prompts
    OBVIOUS
  <2>2. (cfg.mode = "silent" /\ Head(todo) \notin Prompts) => ~Has(p, Prompts)
    OBVIOUS
  <2> QED
    BY <2>1, <2>2, SilentKept DEF FlowInv
<1>4. Awaited'
  <2>1. ASSUME failed' = "none", NEW r \in Live', ~(r = "app" /\ cfg.frontend = "qt")
        PROVE  Has(todo', Freers(r))
    <3>1. CASE r \notin {"app", "backend"}
      BY <2>1, <3>1
    <3>2. CASE r \in {"app", "backend"}
      <4>1. Has(todo, Freers(r))
        BY <2>1, <3>2 DEF FlowInv, Awaited
      <4> QED
        BY <1>1, <3>2, <4>1, AllowedSteps, HasBehind
    <3> QED
      BY <3>1, <3>2
  <2>2. \A r : Freers(r)' = Freers(r)
    BY SamePlaces
  <2> QED
    BY <2>1, <2>2 DEF FlowInv, Awaited, Lives, Has
<1>5. KnownMisuse'
  BY DEF KnownMisuse
<1> QED
  BY <1>2, <1>3, <1>4, <1>5 DEF FlowInv

\* The openers are all of one rank, and are there for whatever they make.
LEMMA OpenersAre ==
  ASSUME KindsOK, NEW h \in Openers \union {"frontend_run"}
  PROVE  /\ h \in Steps /\ h \in Opening /\ h \in Early \union Openers /\ h # "quit_loop"
         /\ Rank(h) = IF cfg.frontend = "console" THEN 0 ELSE 1
         /\ h \in Openers => \A r : r \notin {"app", "backend"} => h \in Freers(r)
<1>1. h \in Steps /\ h \in Opening /\ h \in Early \union Openers /\ h # "quit_loop"
  BY DEF Openers, Steps, Opening, Early
<1>2. h \in Openers => h \notin {"frontend_run", "unbuffer"}
  BY DEF Openers
<1>3. h \in Openers => \A r : r \notin {"app", "backend"} => h \in Freers(r)
  BY <1>2 DEF Freers
<1> QED
  BY <1>1, <1>3, RanksOf

\* A step of jalv_open that goes on with the next one.
LEMMA NextOpenerFlow ==
  ASSUME SessionInv, FlowInv, todo # <<>>, NEW h \in Openers \union {"frontend_run"},
         h = Head(todo), cfg' = cfg, inside' = inside, fault' = "none", failed' = failed,
         NEW x \in Openers, todo' = <<x>> \o Tail(todo),
         Freed' \subseteq Freed, life'["app"] = life["app"],
         \A r \in Live' : r \in Live \/ r \notin {"app", "backend"},
         x \in Early => ~Lives("ports") /\ life'["ports"] # "live",
         (life'["ports"] = "live" /\ life'["instance"] = "unset") => x \in Halfway
  PROVE  FlowInv'
<1>1. /\ h \in Opening /\ h \in Early \union Openers
      /\ h # "quit_loop" /\ Rank(h) = Rank(x) /\ x \in Steps
      /\ \A r : r \notin {"app", "backend"} => x \in Freers(r)
  BY OpenersAre DEF SessionInv
<1>2. failed = "none" /\ ~inside
  BY <1>1 DEF SessionInv, HeadOK, Opened, FlowInv, FailsWell
<1>3. PICK p : p = <<x>>
  OBVIOUS
<1>4. /\ p \in Seq(Steps) /\ Len(p) = 1 /\ p[1] = x /\ p # <<>> /\ Head(p) = x /\ Once(p)
      /\ \A E : Has(p, E) <=> x \in E
  BY <1>1, <1>3, OneStep
<1>5. todo' = p \o Tail(todo)
  BY <1>3
<1>6. \A i \in 1..Len(p) : Carried(h, p[i])
  BY <1>1, <1>4, CarriedBy
<1>7. ~Has(p, Prompts)
  BY <1>4 DEF Openers, Prompts
<1>8. /\ todo' \in Seq(Steps) /\ todo' # <<>> /\ Head(todo') = x
      /\ \A E : x \in E => Has(todo', E)
  <2>1. Tail(todo) \in Seq(Steps)
    BY AllowedSteps
  <2>2. /\ todo' \in Seq(Steps) /\ Len(todo') = 1 + Len(Tail(todo)) /\ Len(Tail(todo)) \in Nat
        /\ todo'[1] = x
    BY <1>4, <1>5, <2>1, ConcatProperties
  <2>3. todo' # <<>>
    BY <2>2, EmptySeq
  <2> QED
    BY <2>2, <2>3, HeadTailProperties DEF Has
<1>9. FailsWell'
  BY <1>2, <1>8 DEF FailsWell, Lives, Openers
<1>10. \A r : r \notin {"app", "backend"} => Has(todo', Freers(r))
  BY <1>1, <1>8
<1> QED
  BY <1>2, <1>4, <1>5, <1>6, <1>7, <1>9, <1>10, OpenersFlow

\* What the frontends do when jalv_open has failed
LEMMA AfterFailureList ==
  ASSUME KindsOK, NEW p, p = AfterFailure
  PROVE  /\ p \in Seq(Steps) /\ Once(p) /\ ~Has(p, Prompts)
         /\ cfg.frontend = "console" => Len(p) = 0
         /\ \A i \in 1..Len(p) : p[i] \notin Early \union Openers /\ Rank(p[i]) \in 1..7
         /\ cfg.frontend \in {"gtk", "qt"} => ~Has(p, Steps \ Remains)
<1>1. CASE cfg.frontend = "gtk"
  <2>1. p = <<"app_shutdown">> /\ "app_shutdown" \in Steps
    BY <1>1 DEF AfterFailure, Steps
  <2>2. /\ p \in Seq(Steps) /\ Len(p) = 1 /\ p[1] = "app_shutdown" /\ Once(p)
        /\ \A E : Has(p, E) <=> "app_shutdown" \in E
    BY <2>1, OneStep
  <2>3. Rank("app_shutdown") = 1
    BY RanksOf
  <2>4. "app_shutdown" \notin Early \union Openers /\ "app_shutdown" \notin Prompts
        /\ "app_shutdown" \in Remains
    BY DEF Early, Openers, Prompts, Remains
  <2> QED
    BY <1>1, <2>2, <2>3, <2>4
<1>2. CASE cfg.frontend = "internal"
  <2>1. p = Close
    BY <1>2 DEF AfterFailure
  <2>2. p \in Seq(Steps) /\ Once(p) /\ \A i \in 1..Len(p) : p[i] \in ClosingSteps
    BY <2>1, CloseList
  <2>3. \A i \in 1..Len(p) : /\ p[i] \notin Early \union Openers /\ Rank(p[i]) \in 2..7
                             /\ p[i] \notin Prompts
    BY <2>2, ClosingFits
  <2>4. ~Has(p, Prompts)
    BY <2>3 DEF Has
  <2>5. \A i \in 1..Len(p) : Rank(p[i]) \in 1..7
    BY <2>3
  <2> QED
    BY <1>2, <2>2, <2>3, <2>4, <2>5
<1>3. CASE cfg.frontend \in {"console", "qt"}
  <2>1. p = <<>>
    BY <1>3 DEF AfterFailure
  <2>2. p \in Seq(Steps) /\ Len(p) = 0
    BY <2>1, EmptySeq
  <2> QED
    BY <2>2 DEF Once, Has
<1> QED
  BY <1>1, <1>2, <1>3, FrontendKnown

\* A step of jalv_open that fails.
LEMMA FailFlow ==
  ASSUME SessionInv, FlowInv, todo # <<>>, NEW h \in Openers, h = Head(todo),
         cfg' = cfg, fault = "none", NEW code, Fail(code), code # "none",
         Freed' \subseteq Freed, life'["app"] = life["app"],
         \A r \in Live' : r \in Live \/ r \notin {"app", "backend"},
         code \in {"plugin", "ui"} => h \in Early /\ life' = life
  PROVE  FlowInv'
<1>1. /\ h \in Opening /\ h \in Early \union Openers /\ h # "frontend_init"
      /\ h # "quit_loop" /\ Rank(h) = IF cfg.frontend = "console" THEN 0 ELSE 1
  BY OpenersAre DEF SessionInv, Openers
<1>2. failed' = code /\ inside' = inside /\ fault' = "none"
  BY DEF Fail
<1>3. ~inside /\ Sound /\ Once(todo)
  BY <1>1 DEF FlowInv, FailsWell, Sound, ClosesOnce
<1>4. PICK p : p = AfterFailure
  OBVIOUS
<1>5. /\ p \in Seq(Steps) /\ Once(p) /\ ~Has(p, Prompts)
      /\ cfg.frontend = "console" => Len(p) = 0
      /\ \A i \in 1..Len(p) : p[i] \notin Early \union Openers /\ Rank(p[i]) \in 1..7
      /\ cfg.frontend \in {"gtk", "qt"} => ~Has(p, Steps \ Remains)
  BY <1>4, AfterFailureList DEF SessionInv
<1>6. todo' = p \o Tail(todo)
  BY <1>4 DEF Fail, Then
<1>7. \A i \in 1..Len(p) : Carried(h, p[i])
  <2> SUFFICES ASSUME NEW i \in 1..Len(p) PROVE Carried(h, p[i])
    OBVIOUS
  <2>1. Rank(h) = 1
    BY <1>1, <1>5
  <2>2. Rank(p[i]) <= 7
    BY <1>5
  <2> QED
    BY <2>1, <2>2, CarriedBy
<1>8. FailsWell'
  <2>1. todo' # <<>> => Head(todo') \notin Early \union Openers
    <3>1. p # <<>> => Head(p) \notin Early \union Openers
      <4>1. ASSUME p # <<>> PROVE Head(p) = p[1] /\ 1 \in 1..Len(p)
        BY <1>5, <4>1, HeadTailProperties, EmptySeq
      <4> QED
        BY <1>5, <4>1
    <3>2. Head(todo) # "frontend_init"
      BY <1>1
    <3> QED
      BY <1>5, <1>6, <3>1, <3>2, HeadBehind
  <2>2. failed' \in {"plugin", "ui"} => ~(life'["ports"] = "live")
    BY <1>2 DEF FlowInv, FailsWell, Lives
  <2>3. cfg.frontend \in {"gtk", "qt"} => ~Has(todo', Steps \ Remains)
    <3> SUFFICES ASSUME cfg.frontend \in {"gtk", "qt"}
                 PROVE  ~Has(Tail(todo), Steps \ Remains)
      BY <1>5, <1>6, AllowedSteps, HasBehind
    <3>1. Rank(h) = 1
      BY <1>1
    <3>2. todo \in Seq(Steps) /\ Tail(todo) \in Seq(Steps) /\ ~Has(Tail(todo), Barred(h))
      BY <1>3, AllowedSteps, PopOnce
    <3> SUFFICES ASSUME NEW b \in Steps, MayFollow(h, b) PROVE b \in Remains
      BY <3>2 DEF Has, Barred
    <3>3. Rank(b) >= 8
      <4>1. Rank(b) \in 0..9
        BY RankKnown
      <4> QED
        BY <3>1, <4>1 DEF MayFollow
    <3>4. b \in {"frontend_close", "quit_app", "free_backend"}
      BY <3>3 DEF Rank
    <3> QED
      BY <3>4 DEF Remains
  <2> QED
    BY <1>2, <2>1, <2>2, <2>3 DEF FailsWell, Lives, Has
<1>9. h \in Openers \union {"frontend_run"}
  OBVIOUS
<1> QED
  BY <1>2, <1>5, <1>6, <1>7, <1>8, <1>9, OpenersFlow

\* Before jalv_open
LEMMA FrontendRunFlow ==
  ASSUME SessionInv, FlowInv, FrontendRun
  PROVE  FlowInv'
<1>1. /\ todo # <<>> /\ Head(todo) = "frontend_run" /\ cfg' = cfg /\ failed' = failed
      /\ fault' = "none" /\ life' = life /\ inside' = inside
  BY DEF FrontendRun, At, world, story
<1>2. PICK h : h = "frontend_run"
  OBVIOUS
<1>3. CASE todo' = <<>> \o Tail(todo)
  <2>1. \A r : h \notin Freers(r)
    BY <1>2 DEF Freers
  <2>2. h \notin Starters
    BY <1>2 DEF Starters, Openers
  <2> QED
    BY <1>1, <1>2, <1>3, <2>1, <2>2, PopFlow
<1>4. CASE todo' = <<"open_world">> \o Tail(todo)
  <2>1. PICK x : x = "open_world"
    OBVIOUS
  <2>2. h \in Early /\ x \in Openers /\ x \in Early
    BY <1>2, <2>1 DEF Early, Openers
  <2>3. ~Lives("ports") /\ life'["ports"] # "live"
    BY <1>1, <1>2, <2>2 DEF FlowInv, FailsWell, Lives
  <2>4. Freed' \subseteq Freed /\ life'["app"] = life["app"]
        /\ \A r \in Live' : r \in Live \/ r \notin {"app", "backend"}
    BY <1>1 DEF Freed, Live
  <2>5. h \in Openers \union {"frontend_run"} /\ todo' = <<x>> \o Tail(todo)
    BY <1>2, <1>4, <2>1
  <2> QED
    BY <1>1, <1>2, <2>2, <2>3, <2>4, <2>5, NextOpenerFlow
<1> QED
  BY <1>3, <1>4 DEF FrontendRun, Then

\* The first step of main(): the options end the program, or make an app.
LEMMA FrontendInitFlow ==
  ASSUME SessionInv, FlowInv, FrontendInit
  PROVE  FlowInv'
<1> DEFINE u == Tail(todo)
<1>1. /\ todo # <<>> /\ Head(todo) = "frontend_init"
      /\ \/ cfg.frontend = "console" /\ life' = life
         \/ /\ cfg.frontend # "console"
            /\ life' = With({"app"}, "live") /\ todo' = <<>> \o u
      /\ \/ todo' = <<>> \o u
         \/ todo' = Tail(u)
      /\ cfg' = cfg /\ failed' = failed /\ inside' = inside /\ fault' = "none"
  BY DEF FrontendInit, At, Then, world, story
<1>2. /\ todo \in Seq(Steps) /\ u \in Seq(Steps) /\ <<>> \o u = u
      /\ Len(todo) = 4 /\ todo[2] = "frontend_run" /\ todo[3] = "frontend_close"
  BY <1>1, AllowedSteps, ThenNothing DEF SessionInv, ListOK
<1>3. /\ "frontend_init" \in Early /\ "frontend_init" \in Opening
  BY DEF Early, Opening
<1>4. /\ failed = "none" /\ \A r \in Resource : life[r] # "freed"
      /\ ~Lives("ports") /\ ~inside /\ cfg.frontend # "internal"
  BY <1>1, <1>3 DEF SessionInv, HeadOK, Opened, FlowInv, FailsWell
<1>5. u # <<>> /\ Head(u) = "frontend_run" /\ Has(u, {"frontend_close"})
  <2>1. /\ Len(u) = Len(todo) - 1
        /\ \A i \in 1..(Len(todo) - 1) : u[i] = todo[i + 1]
    BY <1>1, <1>2, TailSteps
  <2> HIDE DEF u
  <2>2. Len(u) = 3 /\ u[1] = todo[2] /\ u[2] = todo[3]
    <3>1. Len(todo) = 4 /\ 1 + 1 = 2 /\ 2 + 1 = 3
      BY <1>2
    <3> QED
      BY <2>1, <3>1
  <2>3. u # <<>>
    BY <1>2, <2>2, EmptySeq
  <2>4. Head(u) = u[1]
    BY <1>2, <2>3, TailSteps
  <2> QED
    BY <1>2, <2>2, <2>3, <2>4 DEF Has
<1>6. /\ \A r \in Resource : life'[r] = life[r] \/ (r = "app" /\ life'[r] = "live")
      /\ life'["app"] = "live" => cfg.frontend \in {"gtk", "qt"}
  <2>1. \A r \in Resource : life'[r] = life[r] \/ (r = "app" /\ life'[r] = "live")
    BY <1>1 DEF With
  <2>2. life["app"] = "live" => cfg.frontend \in {"gtk", "qt"}
    BY DEF FlowInv, Awaited, Lives
  <2> QED
    BY <1>1, <1>4, <2>1, <2>2, FrontendKnown DEF SessionInv
<1>7. Freed' = {} /\ Live' \subseteq Live \union {"app"} /\ life'["ports"] # "live"
  BY <1>4, <1>6 DEF Freed, Live, Lives, Resource
<1> HIDE DEF u
<1>8. ASSUME NEW E, Has(todo', E) PROVE Has(todo, E)
  <2>1. \A F : Has(u, F) => Has(todo, F)
    BY <1>1, <1>2, HasBehind DEF u
  <2>2. \A F : Has(Tail(u), F) => Has(u, F)
    BY <1>2, <1>5, HasBehind
  <2> QED
    BY <1>1, <1>2, <1>8, <2>1, <2>2
<1>9. ClosesOnce'
  <2>1. Once(todo)
    BY <1>4 DEF FlowInv, ClosesOnce, Sound
  <2>2. Once(u)
    BY <1>1, <1>2, <2>1, PopOnce DEF u
  <2>3. Once(Tail(u))
    BY <1>2, <1>5, <2>2, PopOnce
  <2>4. Once(todo')
    BY <1>1, <1>2, <2>2, <2>3
  <2>5. Once(todo)'
    <3>1. \A x : Once(x)' <=> Once(x)
      BY <1>1, OnceSame
    <3> QED
      BY <2>4, <3>1 DEF Once
  <2>6. Stranded' = {}
    BY <1>7 DEF Stranded
  <2> QED
    BY <2>5, <2>6 DEF ClosesOnce, Has
<1>10. Silent'
  <2>1. ~Has(todo, Prompts) => ~Has(todo', Prompts)
    BY <1>8
  <2> QED
    BY <1>1, <2>1 DEF FlowInv, Silent, Has
<1>11. FailsWell'
  <2>1. todo' # <<>> => Head(todo') # "frontend_init"
    <3>1. CASE todo' = u
      BY <1>5, <3>1
    <3>2. CASE todo' = Tail(u)
      <4>1. u \in Seq(Allowed) /\ Linked(u)
        BY <1>1, PopList DEF SessionInv, ListOK, u
      <4>2. Tail(u) # <<>> => Behind("frontend_run", Head(Tail(u)))
        BY <1>5, <4>1, PopList
      <4> QED
        BY <3>2, <4>2 DEF Behind
    <3> QED
      BY <1>1, <1>2, <3>1, <3>2
  <2>2. ~inside' /\ failed' = "none" /\ ~Lives("ports")'
    BY <1>1, <1>4, <1>7 DEF Lives
  <2> QED
    BY <2>1, <2>2 DEF FailsWell
<1>12. Awaited'
  <2>1. ASSUME NEW r \in Live', ~(r = "app" /\ cfg.frontend = "qt")
        PROVE  Has(todo', Freers(r))
    <3>1. CASE r = "app"
      <4>1. cfg.frontend = "gtk" /\ todo' = u
        BY <1>1, <1>2, <1>6, <2>1, <3>1 DEF Live
      <4>2. "frontend_close" \in Freers(r)
        BY <3>1 DEF Freers
      <4> QED
        BY <1>5, <4>1, <4>2 DEF Has
    <3>2. CASE r # "app"
      <4>1. Has(todo, Freers(r))
        BY <1>4, <1>7, <3>2 DEF FlowInv, Awaited
      <4>2. "frontend_init" \notin Freers(r) /\ "frontend_run" \notin Freers(r)
        <5>1. "frontend_init" \notin Closers \union Openers
          BY DEF Closers, Openers
        <5>2. "frontend_init" \notin Gives("frontend_init") /\ Gives("frontend_init") = {}
          BY DEF Gives
        <5> QED
          BY <3>2, <5>1, <5>2 DEF Freers
      <4>3. Has(u, Freers(r))
        BY <1>1, <1>2, <4>1, <4>2, HasBehind DEF u
      <4>4. Has(Tail(u), Freers(r))
        BY <1>2, <1>5, <4>2, <4>3, HasBehind
      <4> QED
        BY <1>1, <1>2, <4>3, <4>4
    <3> QED
      BY <3>1, <3>2
  <2>2. \A r : Freers(r)' = Freers(r)
    BY <1>1, SamePlaces
  <2>3. Lives("app")' => cfg.frontend \in {"gtk", "qt"}
    BY <1>6 DEF Lives
  <2> QED
    BY <1>1, <2>1, <2>2, <2>3 DEF Awaited, Has
<1>13. KnownMisuse'
  BY <1>1 DEF KnownMisuse
<1> QED
  BY <1>9, <1>10, <1>11, <1>12, <1>13 DEF FlowInv

\* A step of jalv_open makes what is freed when it closes.
LEMMA MakesFlow ==
  ASSUME NEW R, R \subseteq Resource \ {"app", "backend"},
         life' = With(R, "live") \/ life' = life
  PROVE  /\ Freed' \subseteq Freed /\ life'["app"] = life["app"]
         /\ \A r \in Live' : r \in Live \/ r \notin {"app", "backend"}
         /\ \A r \in Resource \ R : life'[r] = life[r]
<1>1. \A r \in Resource : life'[r] = life[r] \/ (r \in R /\ life'[r] = "live")
  BY DEF With
<1> QED
  BY <1>1 DEF Freed, Live, Resource

\* The steps of jalv_open, one by one
LEMMA OpenStepsFlow ==
  ASSUME SessionInv, FlowInv,
         \/ OpenWorld \/ FindPlugin \/ ChooseUi \/ InitProcess \/ CreatePorts
         \/ OpenBackend \/ CheckFeatures \/ Instantiate
  PROVE  FlowInv'
<1>0. /\ todo # <<>> /\ cfg' = cfg /\ fault = "none" /\ Head(todo) \in Openers
  BY DEF OpenWorld, FindPlugin, ChooseUi, InitProcess, CreatePorts, OpenBackend, CheckFeatures,
         Instantiate, At, world, Openers
<1> DEFINE Made(R) == /\ R \subseteq Resource \ {"app", "backend"}
                      /\ life' = With(R, "live") \/ life' = life
           Goes(x) == todo' = <<x>> \o Tail(todo) /\ failed' = failed /\ inside' = inside
                      /\ fault' = fault
<1>1. ASSUME NEW R, Made(R), NEW x \in Openers, Goes(x),
             x \in Early => Head(todo) \in Early /\ "ports" \notin R,
             x \in Halfway \/ (Head(todo) \in Early /\ "ports" \notin R)
               \/ life'["instance"] = "live"
      PROVE  FlowInv'
  <2>1. PICK h \in Openers : h = Head(todo)
    BY <1>0
  <2>2. /\ Freed' \subseteq Freed /\ life'["app"] = life["app"]
        /\ \A r \in Live' : r \in Live \/ r \notin {"app", "backend"}
        /\ \A r \in Resource \ R : life'[r] = life[r]
    BY <1>1, MakesFlow
  <2>3. h \in Early => ~Lives("ports")
    BY <1>0, <2>1 DEF FlowInv, FailsWell
  <2>4. "ports" \notin R => life'["ports"] = life["ports"]
    BY <2>2 DEF Resource
  <2>5. x \in Early => ~Lives("ports") /\ life'["ports"] # "live"
    BY <1>1, <2>1, <2>3, <2>4 DEF Lives
  <2>6. (life'["ports"] = "live" /\ life'["instance"] = "unset") => x \in Halfway
    BY <1>1, <2>1, <2>3, <2>4 DEF Lives
  <2>7. h \in Openers \union {"frontend_run"} /\ fault' = "none"
    BY <1>0, <1>1
  <2> QED
    BY <1>0, <1>1, <2>1, <2>2, <2>5, <2>6, <2>7, NextOpenerFlow
<1>2. ASSUME NEW R, Made(R), NEW code, Fail(code), code # "none",
             code \in {"plugin", "ui"} => Head(todo) \in Early /\ life' = life
      PROVE  FlowInv'
  <2>1. PICK h \in Openers : h = Head(todo)
    BY <1>0
  <2>2. /\ Freed' \subseteq Freed /\ life'["app"] = life["app"]
        /\ \A r \in Live' : r \in Live \/ r \notin {"app", "backend"}
    BY <1>2, MakesFlow
  <2> QED
    BY <1>0, <1>2, <2>1, <2>2, FailFlow
<1>3. /\ {"open_world", "find_plugin", "choose_ui", "init_process", "create_ports"} \subseteq Early
      /\ {"open_backend", "check_features", "instantiate", "activate_process"}
           \subseteq Openers \ Early
      /\ {"open_world", "find_plugin", "choose_ui", "init_process", "create_ports"}
           \subseteq Openers
      /\ {"open_backend", "check_features", "instantiate"} \subseteq Halfway
  BY DEF Early, Openers, Halfway
<1>4. \A R : R \subseteq {"world", "done", "workers", "ports", "client", "controls", "instance"}
        => R \subseteq Resource \ {"app", "backend"}
  BY DEF Resource
<1>5. CASE OpenWorld
  <2>1. Made({"world", "done"}) /\ Goes("find_plugin") /\ Head(todo) \in Early
    BY <1>3, <1>4, <1>5 DEF OpenWorld, At, Then, story
  <2> HIDE DEF Made, Goes
  <2> QED
    BY <1>1, <1>3, <2>1
<1>6. CASE FindPlugin
  <2>1. Made({}) /\ Head(todo) \in Early /\ life' = life
    BY <1>3, <1>4, <1>6 DEF FindPlugin, At
  <2>2. Goes("choose_ui") \/ Fail("plugin")
    BY <1>6 DEF FindPlugin, Then, story
  <2> HIDE DEF Made, Goes
  <2> QED
    BY <1>1, <1>2, <1>3, <2>1, <2>2
<1>7. CASE ChooseUi
  <2>1. Made({}) /\ Head(todo) \in Early /\ life' = life
    BY <1>3, <1>4, <1>7 DEF ChooseUi, At
  <2>2. Goes("init_process") \/ Fail("ui")
    BY <1>7 DEF ChooseUi, Then, story
  <2> HIDE DEF Made, Goes
  <2> QED
    BY <1>1, <1>2, <1>3, <2>1, <2>2
<1>8. CASE InitProcess
  <2>1. Made({"workers"}) /\ Goes("create_ports") /\ Head(todo) \in Early
    BY <1>3, <1>4, <1>8 DEF InitProcess, At, Then, story
  <2> HIDE DEF Made, Goes
  <2> QED
    BY <1>1, <1>3, <2>1
<1>9. CASE CreatePorts
  <2>1. Made({"ports"})
    BY <1>4, <1>9 DEF CreatePorts
  <2>2. Goes("open_backend") \/ Fail("ports")
    BY <1>9 DEF CreatePorts, Then, story
  <2> HIDE DEF Made, Goes
  <2> QED
    BY <1>1, <1>2, <1>3, <2>1, <2>2
<1>10. CASE OpenBackend
  <2>1. Made({"client"})
    BY <1>4, <1>10 DEF OpenBackend
  <2>2. Goes("check_features") \/ Fail("backend")
    BY <1>10 DEF OpenBackend, Then, story
  <2> HIDE DEF Made, Goes
  <2> QED
    BY <1>1, <1>2, <1>3, <2>1, <2>2
<1>11. CASE CheckFeatures
  <2>1. Made({"controls"})
    BY <1>4, <1>11 DEF CheckFeatures
  <2>2. Goes("instantiate") \/ Fail("features")
    BY <1>11 DEF CheckFeatures, Then, story
  <2> HIDE DEF Made, Goes
  <2> QED
    BY <1>1, <1>2, <1>3, <2>1, <2>2
<1>12. CASE Instantiate
  <2>1. Made({"instance"})
    BY <1>4, <1>12 DEF Instantiate
  <2>2. \/ Goes("activate_process") /\ life'["instance"] = "live"
        \/ Fail("instance")
    BY <1>12 DEF Instantiate, Then, story, With, Resource
  <2> HIDE DEF Made, Goes
  <2> QED
    BY <1>1, <1>2, <1>3, <2>1, <2>2
<1> QED
  BY <1>5, <1>6, <1>7, <1>8, <1>9, <1>10, <1>11, <1>12

\* The steps of a running program, in the frontend's order
LEMMA AfterOpenRanks ==
  ASSUME KindsOK, NEW p, p = AfterOpen
  PROVE  /\ p \in Seq(Steps) /\ p # <<>> /\ Once(p)
         /\ \A i \in 1..Len(p) : Rank(p[i]) \in {0, 1}
         /\ cfg.frontend = "console" => \A i \in 1..Len(p) : Rank(p[i]) = 0
         /\ cfg.frontend # "console" => Has(p, Loopers)
         /\ cfg.mode = "silent" => ~Has(p, Prompts)
         /\ Head(p) \in Activation
<1>1. p \in Seq(Allowed) /\ p # <<>> /\ Head(p) \in Activation /\ Allowed \subseteq Steps
  BY AfterOpenList DEF Allowed
<1>2. p \in Seq(Steps)
  BY <1>1
<1>3. /\ \A s \in {"launch", "start_audio", "set_running", "enter", "window"} : Rank(s) = 0
      /\ \A s \in {"gtk_loop", "qt_loop", "loaded"} : Rank(s) = 1
  BY RanksOf
<1>4. cfg.frontend # "console" => cfg.mode = "window"
  BY DEF KindsOK, Configurations
<1>5. CASE cfg.frontend = "console"
  <2>1. p = Activate \o <<"enter">>
    BY <1>5 DEF AfterOpen
  <2>2. /\ Len(p) = 4
        /\ \A i \in 1..4 : p[i] \in {"launch", "start_audio", "set_running", "enter"}
    <3>1. /\ Len(p) = 4 /\ p[1] = "launch" /\ p[2] = "start_audio" /\ p[3] = "set_running"
          /\ p[4] = "enter"
      BY <2>1 DEF Activate, Steps
    <3> QED
      BY <3>1
  <2>3. \A i \in 1..4 : Rank(p[i]) = 0
    BY <1>3, <2>2
  <2>4. Once(p)
    BY <2>2, <2>3 DEF Once, MayFollow
  <2>5. ~Has(p, Prompts)
    BY <2>2 DEF Has, Prompts
  <2> QED
    BY <1>1, <1>2, <1>5, <2>2, <2>3, <2>4, <2>5
<1>6. CASE cfg.frontend # "console"
  <2>1. PICK n \in {4, 5} :
          /\ Len(p) = n /\ p[n] \in {"gtk_loop", "qt_loop", "loaded"}
          /\ \A i \in 1..(n - 1) : p[i] \in {"launch", "start_audio", "set_running", "window"}
    <3>1. CASE cfg.frontend = "gtk"
      <4>1. p = <<"window">> \o Activate \o <<"gtk_loop">>
        BY <3>1 DEF AfterOpen
      <4>2. /\ Len(p) = 5 /\ p[1] = "window" /\ p[2] = "launch" /\ p[3] = "start_audio"
            /\ p[4] = "set_running" /\ p[5] = "gtk_loop"
        BY <4>1 DEF Activate, Steps
      <4>3. p[5] \in {"gtk_loop", "qt_loop", "loaded"}
        BY <4>2
      <4>4. \A i \in 1..4 :
              p[i] \in {"launch", "start_audio", "set_running", "window"}
        BY <4>2
      <4> QED
        BY <4>2, <4>3, <4>4
    <3>2. CASE cfg.frontend = "qt"
      <4>1. p = Activate \o <<"window", "qt_loop">>
        BY <3>2 DEF AfterOpen
      <4>2. /\ Len(p) = 5 /\ p[1] = "launch" /\ p[2] = "start_audio" /\ p[3] = "set_running"
            /\ p[4] = "window" /\ p[5] = "qt_loop"
        BY <4>1 DEF Activate, Steps
      <4>3. p[5] \in {"gtk_loop", "qt_loop", "loaded"}
        BY <4>2
      <4>4. \A i \in 1..4 :
              p[i] \in {"launch", "start_audio", "set_running", "window"}
        BY <4>2
      <4> QED
        BY <4>2, <4>3, <4>4
    <3>3. CASE cfg.frontend = "internal"
      <4>1. p = Activate \o <<"loaded">>
        BY <3>3 DEF AfterOpen
      <4>2. /\ Len(p) = 4 /\ p[1] = "launch" /\ p[2] = "start_audio" /\ p[3] = "set_running"
            /\ p[4] = "loaded"
        BY <4>1 DEF Activate, Steps
      <4>3. p[4] \in {"gtk_loop", "qt_loop", "loaded"}
        BY <4>2
      <4>4. \A i \in 1..3 :
              p[i] \in {"launch", "start_audio", "set_running", "window"}
        BY <4>2
      <4> QED
        BY <4>2, <4>3, <4>4
    <3> QED
      BY <1>6, <3>1, <3>2, <3>3, FrontendKnown
  <2>2. Rank(p[n]) = 1 /\ \A i \in 1..(n - 1) : Rank(p[i]) = 0
    BY <1>3, <2>1
  <2>3. Once(p)
    <3> SUFFICES ASSUME NEW i \in 1..n, NEW j \in 1..n, i < j PROVE MayFollow(p[i], p[j])
      BY <2>1 DEF Once
    <3>1. Rank(p[i]) = 0 /\ Rank(p[j]) \in {0, 1}
      <4>1. i \in 1..(n - 1) /\ (j = n \/ j \in 1..(n - 1))
        OBVIOUS
      <4> QED
        BY <2>2, <4>1
    <3> QED
      BY <3>1 DEF MayFollow
  <2>4. \A i \in 1..Len(p) : Rank(p[i]) \in {0, 1}
    <3> SUFFICES ASSUME NEW i \in 1..n PROVE Rank(p[i]) \in {0, 1}
      BY <2>1
    <3>1. i = n \/ i \in 1..(n - 1)
      OBVIOUS
    <3> QED
      BY <2>2, <3>1
  <2>5. Has(p, Loopers)
    BY <2>1 DEF Has, Loopers
  <2> QED
    BY <1>1, <1>2, <1>4, <1>6, <2>3, <2>4, <2>5
<1> QED
  BY <1>5, <1>6

\* The last step of jalv_open
LEMMA ActivateProcessFlow ==
  ASSUME SessionInv, FlowInv, ActivateProcess
  PROVE  FlowInv'
<1>1. /\ todo # <<>> /\ Head(todo) = "activate_process" /\ cfg' = cfg /\ failed' = failed
      /\ fault' = "none" /\ inside' = inside /\ life' = With({"buffers", "rings"}, "live")
  BY DEF ActivateProcess, At, world, story
<1>2. PICK h : h = "activate_process"
  OBVIOUS
<1>3. PICK R : R = {"buffers", "rings"}
  OBVIOUS
<1>4. /\ Freed' \subseteq Freed /\ life'["app"] = life["app"]
      /\ \A r \in Live' : r \in Live \/ r \notin {"app", "backend"}
      /\ life'["instance"] = life["instance"]
  <2>1. R \subseteq Resource \ {"app", "backend"} /\ "instance" \in Resource \ R
    BY <1>3 DEF Resource
  <2> QED
    BY <1>1, <1>3, <2>1, MakesFlow
<1>5. /\ h \in Openers /\ h \in Opening /\ h # "quit_loop" /\ h # "frontend_init"
      /\ Rank(h) = IF cfg.frontend = "console" THEN 0 ELSE 1
  <2>1. h \in Openers
    BY <1>2 DEF Openers
  <2> QED
    BY <1>2, <2>1, OpenersAre DEF SessionInv
<1>6. failed = "none" /\ Lives("instance") /\ ~inside
  <2>1. h \in {"activate_process"} \union Activation
    BY <1>2
  <2> QED
    BY <1>1, <1>2, <1>5, <2>1 DEF SessionInv, HeadOK, Opened, FlowInv, FailsWell
<1>7. PICK p : p = AfterOpen
  OBVIOUS
<1>8. /\ p \in Seq(Steps) /\ p # <<>> /\ Once(p)
      /\ \A i \in 1..Len(p) : Rank(p[i]) \in {0, 1}
      /\ cfg.frontend = "console" => \A i \in 1..Len(p) : Rank(p[i]) = 0
      /\ cfg.frontend # "console" => Has(p, Loopers)
      /\ cfg.mode = "silent" => ~Has(p, Prompts)
      /\ Head(p) \in Activation
  BY <1>7, AfterOpenRanks DEF SessionInv
<1>9. todo' = p \o Tail(todo)
  BY <1>7 DEF ActivateProcess, Then
<1>10. \A i \in 1..Len(p) : Carried(h, p[i])
  <2> SUFFICES ASSUME NEW i \in 1..Len(p) PROVE Carried(h, p[i])
    OBVIOUS
  <2>1. CASE cfg.frontend = "console"
    BY <1>5, <1>8, <2>1, CarriedBy
  <2>2. CASE cfg.frontend # "console"
    <3>1. Rank(h) = 1 /\ Rank(p[i]) <= 7
      BY <1>5, <1>8, <2>2
    <3> QED
      BY <3>1, CarriedBy
  <2> QED
    BY <2>1, <2>2
<1>11. FailsWell'
  <2>1. Head(p) \notin Early \union Openers
    BY <1>8 DEF Activation, Early, Openers
  <2>2. todo' # <<>> => Head(todo') \notin Early \union Openers
    BY <1>1, <1>2, <1>5, <1>8, <1>9, <2>1, HeadBehind
  <2>3. life'["instance"] # "unset" /\ failed' = "none"
    BY <1>1, <1>4, <1>6 DEF Lives
  <2> QED
    BY <2>2, <2>3 DEF FailsWell
<1>12. ASSUME NEW r, r \notin {"app", "backend"}
       PROVE  Has(todo', Freers(r))
  <2>1. CASE cfg.frontend = "console"
    <3>1. Has(todo, {"frontend_close"})
      BY <1>1, <1>2, <1>5, <2>1 DEF SessionInv, ListOK
    <3>2. "frontend_close" \in Closers
      BY <2>1 DEF Closers
    <3>3. "frontend_close" \in Freers(r)
      BY <1>12, <3>2 DEF Freers
    <3>4. Has(Tail(todo), {"frontend_close"})
      BY <1>1, <3>1, AllowedSteps, HasBehind
    <3>5. Has(todo', {"frontend_close"})
      BY <1>1, <1>8, <1>9, <3>4, AllowedSteps, HasBehind
    <3> QED
      BY <3>3, <3>5 DEF Has
  <2>2. CASE cfg.frontend # "console"
    <3>1. \A s \in Loopers : s \in Freers(r)
      BY <1>12, LooperSteps
    <3>2. Has(p, Freers(r))
      BY <1>8, <2>2, <3>1 DEF Has
    <3> QED
      BY <1>1, <1>8, <1>9, <3>2, AllowedSteps, HasBehind
  <2> QED
    BY <2>1, <2>2
<1>13. h \in Openers \union {"frontend_run"} /\ h = Head(todo)
  BY <1>1, <1>2, <1>5
<1> QED
  BY <1>1, <1>4, <1>6, <1>8, <1>9, <1>10, <1>11, <1>12, <1>13, OpenersFlow

-----------------------------------------------------------------------------
(* How a session goes                                                      *)

\* What the program begins with
LEMMA FlowStart == Init => FlowInv
<1> SUFFICES ASSUME Init PROVE FlowInv
  OBVIOUS
<1>1. /\ cfg \in Configurations
      /\ life = [r \in Resource |-> IF r = "backend" THEN "live" ELSE "unset"]
      /\ failed = "none" /\ inside = FALSE /\ fault = "none"
  BY DEF Init
<1>2. /\ Freed = {} /\ Live = {"backend"} /\ ~Lives("ports") /\ ~Lives("app")
  BY <1>1 DEF Freed, Live, Lives, Resource
<1>3. /\ Rank("frontend_init") = 0 /\ Rank("free_backend") = 9
      /\ Rank("open_world") = IF cfg.frontend = "console" THEN 0 ELSE 1
      /\ Rank("frontend_run") = IF cfg.frontend = "console" THEN 0 ELSE 1
      /\ Rank("frontend_close") = IF cfg.frontend = "console" THEN 1 ELSE 8
  <2>1. "frontend_init" \notin Closers
    BY DEF Closers, Openers
  <2>2. Rank("frontend_init") = 0
    BY <2>1 DEF Rank
  <2>3. "open_world" \in Openers
    BY DEF Openers
  <2> QED
    BY <2>2, <2>3, RanksOf
<1>4. /\ Once(todo) /\ ~Has(todo, Prompts) /\ Has(todo, {"free_backend"})
      /\ Head(todo) = "frontend_init" => cfg.frontend # "internal"
  <2>1. CASE cfg.frontend = "internal"
    <3> DEFINE p == <<"open_world", "free_backend">>
    <3>1. todo = p
      BY <2>1 DEF Init
    <3>2. p \in Seq(Steps) /\ Len(p) = 2 /\ p[1] = "open_world" /\ p[2] = "free_backend"
          /\ Head(p) = "open_world"
      BY DEF Steps
    <3> HIDE DEF p
    <3>3. MayFollow("open_world", "free_backend")
      BY <1>3, <2>1 DEF MayFollow
    <3>4. Once(p)
      BY <3>2, <3>3 DEF Once
    <3>5. ~Has(p, Prompts) /\ Has(p, {"free_backend"})
      BY <3>2 DEF Has, Prompts
    <3> QED
      BY <3>1, <3>2, <3>4, <3>5
  <2>2. CASE cfg.frontend # "internal"
    <3> DEFINE p == <<"frontend_init", "frontend_run", "frontend_close", "free_backend">>
    <3>1. todo = p
      BY <2>2 DEF Init
    <3>2. p \in Seq(Steps) /\ Len(p) = 4 /\ p[1] = "frontend_init" /\ p[2] = "frontend_run"
          /\ p[3] = "frontend_close" /\ p[4] = "free_backend"
      BY DEF Steps
    <3> HIDE DEF p
    <3>3. /\ MayFollow(p[1], p[2]) /\ MayFollow(p[1], p[3]) /\ MayFollow(p[1], p[4])
          /\ MayFollow(p[2], p[3]) /\ MayFollow(p[2], p[4]) /\ MayFollow(p[3], p[4])
      BY <1>3, <3>2 DEF MayFollow
    <3>4. Once(p)
      <4> SUFFICES ASSUME NEW i \in 1..4, NEW j \in 1..4, i < j PROVE MayFollow(p[i], p[j])
        BY <3>2 DEF Once
      <4>1. \/ i = 1 /\ j \in {2, 3, 4}
            \/ i = 2 /\ j \in {3, 4}
            \/ i = 3 /\ j = 4
        OBVIOUS
      <4> QED
        BY <3>3, <4>1
    <3>5. ~Has(p, Prompts) /\ Has(p, {"free_backend"})
      BY <3>2 DEF Has, Prompts
    <3> QED
      BY <2>2, <3>1, <3>4, <3>5
  <2> QED
    BY <2>1, <2>2
<1>5. ClosesOnce
  BY <1>2, <1>4 DEF ClosesOnce, Stranded, Has
<1>6. Silent
  BY <1>1, <1>4 DEF Silent
<1>7. FailsWell
  BY <1>1, <1>2, <1>4 DEF FailsWell
<1>8. Awaited
  BY <1>2, <1>4 DEF Awaited, Freers
<1> QED
  BY <1>1, <1>5, <1>6, <1>7, <1>8 DEF FlowInv, KnownMisuse

\* Every step of every thread keeps it.
LEMMA FlowStep == SessionInv /\ FlowInv /\ FailuresKnown /\ [Next]_vars => FlowInv'
<1> SUFFICES ASSUME SessionInv, FlowInv, FailuresKnown, [Next]_vars PROVE FlowInv'
  OBVIOUS
<1>1. CASE UNCHANGED vars
  <2>1. /\ todo' = todo /\ cfg' = cfg /\ life' = life /\ failed' = failed
        /\ inside' = inside /\ fault' = fault
    BY <1>1 DEF vars
  <2>2. KnownMisuse'
    BY <2>1 DEF FlowInv, KnownMisuse
  <2> QED
    BY <2>1, <2>2, SameFlow
<1>2. CASE Open
  BY <1>2, OpenStepsFlow, ActivateProcessFlow DEF Open
<1>3. CASE Shut
  BY <1>3, StopsFlow, UnbufferFlow, CloseClientFlow, FreesFlow DEF Shut
<1>4. CASE Loops
  BY <1>4, UiFlow, UpdatesFlow, LoopsFlow, EndsFlow, QuitAppFlow DEF Loops
<1>5. CASE Main
  BY <1>2, <1>3, <1>4, <1>5, FrontendInitFlow, FrontendRunFlow, EndsFlow, FreeBackendFlow,
     StartsFlow, AskPauseFlow, LoopsFlow, UseAfterFreeFlow DEF Main
<1>6. CASE ProcessGate \/ BufferSize \/ Signal \/ ServerShutdown
  BY <1>6, OthersFlow
<1> QED
  BY <1>1, <1>5, <1>6 DEF Next

-----------------------------------------------------------------------------
(* The values, and the sizes of the buffers                                *)

\* The values at the start
LEMMA KindsStart == Init => KindsKnown /\ SizesFit
<1> SUFFICES ASSUME Init PROVE KindsKnown /\ SizesFit
  OBVIOUS
<1>1. life["buffers"] = "unset"
  BY DEF Init, Resource
<1>2. KindsKnown
  <2>1. done = 0 /\ posts = 0 /\ 0 \in 0..MaxPosts
    BY SessionAssumption DEF Init
  <2>2. /\ running \in BOOLEAN /\ missed \in BOOLEAN /\ inside \in BOOLEAN
        /\ gate \in {"open", "asked", "shut", "resume"}
        /\ size \in Sizes /\ bufs \in Sizes \union {0}
        /\ failed = "none" /\ fault = "none"
    BY DEF Init
  <2>3. done \in Nat /\ posts \in 0..MaxPosts /\ done <= posts
    BY <2>1
  <2> QED
    BY <2>2, <2>3 DEF KindsKnown
<1>3. SizesFit
  BY <1>1 DEF Init, SizesFit, Lives
<1> QED
  BY <1>2, <1>3

\* The steps that look at none of these
Idle == UNCHANGED <<posts, running, gate, size, bufs, missed, failed, fault>>

\* Every step keeps them, and posts of `done` are taken once.
LEMMA KindsStep == KindsKnown /\ [Next]_vars => KindsKnown'
<1> SUFFICES ASSUME KindsKnown, [Next]_vars PROVE KindsKnown'
  OBVIOUS
<1>0. /\ done \in Nat /\ posts \in 0..MaxPosts /\ done <= posts /\ MaxPosts \in Nat
  BY SessionAssumption DEF KindsKnown
<1>1. ASSUME Idle, done' = done \/ done' = 0 \/ TryWait, inside' \in {inside, TRUE}
      PROVE  KindsKnown'
  <2>1. done' \in Nat /\ done' <= done
    <3>1. done' = done \/ done' = 0 \/ (done > 0 /\ done' = done - 1)
      BY <1>1 DEF TryWait
    <3>2. done \in Nat
      BY <1>0
    <3> QED
      BY <3>1, <3>2
  <2>2. inside' \in BOOLEAN
    <3>1. inside \in BOOLEAN
      BY DEF KindsKnown
    <3> QED
      BY <1>1, <3>1
  <2>3. /\ running' = running /\ missed' = missed /\ gate' = gate /\ size' = size
        /\ bufs' = bufs /\ failed' = failed /\ fault' = fault
    BY <1>1 DEF Idle
  <2>4. posts' \in 0..MaxPosts /\ done' <= posts'
    <3>1. posts' = posts
      BY <1>1 DEF Idle
    <3> QED
      BY <1>0, <2>1, <3>1
  <2> QED
    BY <2>1, <2>2, <2>3, <2>4 DEF KindsKnown
<1>2. ASSUME UNCHANGED <<done, posts, fault>>, inside' = inside,
             running' \in {running, TRUE, FALSE},
             gate' \in {gate, "open", "asked", "shut", "resume"},
             size' \in Sizes, bufs' \in {bufs, size, size'}, missed' \in {missed, ~running},
             failed' \in {failed, "plugin", "ui", "ports", "backend", "features", "instance"}
      PROVE  KindsKnown'
  <2>1. running' \in BOOLEAN /\ missed' \in BOOLEAN /\ inside' \in BOOLEAN
    <3>1. running \in BOOLEAN /\ missed \in BOOLEAN /\ inside \in BOOLEAN
      BY DEF KindsKnown
    <3>2. running' \in BOOLEAN
      BY <1>2, <3>1
    <3>3. missed' \in BOOLEAN
      BY <1>2, <3>1
    <3> QED
      BY <1>2, <3>1, <3>2, <3>3
  <2>2. gate' \in {"open", "asked", "shut", "resume"} /\ bufs' \in Sizes \union {0}
    BY <1>2 DEF KindsKnown
  <2>3. failed' \in {"none", "plugin", "ui", "ports", "backend", "features", "instance"}
    BY <1>2 DEF KindsKnown
  <2>4. done' \in Nat /\ posts' \in 0..MaxPosts /\ done' <= posts'
    BY <1>0, <1>2
  <2>5. fault' \in {"none", "freed", "null", "posted"}
    BY <1>2 DEF KindsKnown
  <2> QED
    BY <1>2, <2>1, <2>2, <2>3, <2>4, <2>5 DEF KindsKnown
<1>3. ASSUME Post, inside' = inside,
             UNCHANGED <<running, gate, size, bufs, missed, failed>>
      PROVE  KindsKnown'
  <2>1. /\ posts' \in 0..MaxPosts /\ done' \in Nat /\ done' <= posts'
        /\ fault' \in {fault, "posted"}
    BY <1>0, <1>3 DEF Post
  <2> QED
    BY <1>3, <2>1 DEF KindsKnown
<1>4. ASSUME UNCHANGED <<done, posts, inside, running, gate, size, bufs, missed, failed>>,
             fault' \in {fault, "freed", "null"}
      PROVE  KindsKnown'
  BY <1>4 DEF KindsKnown
<1>5. size \in Sizes /\ size' \in {size} => size' \in Sizes
  BY DEF KindsKnown
<1>6. CASE UNCHANGED vars
  BY <1>1, <1>6 DEF vars, Idle
<1>7. CASE \/ FrontendInit \/ FrontendRun \/ CallFrontendClose \/ FreeBackend \/ OpenWorld
  BY <1>1, <1>7 DEF FrontendInit, FrontendRun, CallFrontendClose, FreeBackend, OpenWorld,
                   world, engine, story, Idle
<1>8. CASE \/ FindPlugin \/ ChooseUi \/ InitProcess \/ CreatePorts
  BY <1>2, <1>5, <1>8 DEF FindPlugin, ChooseUi, InitProcess, CreatePorts, Fail,
                   world, engine, story, KindsKnown
<1>9. CASE \/ OpenBackend \/ CheckFeatures \/ Instantiate \/ ActivateProcess
  BY <1>2, <1>5, <1>9 DEF OpenBackend, CheckFeatures, Instantiate, ActivateProcess, Fail,
                   world, engine, story, KindsKnown
<1>10. CASE \/ Launch \/ StartAudio \/ SetRunning \/ StopAudio \/ StopPlugin \/ StopWorker
           \/ AskPause \/ ApplyState \/ ProcessGate \/ BufferSize
  BY <1>2, <1>5, <1>10 DEF Launch, StartAudio, SetRunning, StopAudio, StopPlugin, StopWorker,
                   AskPause, ApplyState, ProcessGate, BufferSize, world, engine, story, KindsKnown
<1>11. CASE Unbuffer \/ UseAfterFree
  BY <1>4, <1>11 DEF Unbuffer, UseAfterFree, world, engine, story
<1>12. CASE CloseClient \/ FreePlugin \/ FreeProcess \/ FreeWorld
  BY <1>1, <1>12 DEF CloseClient, FreePlugin, FreeProcess, FreeWorld, world, engine, story, Idle
<1>13. CASE Loops
  <2>1. CASE FirstUpdate \/ ConsoleUpdate \/ UiUpdate \/ GtkTimer \/ QtTimer
    BY <1>1, <2>1 DEF FirstUpdate, ConsoleUpdate, UiUpdate, GtkTimer, QtTimer, Update,
                      world, engine, Idle
  <2>2. CASE CheckDone \/ Wait \/ UiCheck \/ Poll \/ UiIdle
    BY <1>1, <2>2 DEF CheckDone, Wait, UiCheck, Poll, UiIdle, world, engine, story, Idle
  <2>3. CASE \/ EnterConsole \/ OpenWindow \/ CloseWindow \/ OpenDialog \/ CloseDialog
             \/ RefreshWindow
    BY <1>1, <2>3 DEF EnterConsole, OpenWindow, CloseWindow, OpenDialog, CloseDialog,
                      RefreshWindow, world, engine, story, Idle
  <2>4. CASE AppShutdown \/ QuitApp \/ QuitLoop \/ QtLeave \/ Unload
    BY <1>1, <2>4 DEF AppShutdown, QuitApp, QuitLoop, QtLeave, Unload, world, engine, story, Idle
  <2> QED
    BY <1>13, <2>1, <2>2, <2>3, <2>4 DEF Loops
<1>14. CASE Signal \/ ServerShutdown
  BY <1>3, <1>14 DEF Signal, ServerShutdown, engine
<1> QED
  BY <1>6, <1>7, <1>8, <1>9, <1>10, <1>11, <1>12, <1>13, <1>14 DEF Next, Main, Open, Shut

\* The buffers are made and changed with the size.
LEMMA SizesStep == KindsKnown /\ SizesFit /\ [Next]_vars => SizesFit'
<1> SUFFICES ASSUME KindsKnown, SizesFit, [Next]_vars PROVE SizesFit'
  OBVIOUS
<1>0. /\ size \in Sizes /\ \A n \in Sizes : n # 0
  BY SessionAssumption DEF KindsKnown
<1>1. ASSUME UNCHANGED <<size, bufs, missed>>, life'["buffers"] = "live" => Lives("buffers")
      PROVE  SizesFit'
  BY <1>1 DEF SizesFit, Lives
<1>2. ASSUME NEW R, life' = With(R, "live") \/ life' = life, "buffers" \notin R
      PROVE  life'["buffers"] = "live" => Lives("buffers")
  BY <1>2 DEF With, Lives, Resource
<1>3. ASSUME NEW R, NEW state, state # "live", life' = With(R, state) \/ life' = life
      PROVE  life'["buffers"] = "live" => Lives("buffers")
  BY <1>3 DEF With, Lives, Resource
<1>4. CASE BufferSize
  BY <1>0, <1>4 DEF BufferSize, SizesFit, Lives
<1>5. CASE ActivateProcess
  BY <1>0, <1>5 DEF ActivateProcess, SizesFit
<1>6. CASE \/ UNCHANGED vars \/ FrontendRun \/ CallFrontendClose \/ FindPlugin \/ ChooseUi
           \/ Launch \/ StartAudio \/ SetRunning \/ StopAudio \/ StopPlugin \/ StopWorker
           \/ AskPause \/ ApplyState \/ ProcessGate \/ UseAfterFree \/ Signal \/ ServerShutdown
  <2>1. UNCHANGED <<size, bufs, missed>> /\ life' = life
    BY <1>6 DEF vars, FrontendRun, CallFrontendClose, FindPlugin, ChooseUi, Launch,
                StartAudio, SetRunning, StopAudio, StopPlugin, StopWorker, AskPause,
                ApplyState, ProcessGate, UseAfterFree, Signal, ServerShutdown, world,
                engine, story
  <2> QED
    BY <1>1, <2>1 DEF Lives
<1>7. CASE \/ FrontendInit \/ OpenWorld \/ InitProcess \/ CreatePorts \/ OpenBackend
           \/ CheckFeatures \/ Instantiate \/ EnterConsole \/ OpenWindow
  <2>1. UNCHANGED <<size, bufs, missed>>
    BY <1>7 DEF FrontendInit, OpenWorld, InitProcess, CreatePorts, OpenBackend,
                CheckFeatures, Instantiate, EnterConsole, OpenWindow, engine
  <2>2. \E R : (life' = With(R, "live") \/ life' = life) /\ "buffers" \notin R
    BY <1>7 DEF FrontendInit, OpenWorld, InitProcess, CreatePorts, OpenBackend,
                CheckFeatures, Instantiate, EnterConsole, OpenWindow
  <2> QED
    BY <1>1, <1>2, <2>1, <2>2
<1>8. CASE \/ Unbuffer \/ CloseClient \/ FreePlugin \/ FreeProcess \/ FreeWorld
           \/ FreeBackend \/ QuitApp
  <2>1. UNCHANGED <<size, bufs, missed>>
    BY <1>8 DEF Unbuffer, CloseClient, FreePlugin, FreeProcess, FreeWorld, FreeBackend,
                QuitApp, engine
  <2>2. \E R, state : state # "live" /\ (life' = With(R, state) \/ life' = life)
    BY <1>8 DEF Unbuffer, CloseClient, FreePlugin, FreeProcess, FreeWorld, FreeBackend,
                QuitApp, Free
  <2> QED
    BY <1>1, <1>3, <2>1, <2>2
<1>9. CASE \/ FirstUpdate \/ ConsoleUpdate \/ UiUpdate \/ GtkTimer \/ QtTimer
           \/ CheckDone \/ Wait \/ UiCheck \/ Poll \/ UiIdle \/ CloseWindow \/ OpenDialog
           \/ CloseDialog \/ RefreshWindow \/ AppShutdown \/ QuitLoop \/ QtLeave \/ Unload
  <2>1. UNCHANGED <<size, bufs, missed>> /\ life' = life
    BY <1>9 DEF FirstUpdate, ConsoleUpdate, UiUpdate, GtkTimer, QtTimer, Update, CheckDone,
                Wait, UiCheck, Poll, UiIdle, CloseWindow, OpenDialog, CloseDialog,
                RefreshWindow, AppShutdown, QuitLoop, QtLeave, Unload, world, engine, story
  <2> QED
    BY <1>1, <2>1 DEF Lives
<1> QED
  BY <1>4, <1>5, <1>6, <1>7, <1>8, <1>9 DEF Next, Main, Open, Shut, Loops

-----------------------------------------------------------------------------
(* How the session goes                                                    *)

\* What the list of steps promises holds in every run.
THEOREM SessionGoes == Spec => [](FlowInv /\ KindsKnown /\ SizesFit)
<1>1. SessionInv /\ (FlowInv /\ KindsKnown /\ SizesFit) /\ [Next]_vars =>
        (FlowInv /\ KindsKnown /\ SizesFit)'
  BY FlowStep, KindsStep, SizesStep DEF KindsKnown, FailuresKnown
<1> QED
  BY SessionSafe, FlowStart, KindsStart, <1>1, PTL DEF Spec

\* Every variable of the session keeps a value of its kind.
THEOREM SessionTypeCorrect == Spec => []TypeOK
<1>1. SessionInv /\ KindsKnown => TypeOK
  <2> SUFFICES ASSUME SessionInv, KindsKnown PROVE TypeOK
    OBVIOUS
  <2>1. /\ cfg \in Configurations /\ life \in [Resource -> {"unset", "live", "freed"}]
        /\ {audio, server, guest, active, thread} \subseteq BOOLEAN
    BY DEF SessionInv, KindsOK
  <2>2. todo \in Seq(Steps)
    BY AllowedSteps
  <2>3. done \in 0..MaxPosts /\ posts \in 0..MaxPosts
    BY SessionAssumption DEF KindsKnown
  <2> QED
    BY <2>1, <2>2, <2>3 DEF TypeOK, KindsKnown
<1> QED
  BY SessionSafe, SessionGoes, <1>1, PTL

\* Memory is misused only where jalv_update closes within the loop of the
\* console or of GTK, and where a failed jalv_open is closed anyway.
THEOREM MisuseIsKnown == Spec => []KnownMisuse
<1>1. FlowInv => KnownMisuse
  BY DEF FlowInv
<1> QED
  BY SessionGoes, <1>1, PTL

\* The event buffers of a running plugin have the server's size, unless that
\* changed when it did not run.
THEOREM BuffersHaveSize == Spec => []BuffersFit
<1>1. SessionInv /\ SizesFit => BuffersFit
  <2> SUFFICES ASSUME SessionInv, SizesFit, audio, ~missed PROVE bufs = size
    BY DEF BuffersFit
  <2>1. Lives("buffers")
    BY DEF SessionInv, LifeOK
  <2> QED
    BY <2>1 DEF SizesFit
<1> QED
  BY SessionSafe, SessionGoes, <1>1, PTL

\* A session that opened and ended well leaves nothing behind but Qt's app.
THEOREM NothingIsLeft == Spec => []NothingLeft
<1>1. FlowInv => NothingLeft
  <2> SUFFICES ASSUME FlowInv, todo = <<>>, failed = "none", NEW r \in Live
               PROVE  cfg.frontend = "qt" /\ r = "app"
    BY DEF NothingLeft
  <2>1. \A E : ~Has(todo, E)
    BY DEF Has
  <2> QED
    BY <2>1 DEF FlowInv, Awaited
<1> QED
  BY SessionGoes, <1>1, PTL
=============================================================================
