------------------------------ MODULE ExprGraph ------------------------------
(***************************************************************************)
(* The lazy expression graph (express/Expr.cpp, Executor.cpp, Utils.cpp).  *)
(* An expression is an input, a constant, or an operator applied to other  *)
(* expressions.  Shapes and contents are computed when they are asked for  *)
(* and kept: shapes in the Inside of an expression, contents in a          *)
(* ComputeCache, which is a session compiled for some expressions with     *)
(* what they need and no other session computes.  Writing, resizing,       *)
(* feeding and fixing must invalidate all that depends on the change.      *)
(*                                                                         *)
(* Data are symbolic: the shape or content of an operator is the tuple of  *)
(* what it was computed from, so that whatever is stale shows.             *)
(***************************************************************************)
EXTENDS SequencesExt, Naturals

CONSTANTS
  Exprs,     \* the expressions
  Nil,       \* nullptr; no shape; no content
  Graphs,    \* what the user has built: the inputs of each expression and
             \* what it needs of each; the inputs that are written and those
             \* that are resized; what is fed to which input; the lists of
             \* variables that are prepared; the variables that are fixed
  Shapes,    \* bound: the shapes that the user gives to inputs
  Contents   \* bound: the contents that the user writes

(* Executor::Requirement.  Of an input, an operator needs the content for  *)
(* its content, or the content for its shape, or ("neither") the shape.    *)
ASSUME ExprAssumption ==
  \A g \in Graphs : \A e \in Exprs :
    /\ Len(g.ins[e]) = Len(g.need[e])
    /\ Range(g.need[e]) \subseteq {"content", "shape", "neither"}

VARIABLES
  expr,   \* mInputs, mType, mValid, mTo, and the Inside: mReq, mInfoDirty,
          \* mContentDirty, mCache, mOutputInfos, mOutputTensors
  cache,  \* the ComputeCaches, each with its session
  plan    \* the graph of Graphs that was built

vars == <<expr, cache, plan>>

(* The operators below take and return the state as a record *)
graph == [expr |-> expr, cache |-> cache]
Becomes(g) == /\ expr' = g.expr
              /\ cache' = g.cache
              /\ UNCHANGED plan

IsOp(g, e) == g.expr[e].ins # <<>>

Init ==
  /\ plan \in Graphs
  /\ cache = <<>>
  /\ \E shape \in [{e \in Exprs : plan.ins[e] = <<>>} -> Shapes] :
       expr = [e \in Exprs |->
         [ins |-> plan.ins[e], need |-> plan.need[e], type |-> "INPUT",
          to |-> SetToSeq({o \in Exprs : e \in Range(plan.ins[o])}),
          valid |-> TRUE, infoDirty |-> plan.ins[e] # <<>>, contentDirty |-> TRUE,
          info |-> IF plan.ins[e] = <<>> THEN shape[e] ELSE Nil,
          data |-> Nil, cache |-> Nil]]

Ok(g) == [g |-> g, ok |-> TRUE]
Fail(g) == [g |-> g, ok |-> FALSE]

-----------------------------------------------------------------------------
(* What operators compute.  One that needs contents for its shape has a    *)
(* shape of its own; the others want inputs of one shape and keep it.      *)
OpShape(op, need, shapes, datas) ==
  LET I == DOMAIN need
      fromContent == {i \in I : need[i] = "shape"}
  IN  CASE \E i \in fromContent : datas[i] = Nil -> Nil
        [] fromContent # {} ->
             <<op, [i \in I |-> IF i \in fromContent THEN datas[i] ELSE shapes[i]]>>
        [] "neither" \in Range(need) -> op
        [] OTHER -> IF \A i, j \in I : shapes[i] = shapes[j] THEN shapes[1] ELSE Nil

OpData(op, shape, need, shapes, datas) ==
  LET I == DOMAIN need IN
  IF shape = Nil \/ \E i \in I : need[i] = "content" /\ datas[i] = Nil THEN Nil
  ELSE <<op, shape, [i \in I |-> CASE need[i] = "content" -> datas[i]
                                   [] need[i] = "neither" -> shapes[i]
                                   [] OTHER -> Nil]>>

(* Variable::getTensor: the tensor of the session that computes e, or of   *)
(* its Inside                                                              *)
TensorOf(g, e) ==
  IF g.expr[e].cache # Nil THEN <<"cache", g.expr[e].cache>> ELSE <<"inside", e>>

ShapeAt(g, tensor) ==
  IF tensor[1] = "inside" THEN g.expr[tensor[2]].info
  ELSE g.cache[tensor[2][1]].shape[tensor[2][2]]

DataAt(g, tensor) ==
  IF tensor[1] = "inside" THEN g.expr[tensor[2]].data
  ELSE g.cache[tensor[2][1]].data[tensor[2][2]]

-----------------------------------------------------------------------------
(* Executor::_makeCache: a session for the targets and for the operators   *)
(* whose content they need and that no session computes, inputs first.     *)
Uncompiled(g, e, i) ==
  /\ g.expr[e].need[i] = "content"
  /\ IsOp(g, g.expr[e].ins[i])
  /\ g.expr[g.expr[e].ins[i]].cache = Nil

RECURSIVE Members(_, _, _)
Members(g, done, e) ==
  IF e \in Range(done) THEN done
  ELSE Append(FoldLeft(LAMBDA acc, i : IF Uncompiled(g, e, i)
                                       THEN Members(g, acc, g.expr[e].ins[i])
                                       ELSE acc,
                       done, [i \in DOMAIN g.expr[e].ins |-> i]),
              e)

MakeCache(g, targets) ==
  LET used == DOMAIN g.cache
      c == <<targets[1],
             CHOOSE n \in 1 .. Cardinality(used) + 1 : <<targets[1], n>> \notin used>>
      order == FoldLeft(LAMBDA acc, e : Members(g, acc, e), <<>>, targets)
      needed == UNION {{g.expr[m].ins[i] : i \in {i \in DOMAIN g.expr[m].ins :
                                                    g.expr[m].need[i] = "content"}}
                       : m \in Range(order)}
      session ==
        [order |-> order,
         need |-> [m \in Range(order) |-> g.expr[m].need],
         tensors |-> [m \in Range(order) |-> [i \in DOMAIN g.expr[m].ins |->
                        IF Uncompiled(g, m, i) THEN <<"cache", <<c, g.expr[m].ins[i]>>>>
                        ELSE TensorOf(g, g.expr[m].ins[i])]],
         inputs |-> {g.expr[e].cache[1] : e \in {e \in needed : g.expr[e].cache # Nil}},
         sources |-> {e \in needed : ~IsOp(g, e) /\ g.expr[e].type = "INPUT"},
         shapeDirty |-> TRUE, contentDirty |-> TRUE, ready |-> FALSE,
         shape |-> [m \in Range(order) |-> g.expr[m].info],
         data |-> [m \in Range(order) |-> Nil]]
  IN  [expr |-> FoldLeft(LAMBDA acc, e : [acc EXCEPT ![e].cache = <<c, e>>], g.expr, targets),
       cache |-> (c :> session) @@ g.cache]

(* A ComputeCache lives while an expression or a cache that lives needs it *)
RECURSIVE Reached(_, _)
Reached(g, cs) ==
  LET more == cs \cup UNION {g.cache[c].inputs : c \in cs}
  IN  IF more = cs THEN cs ELSE Reached(g, more)

SessionsOf(e) == IF expr[e].cache = Nil THEN {} ELSE Reached(graph, {expr[e].cache[1]})

Cleaned(g) ==
  LET alive == Reached(g, {g.expr[e].cache[1] : e \in {e \in Exprs : g.expr[e].cache # Nil}})
  IN  [g EXCEPT !.cache = FoldSet(LAMBDA c, acc : (c :> g.cache[c]) @@ acc, <<>>, alive)]

-----------------------------------------------------------------------------
(* ComputeCache::resize: the sessions of the inputs first, then resizeImpl, *)
(* which does not look at how Session::resize ends: a session that could   *)
(* not be resized will not run.  (mInfoDirty of a source is never set.)    *)
Reshaped(g, c) ==
  LET k == g.cache[c]
      known(acc, t) == IF t \in {<<"cache", <<c, m>>>> : m \in DOMAIN acc}
                       THEN acc[t[2][2]] ELSE ShapeAt(g, t)
      shapeOf(acc, m) ==
        LET T == k.tensors[m] IN
        OpShape(m, k.need[m], [i \in DOMAIN T |-> known(acc, T[i])],
                              [i \in DOMAIN T |-> DataAt(g, T[i])])
      shape == FoldLeft(
        LAMBDA acc, m : IF ~acc.ok THEN acc
                        ELSE [ok |-> shapeOf(acc.shape, m) # Nil,
                              shape |-> (m :> shapeOf(acc.shape, m)) @@ acc.shape],
        [ok |-> TRUE, shape |-> k.shape], k.order)
  IN  [g EXCEPT !.cache[c] =
         [k EXCEPT !.shapeDirty = FALSE, !.contentDirty = TRUE, !.ready = shape.ok,
                   !.shape = shape.shape, !.data = [m \in DOMAIN k.data |-> Nil]]]

RECURSIVE Resized(_, _)
Resized(g, c) ==
  IF ~g.cache[c].shapeDirty THEN g
  ELSE Reshaped(FoldSet(LAMBDA d, acc : Resized(acc, d), g, g.cache[c].inputs), c)

(* Session::run *)
Run(g, c) ==
  LET k == g.cache[c]
      own == {<<"cache", <<c, m>>>> : m \in DOMAIN k.data}
      contentOf(acc, m) ==
        LET T == k.tensors[m] IN
        OpData(m, k.shape[m], k.need[m],
               [i \in DOMAIN T |-> ShapeAt(g, T[i])],
               [i \in DOMAIN T |-> IF T[i] \in own THEN acc[T[i][2][2]] ELSE DataAt(g, T[i])])
  IN  IF ~k.ready THEN Fail(g)
      ELSE Ok([g EXCEPT !.cache[c].contentDirty = FALSE,
                        !.cache[c].data =
                          FoldLeft(LAMBDA acc, m : (m :> contentOf(acc, m)) @@ acc,
                                   k.data, k.order)])

(* ComputeCache::compute *)
RECURSIVE Computed(_, _)
Computed(g, c) ==
  LET run(inputs) == IF inputs.ok THEN Run(inputs.g, c) ELSE inputs
      resized(h) ==
        IF ~h.cache[c].contentDirty THEN Ok(h)
        ELSE run(FoldSet(LAMBDA d, acc : IF acc.ok THEN Computed(acc.g, d) ELSE acc,
                         Ok(h), h.cache[c].inputs))
  IN  IF \E e \in g.cache[c].sources : g.expr[e].contentDirty THEN Fail(g)
      ELSE resized(Resized(g, c))

-----------------------------------------------------------------------------
(* The session of an operator, compiled for it alone if there is none yet, *)
(* is computed                                                             *)
ComputedFor(g, e) ==
  LET computed(h) == Computed(h, h.expr[e].cache[1])
  IN  computed(IF g.expr[e].cache = Nil THEN MakeCache(g, <<e>>) ELSE g)

(* Executor::computeInfo, with what was read for it *)
ComputedInfo(r, e) ==
  LET ins == r.g.expr[e].ins
      shape == OpShape(e, r.g.expr[e].need,
                       [i \in DOMAIN ins |-> r.g.expr[ins[i]].info], r.data)
  IN  IF ~r.ok THEN Fail(r.g)
      ELSE IF shape = Nil THEN Fail([r.g EXCEPT !.expr[e].valid = FALSE])
      ELSE Ok([r.g EXCEPT !.expr[e].info = shape, !.expr[e].infoDirty = FALSE])

(* Expr::requireInfo and Variable::readInternal, which call each other *)
RECURSIVE RequireInfo(_, _), Read(_, _)
RequireInfo(g, e) ==
  LET ins == g.expr[e].ins
      add(acc, r) == [g |-> r.g, ok |-> r.data # Nil, data |-> Append(acc.data, r.data)]
      read(acc, i) ==
        IF ~acc.ok THEN acc
        ELSE add(acc, IF g.expr[e].need[i] = "shape" THEN Read(acc.g, ins[i])
                      ELSE [g |-> acc.g, data |-> "unread"])
      informed(r) ==
        IF ~r.ok THEN Fail([r.g EXCEPT !.expr[e].valid = FALSE])
        ELSE ComputedInfo(FoldLeft(read, [g |-> r.g, ok |-> TRUE, data |-> <<>>],
                                   [i \in DOMAIN ins |-> i]),
                          e)
  IN  CASE ~g.expr[e].infoDirty -> Ok(g)
        [] ~g.expr[e].valid -> Fail(g)
        [] OTHER -> informed(FoldLeft(LAMBDA acc, x : IF acc.ok THEN RequireInfo(acc.g, x)
                                                      ELSE acc,
                                      Ok(g), ins))

Read(g, e) ==
  LET own == g.expr[e]
      result(r) == [g |-> r.g, data |-> IF r.ok THEN DataAt(r.g, TensorOf(r.g, e)) ELSE Nil]
      informed(r) == result(IF r.ok THEN ComputedFor(r.g, e) ELSE r)
  IN  IF IsOp(g, e) THEN informed(RequireInfo(g, e))
      ELSE [g |-> g, data |-> IF own.type = "INPUT" /\ own.contentDirty THEN Nil ELSE own.data]

-----------------------------------------------------------------------------
(* Mutant: the session is forgotten. *)
InfoDirtiedOnly(g, e) ==
  [g EXCEPT !.expr[e].infoDirty = TRUE, !.expr[e].contentDirty = TRUE, !.expr[e].valid = TRUE]

(* Expr::setInfoDirty, when it goes on *)
InfoDirtied(g, e) ==
  [expr |-> [g.expr EXCEPT ![e].infoDirty = TRUE, ![e].contentDirty = TRUE, ![e].valid = TRUE],
   cache |-> IF g.expr[e].cache = Nil THEN g.cache
             ELSE [g.cache EXCEPT ![g.expr[e].cache[1]].shapeDirty = TRUE]]

(* Mutants: what failed stays so; what has no session is passed over. *)
AlreadyDirtyAnyway(g, e) == g.expr[e].infoDirty
AlreadyDirtyUncompiled(g, e) ==
  (g.expr[e].infoDirty /\ g.expr[e].valid) \/ g.expr[e].cache = Nil

(* Expr::setInfoDirty, when it stops *)
AlreadyDirty(g, e) == g.expr[e].infoDirty /\ g.expr[e].valid

SetInfoDirty(g, e) == IF AlreadyDirty(g, e) THEN g ELSE InfoDirtied(g, e)

(* visitOutputs with setInfoDirty *)
RECURSIVE Spread(_, _)
Spread(g, e) ==
  FoldLeft(LAMBDA acc, o : IF AlreadyDirty(acc, o) THEN acc ELSE Spread(InfoDirtied(acc, o), o),
           g, g.expr[e].to)

(* Variable::informDirty: each expression is visited once, for the first   *)
(* of its inputs that is e                                                 *)
RECURSIVE Inform(_, _)
Inform(s, e) ==
  LET visited(acc, o) == [acc EXCEPT !.seen = @ \cup {o}]
      dirtied(acc, o) ==
        IF acc.g.expr[o].cache = Nil THEN acc
        ELSE [acc EXCEPT !.g.cache[acc.g.expr[o].cache[1]].contentDirty = TRUE]
      need(o) == s.g.expr[o].need[CHOOSE i \in DOMAIN s.g.expr[o].ins :
                   /\ s.g.expr[o].ins[i] = e
                   /\ \A j \in 1 .. i - 1 : s.g.expr[o].ins[j] # e]
  IN  FoldLeft(LAMBDA acc, o :
                 CASE o \in acc.seen -> acc
                   [] need(o) = "shape" ->
                        [visited(acc, o) EXCEPT !.g = Spread(SetInfoDirty(@, o), o)]
                   [] need(o) = "content" -> Inform(dirtied(visited(acc, o), o), o)
                   [] OTHER -> visited(acc, o),
               s, s.g.expr[e].to)

Informed(g, e) == Inform([g |-> g, seen |-> {}], e).g

RECURSIVE Downstream(_, _)
Downstream(g, e) ==
  UNION {{o} \cup Downstream(g, o) : o \in Range(g.expr[e].to)}
-----------------------------------------------------------------------------
IsInput(e) == ~IsOp(graph, e) /\ expr[e].type = "INPUT"

Stored(g, e, content) ==
  [g EXCEPT !.expr[e].data = content, !.expr[e].contentDirty = FALSE]

Reallocated(g, e, shape) == [g EXCEPT !.expr[e].info = shape, !.expr[e].data = Nil]

(* Variable::writeMap of an input *)
Write(x, content) ==
  /\ IsInput(x)
  /\ Becomes(Stored(Informed(graph, x), x, content))

(* Variable::resize of an input *)
Resize(x, shape) ==
  /\ IsInput(x)
  /\ expr[x].info # shape
  /\ Becomes(Spread([Reallocated(graph, x, shape)
                       EXCEPT !.expr[x].valid = TRUE, !.expr[x].contentDirty = TRUE], x))

(* Variable::input: x takes the shape and the content of src, which is     *)
(* read when the shape is already changed and nothing is dirty yet.        *)
(* Careful users feed what can be read and is not computed together with   *)
(* anything of x, and do not change the shape of an input that they have   *)
(* not written yet.                                                        *)
Input(x, src) ==
  LET feeds(read, change) ==
        /\ read.data # Nil
        /\ \A c \in SessionsOf(src) : x \notin cache[c].sources
        /\ Becomes(LET stored == Stored(read.g, x, read.data)
                   IN  IF change THEN Spread(stored, x) ELSE Informed(stored, x))
      shaped(g, shape) ==
        LET change == shape # expr[x].info
        IN  /\ ~change \/ ~expr[x].contentDirty
            /\ feeds(Read([(IF change THEN Reallocated(g, x, shape) ELSE g)
                             EXCEPT !.expr[x].contentDirty = FALSE], src),
                     change)
      informed(r) == r.ok /\ shaped(r.g, r.g.expr[src].info)
  IN  /\ IsInput(x)
      /\ informed(RequireInfo(graph, src))

(* Variable::getInfo *)
GetInfo(e) == Becomes(RequireInfo(graph, e).g)

(* Variable::readMap *)
ReadMap(e) == Becomes(Read(graph, e).g)

Prepared(g, list) ==
  LET add(acc, r, v) == [g |-> r.g, todo |-> Append(acc.todo, v)]
      made(r) == IF r.todo = <<>> THEN r.g ELSE Cleaned(MakeCache(r.g, r.todo))
  IN  made(FoldLeft(
        LAMBDA acc, v :
          IF ~IsOp(acc.g, v) \/ v \in Range(acc.todo) \/ acc.g.expr[v].cache # Nil THEN acc
          ELSE add(acc, RequireInfo(acc.g, v), v),
        [g |-> g, todo |-> <<>>], list))

(* Variable::prepareCompute *)
PrepareCompute(list) == Becomes(Prepared(graph, list))

(* Variable::compute.  It does not look at the shapes of what is compiled  *)
(* already, nor whether there were any: careful users have.                *)
Compute(list) ==
  /\ \A v \in Range(list) : ~expr[v].infoDirty
  /\ Becomes(FoldLeft(LAMBDA acc, v : IF acc.expr[v].cache = Nil THEN acc
                                      ELSE Computed(acc, acc.expr[v].cache[1]).g,
                      Prepared(graph, list), list))

(* Mutant: only the first input is unlinked. *)
UnlinkedFirst(g, e) ==
  [g.expr EXCEPT ![g.expr[e].ins[1]].to = SelectSeq(@, LAMBDA o : o # e)]

(* The inputs of e do not lead to it any more *)
Unlinked(g, e) ==
  FoldSet(LAMBDA f, acc : [acc EXCEPT ![f].to = SelectSeq(g.expr[f].to, LAMBDA o : o # e)],
          g.expr, Range(g.expr[e].ins))

(* Variable::replace of e by a constant, a clone of its tensor.  (The clone *)
(* is not a copy: it shares the memory of the session, which Fix lets die.) *)
Fixed(g, e, type) ==
  LET at == g.expr[e].cache
      constant == [g.expr[e] EXCEPT !.ins = <<>>, !.need = <<>>, !.type = type, !.valid = TRUE,
                     !.infoDirty = FALSE, !.contentDirty = FALSE, !.cache = Nil,
                     !.info = g.cache[at[1]].shape[at[2]],
                     !.data = g.cache[at[1]].data[at[2]]]
      reset == FoldSet(LAMBDA f, acc : [acc EXCEPT ![f].cache = Nil, ![f].valid = TRUE,
                                                   ![f].infoDirty = TRUE],
                       Unlinked(g, e), Downstream(g, e))
  IN  [g EXCEPT !.expr = [reset EXCEPT ![e] = constant]]

(* VARP::fix.  Careful users fix what no session that goes on computes,    *)
(* or has taken the shape of.                                              *)
Fix(e, type) ==
  LET refersTo(tensors) == \E m \in DOMAIN tensors : m = e \/ <<"inside", e>> \in Range(tensors[m])
      fixes(g) == /\ \A c \in DOMAIN g.cache : ~refersTo(g.cache[c].tensors)
                  /\ Becomes(g)
      computed(r) == IF r.ok THEN fixes(Cleaned(Fixed(r.g, e, type))) ELSE Becomes(r.g)
      informed(r) == computed(IF r.ok THEN ComputedFor(r.g, e) ELSE r)
  IN  /\ IsOp(graph, e)
      /\ informed(RequireInfo(graph, e))

Next ==
  \/ \E x \in plan.writes, content \in Contents : Write(x, content)
  \/ \E x \in plan.resizes, shape \in Shapes : Resize(x, shape)
  \/ \E feed \in plan.feeds : Input(feed[1], feed[2])
  \/ \E e \in Exprs : GetInfo(e)
  \/ \E e \in Exprs : ReadMap(e)
  \/ \E list \in plan.lists : PrepareCompute(list)
  \/ \E list \in plan.lists : Compute(list)
  \/ \E e \in plan.fixes, type \in {"INPUT", "CONSTANT"} : Fix(e, type)

Spec == Init /\ [][Next]_vars

-----------------------------------------------------------------------------
(* What the user means *)
RECURSIVE Meaning(_)
Meaning(e) ==
  LET own == expr[e]
      compute(ins) ==
        LET shapes == [i \in DOMAIN ins |-> ins[i].shape]
            datas == [i \in DOMAIN ins |-> ins[i].data]
            of(shape) == [shape |-> shape, data |-> OpData(e, shape, own.need, shapes, datas)]
        IN  of(IF Nil \in Range(shapes) THEN Nil ELSE OpShape(e, own.need, shapes, datas))
  IN  IF IsOp(graph, e) THEN compute([i \in DOMAIN own.ins |-> Meaning(own.ins[i])])
      ELSE [shape |-> own.info,
            data |-> IF own.type = "INPUT" /\ own.contentDirty THEN Nil ELSE own.data]

(* The links agree, and what a session refers to lives: its input sessions *)
(* and the tensors of other sessions, whose memory it does not own.        *)
TypeOK ==
  /\ plan \in Graphs
  /\ \A e \in Exprs :
       /\ Range(expr[e].to) = {o \in Exprs : e \in Range(expr[o].ins)}
       /\ IsOp(graph, e) => expr[e].type = "INPUT"
       /\ expr[e].cache # Nil => /\ IsOp(graph, e)
                                 /\ expr[e].cache[1] \in DOMAIN cache
                                 /\ expr[e].cache[2] = e
  /\ \A c \in DOMAIN cache :
       /\ cache[c].inputs \subseteq DOMAIN cache
       /\ \A m \in DOMAIN cache[c].tensors : \A t \in Range(cache[c].tensors[m]) :
            t[1] = "cache" => t[2][1] \in DOMAIN cache

(* Whatever was written, resized, fed, computed or fixed since the caches  *)
(* were made, what a user reads now is what the expression means: no       *)
(* change of an input is missed on any path (informDirty, setInfoDirty).   *)
ReadsFresh == \A e \in Exprs : Read(graph, e).data \in {Nil, Meaning(e).data}

(* The same of shapes (Variable::getInfo) *)
InfoFresh ==
  \A e \in Exprs : LET r == RequireInfo(graph, e)
                   IN  r.ok => r.g.expr[e].info = Meaning(e).shape

(* An expression that has a value can be read: failures, of shapes that    *)
(* did not fit or of contents that were missing, are not remembered after  *)
(* what caused them is gone (mValid, mShapeDirty).  What was prepared      *)
(* together is only computed together: all of it must have a value.        *)
ReadsAnswer ==
  \A e \in Exprs :
    (\A m \in {e} \cup UNION {DOMAIN cache[c].data : c \in SessionsOf(e)} : Meaning(m).data # Nil)
      => Read(graph, e).data # Nil
=============================================================================
