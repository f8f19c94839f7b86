---------------------------- MODULE EntityTable ----------------------------
(***************************************************************************)
(* The tables of a project's entities without history: schema.rs, ddl.rs,  *)
(* naming.rs and PlainModel (entity.rs).                                   *)
(*                                                                         *)
(* A name is the words it is made of and how they are spelled.  A value is *)
(* a text, or NULL: a set of at most one text.  What PostgreSQL does with  *)
(* texts is given by constants: Cast for the casts of `placeholder` and    *)
(* the texts `select_expr` reads back, Before for the order.               *)
(***************************************************************************)
EXTENDS Naturals, Sequences, SequencesExt

CONSTANTS
    Cast,           \* per column type: the texts it accepts, and how the
                    \* value of each is printed back
    Before(_, _)    \* the order of printed values

(* underscored: the words in lower case; their spelling is lost.           *)
Underscored(name) == name.words

(* The field the upsert's ON CONFLICT, the deletes and the reads by id     *)
(* name, and its column.                                                   *)
IdName   == [words |-> <<"id">>, spelling |-> "id"]
IdColumn == Underscored(IdName)

(* pluralize, by what a name is as a whole: one of its uncountable or of   *)
(* its irregular words, the plural of one of these that does not end in s  *)
(* (and gets one), or any other, for its rules.  A name that ends in s     *)
(* like a plural is kept.                                                  *)
Pluralize(number) ==
    CASE number = "uncountable"      -> "uncountable"
      [] number = "irregular"        -> "irregular plural"
      [] number = "irregular plural" -> "irregular plurals"
      [] number \in {"singular", "plural"} -> "plural"

TableName(entity) == [words |-> Underscored(entity), number |-> Pluralize(entity.number)]

-----------------------------------------------------------------------------
(* base_and_array and the nullability of a field; a type is its wrappers,  *)
(* the outermost first, around a name.                                     *)
EntityField(f) ==
    [name      |-> f.name,
     base_type |-> f.type.base,
     is_array  |-> \E i \in DOMAIN f.type.wrap : f.type.wrap[i] = "List",
     nullable  |-> ~IsPrefix(<<"NonNull">>, f.type.wrap)]

(* parse_entities of a document that parses: its object types marked       *)
(* @entity.                                                                *)
ParseEntities(document) ==
    LET entities == SelectSeq(document.definitions,
                              LAMBDA d : d.kind = "object" /\ "entity" \in d.directives)
    IN  [i \in DOMAIN entities |->
            [name   |-> entities[i].name,
             fields |-> [j \in DOMAIN entities[i].fields |-> EntityField(entities[i].fields[j])]]]

ColumnTypes == [ID |-> "text", String |-> "text", Int |-> "integer", BigInt |-> "numeric",
                Float |-> "double precision", Boolean |-> "boolean", Bytes |-> "bytea",
                Date |-> "timestamp", Json |-> "jsonb"]

(* PostgreSQL prints a text as it is, accepts what it prints as the same   *)
(* value, and prints neither bytes nor JSON with a 0x in front.            *)
ASSUME CastAssumption ==
    /\ DOMAIN Cast = Range(ColumnTypes)
    /\ \A t \in DOMAIN Cast["text"] : Cast["text"][t] = t
    /\ \A type \in DOMAIN Cast : \A printed \in Range(Cast[type]) :
          /\ printed \in DOMAIN Cast[type] /\ Cast[type][printed] = printed
          /\ type \in {"bytea", "jsonb"} => [printed EXCEPT !.prefix = ""] = printed

(* It puts any two texts in one order.                                     *)
ASSUME OrderAssumption ==
    \A x, y, z \in DOMAIN Cast["text"] :
        /\ ~Before(x, x)
        /\ x = y \/ Before(x, y) \/ Before(y, x)
        /\ Before(x, y) /\ Before(y, z) => Before(x, z)

(* column_type.                                                            *)
ColumnType(field) == IF field.is_array THEN "jsonb" ELSE ColumnTypes[field.base_type]

(* create_tables: every type is supported, or there is no statement; and   *)
(* each statement is one PostgreSQL accepts.                               *)
CreatesTables(models) ==
    \A i \in DOMAIN models :
        LET fields == models[i].fields
        IN  /\ \A j \in DOMAIN fields : fields[j].is_array \/ fields[j].base_type \in DOMAIN ColumnTypes
            /\ \A j, k \in DOMAIN fields :
                  Underscored(fields[j].name) = Underscored(fields[k].name) => j = k

(* create_table's PRIMARY KEY: the last field of type ID.                  *)
PrimaryKey(model) ==
    LET ids == {j \in DOMAIN model.fields : model.fields[j].base_type = "ID"}
    IN  {Underscored(model.fields[j].name) : j \in {k \in ids : \A l \in ids : l <= k}}

(* The model whose tables this project writes one entity to each, under    *)
(* its id.                                                                 *)
Regular(models) ==
    /\ \A i, j \in DOMAIN models : TableName(models[i].name) = TableName(models[j].name) => i = j
    /\ \A i \in DOMAIN models : \E j \in DOMAIN models[i].fields :
          /\ models[i].fields[j].name = IdName /\ ~models[i].fields[j].is_array
          /\ \A k \in DOMAIN models[i].fields : models[i].fields[k].base_type = "ID" <=> k = j

-----------------------------------------------------------------------------
(* encode: a missing or null member is NULL, and a Bytes string loses its  *)
(* prefix.                                                                 *)
Encode(field, entity) ==
    IF field.name \notin DOMAIN entity THEN {}
    ELSE {IF field.base_type = "Bytes" /\ v.json = "string" THEN [v.text EXCEPT !.prefix = ""] ELSE v.text
            : v \in entity[field.name]}

Accepts(field, text) == text \in DOMAIN Cast[ColumnType(field)]
Stored(field, opt)   == {Cast[ColumnType(field)][t] : t \in opt}

ColumnsOf(model) == {Underscored(model.fields[j].name) : j \in DOMAIN model.fields}
FieldOf(model, column) ==
    model.fields[CHOOSE j \in DOMAIN model.fields : Underscored(model.fields[j].name) = column]

(* The row an upsert proposes.                                             *)
Row(model, entity) ==
    [c \in ColumnsOf(model) |-> LET f == FieldOf(model, c) IN Stored(f, Encode(f, entity))]

(* The upsert's statement is refused.                                      *)
UpsertFails(model, entity) ==
    \/ PrimaryKey(model) # {IdColumn}
    \/ \A j \in DOMAIN model.fields : model.fields[j].base_type = "ID"
    \/ \E j \in DOMAIN model.fields :
          LET f == model.fields[j]
          IN  \/ \E t \in Encode(f, entity) : ~Accepts(f, t)
              \/ Encode(f, entity) = {} /\ (~f.nullable \/ f.base_type = "ID")

KeyOf(model, id) == <<TableName(model.name), id>>

(* One statement of upsert: a new row, or all columns of the old one but   *)
(* those of type ID.                                                       *)
Upserted(rows, model, entity) ==
    LET new == Row(model, entity)
        key == KeyOf(model, CHOOSE id \in new[IdColumn] : TRUE)
    IN  {e \in rows : e[1] # key}
        \union {<<key, [c \in ColumnsOf(model) |->
                          IF FieldOf(model, c).base_type = "ID" /\ \E e \in rows : e[1] = key
                          THEN (CHOOSE e \in rows : e[1] = key)[2][c]
                          ELSE new[c]]>>}

(* remove.                                                                 *)
Removed(rows, model, ids) == {e \in rows : ~\E id \in ids : e[1] = KeyOf(model, id)}

-----------------------------------------------------------------------------
(* get.                                                                    *)
GetEntity(rows, model, id) == {e[2] : e \in {x \in rows : x[1] = KeyOf(model, id)}}

TableRows(rows, model) == {e[2] : e \in {x \in rows : x[1][1] = TableName(model.name)}}

(* NULL comes last in ascending order, and so first in descending order.   *)
Ascending(a, b) ==
    \/ a # {} /\ b = {}
    \/ \E x \in a, y \in b : Before(x, y)

(* ORDER BY: rows that tie come in any order.                              *)
Sorted(rows, column, direction) ==
    LET before(r, s) == IF direction = "asc" THEN Ascending(r[column], s[column])
                        ELSE Ascending(s[column], r[column])
    IN  {t \in SetToSeqs(rows) : \A i, j \in DOMAIN t : i < j => ~before(t[j], t[i])}

(* dump_canonical: ORDER BY id.                                            *)
DumpCanonical(rows, model) ==
    CHOOSE s \in Sorted(TableRows(rows, model), IdColumn, "asc") : TRUE

(* get_by_fields, as the set of the results it may have: there is none     *)
(* where it fails.  A filter's value is encoded like a member of an        *)
(* entity, and a filter on NULL is true of no row.                         *)
Member(filter) == [name \in {filter.field} |-> filter.value]

Selects(model, filters, row) ==
    \A i \in DOMAIN filters :
        LET f == FieldOf(model, Underscored(filters[i].field))
        IN  \E t \in Encode(f, Member(filters[i])) :
               Cast[ColumnType(f)][t] \in row[Underscored(filters[i].field)]

QueryFails(model, filters, options) ==
    \/ \E i \in DOMAIN filters :
          \/ ~\E j \in DOMAIN model.fields : model.fields[j].name = filters[i].field
          \/ \E t \in Encode(FieldOf(model, Underscored(filters[i].field)), Member(filters[i])) :
                ~Accepts(FieldOf(model, Underscored(filters[i].field)), t)
    \/ Underscored(options.order_by) \notin ColumnsOf(model)

(* Mutant: the offset is one too large after the first page.               *)
PageSkippingOne(s, options) ==
    LET first == options.offset + (IF options.offset > 0 THEN 2 ELSE 1)
        last  == options.offset + options.limit
    IN  SubSeq(s, first, IF last < Len(s) THEN last ELSE Len(s))

(* LIMIT and OFFSET.                                                       *)
Page(s, options) ==
    LET last == options.offset + options.limit
    IN  SubSeq(s, options.offset + 1, IF last < Len(s) THEN last ELSE Len(s))

GetByFields(rows, model, filters, options) ==
    LET selected == {r \in TableRows(rows, model) : Selects(model, filters, r)}
    IN  IF QueryFails(model, filters, options) THEN {}
        ELSE {Page(s, options) :
                s \in Sorted(selected, Underscored(options.order_by), options.order_direction)}
=============================================================================
