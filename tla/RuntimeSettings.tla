-------------------------- MODULE RuntimeSettings --------------------------
(***************************************************************************)
(* The settings of the service: the values of the environment, the         *)
(* overrides kept in the table `ingestor_settings`, what the validators of *)
(* Settings accept, and IngestorSettingsService.update, which validates    *)
(* the merged overrides first and then writes them key by key, each key in *)
(* a transaction of its own.  Two updates may therefore interleave, and a  *)
(* request may read overrides that are half written.                       *)
(*                                                                         *)
(* Abstractions.  A text is trimmed, in lower case, a URL is its scheme,    *)
(* a list of extensions is a set of them, each with its dot, a score is a  *)
(* number of hundredths, a flag TRUE or FALSE.  `Garbage` is a value of another type, `Blank`    *)
(* the empty text, `None` the value None.  Defaults of settings the model  *)
(* does not read stand for any valid value.                                *)
(***************************************************************************)
EXTENDS Naturals, Sequences, FiniteSets

CONSTANTS
  Editors,   \* the requests that change the settings
  None, Garbage, Blank

----------------------------------------------------------------------------
(* The fields of Settings *)

Positive ==   \* ge=1 or gt=0
  { "max_upload_size_mb", "progress_page_interval", "progress_history_limit", "retention_days",
    "docling_num_threads", "docling_vlm_scale", "docling_remote_llm_timeout_seconds",
    "docling_remote_llm_max_tokens", "docling_remote_llm_health_check_timeout_seconds",
    "dramatiq_parser_time_limit_ms", "dramatiq_dispatch_time_limit_ms", "parser_process_count",
    "parser_threads_per_process", "parser_worker_count", "dispatch_worker_count",
    "dispatch_queue_max_size", "dispatch_idle_interval_seconds",
    "embedding_elastic_request_timeout_seconds", "docling_perf_page_batch_size",
    "docling_pdf_ocr_batch_size", "docling_pdf_layout_batch_size",
    "docling_pdf_table_batch_size", "docling_pdf_queue_max_size",
    "docling_remote_llm_concurrency", "chunk_max_tokens", "dispatch_max_bulk_size" }

NonNegative ==
  { "progress_log_interval_seconds", "docling_remote_llm_temperature",
    "parser_max_retry_attempts", "dispatch_max_retries", "embedding_elastic_max_retries" }

OptionalPositive ==
  { "dispatch_queue_max_payload_bytes", "docling_pdf_batch_polling_interval_seconds",
    "docling_remote_llm_page_batch_size" }

Flags ==
  { "chunking_enabled", "confidence_output_enabled", "confidence_warn_only",
    "docling_cuda_use_flash_attention2", "docling_allow_external_plugins",
    "docling_remote_llm_health_check_enabled", "docling_xbrl_enable_local_fetch",
    "docling_xbrl_enable_remote_fetch", "embedding_output_enabled",
    "embedding_elastic_verify_certs" }

OptionalText ==
  { "chunk_tokenizer_path", "docling_remote_llm_model", "docling_remote_llm_api_key",
    "docling_xbrl_taxonomy_path", "embedding_elastic_url", "embedding_elastic_username",
    "embedding_elastic_password", "embedding_elastic_pipeline" }

NonEmptyText ==
  { "docling_pdf_ocr_engine", "docling_pdf_layout_model",
    "docling_pdf_picture_classifier_preset", "embedding_elastic_index" }

AnyText ==
  { "service_name", "storage_dir", "docling_vlm_model", "docling_vlm_prompt",
    "docling_remote_llm_api_key_header", "docling_remote_llm_api_key_scheme", "rabbitmq_url",
    "dramatiq_parser_queue_name", "dramatiq_dispatch_queue_name" }

(* Settings with a fixed choice of values, spelled as they are kept. *)
Choices ==
  [ docling_accelerator_device |-> {"auto", "cpu", "cuda", "cuda:0", "mps", "xpu"},
    docling_pipeline |-> {"standard", "vlm", "auto"},
    chunking_strategy |-> {"token", "page", "line"},
    docling_pdf_table_structure_backend |-> {"tableformer"},
    docling_vlm_response_format |->
      {"doctags", "doclang", "markdown", "deepseekocr_markdown", "html", "otsl", "plaintext"},
    docling_remote_llm_url |-> {"http://", "https://"},
    docling_remote_llm_provider |-> {"openai_compatible"},
    embedding_elastic_mapping_version |-> {"v1", "v2", "v3"},
    dispatch_sink_mode |-> {"local", "elastic", "local_and_elastic"},
    queue_backend |-> {"local", "dramatiq"} ]

(* Other spellings the validators turn into the one that is kept. *)
Spellings ==
  [ chunking_strategy |-> [hybrid |-> "token", line_based |-> "line"],
    docling_remote_llm_provider |-> [openai |-> "openai_compatible"],
    embedding_elastic_mapping_version |->
      [dense_vector |-> "v1", dense_vector_v1 |-> "v1", semantic_text |-> "v2",
       semantic_text_v2 |-> "v2", semantic_text_v3 |-> "v3", multilingual_semantic_v3 |-> "v3"] ]

(* The fields whose type allows None. *)
Optional ==
  OptionalText \union OptionalPositive
    \union {"docling_pdf_ocr_use_gpu", "confidence_min_document_score"}

Fields ==
  UNION {Positive, NonNegative, Optional, Flags, NonEmptyText, AnyText, DOMAIN Choices,
         {"allowed_upload_extensions", "cors_allow_origins"}}

UploadExtensions ==
  { ".adoc", ".asciidoc", ".bmp", ".csv", ".htm", ".html", ".jats", ".jpeg", ".jpg", ".json",
    ".latex", ".pdf", ".png", ".md", ".markdown", ".nxml", ".pptx", ".tex", ".tif", ".tiff",
    ".txt", ".uspto", ".vtt", ".webp", ".docx", ".xlsx", ".xbrl" }

Defaults ==
  LET given ==
        [ max_upload_size_mb |-> 100, retention_days |-> 30, chunk_max_tokens |-> 768,
          dispatch_max_bulk_size |-> 5, parser_max_retry_attempts |-> 3,
          allowed_upload_extensions |-> UploadExtensions, cors_allow_origins |-> {},
          chunking_enabled |-> FALSE, chunking_strategy |-> "page", docling_pipeline |-> "standard",
          confidence_warn_only |-> TRUE, docling_allow_external_plugins |-> TRUE,
          confidence_output_enabled |-> TRUE, docling_accelerator_device |-> "auto",
          docling_pdf_ocr_engine |-> "suryaocr", docling_pdf_layout_model |-> "docling-layout-heron-101",
          docling_pdf_table_structure_backend |-> "tableformer",
          docling_pdf_picture_classifier_preset |-> "document_figure_classifier_v2",
          docling_vlm_response_format |-> "markdown", docling_remote_llm_url |-> "http://",
          docling_remote_llm_provider |-> "openai_compatible", queue_backend |-> "local",
          dispatch_sink_mode |-> "local", embedding_elastic_mapping_version |-> "v1" ]
      common(f) ==
        CASE f \in Positive -> 1
          [] f \in NonNegative -> 0
          [] f \in Flags -> FALSE
          [] f \in NonEmptyText \union AnyText -> "text"
          [] OTHER -> None
  IN  [f \in Fields |-> IF f \in DOMAIN given THEN given[f] ELSE common(f)]

BootTime ==
  { "storage_dir", "cors_allow_origins", "queue_backend", "rabbitmq_url",
    "dramatiq_parser_queue_name", "dramatiq_dispatch_queue_name",
    "dramatiq_parser_time_limit_ms", "dramatiq_dispatch_time_limit_ms",
    "parser_process_count", "parser_threads_per_process", "parser_worker_count" }

----------------------------------------------------------------------------
(* Validation: every validator looks at one field *)

(* What the field's validator makes of a value. *)
Canonical(f, v) ==
  IF f \in DOMAIN Spellings /\ v # Garbage /\ v \in DOMAIN Spellings[f] THEN Spellings[f][v]
  ELSE IF f \in Optional /\ v = Blank THEN None
  ELSE v

LeastOf(f) == IF f = "chunk_max_tokens" THEN 32 ELSE IF f \in NonNegative THEN 0 ELSE 1
AtMost(f, v) ==
  /\ f = "dispatch_max_bulk_size" => v <= 5
  /\ f = "confidence_min_document_score" => v <= 100

IsNumber(f, v, least) == v \notin {Garbage, None, Blank} /\ v >= least /\ AtMost(f, v)

Acceptable(f, v) ==
  CASE f \in Positive \union NonNegative -> IsNumber(f, v, LeastOf(f))
    [] f \in OptionalPositive -> v = None \/ IsNumber(f, v, 1)
    [] f = "confidence_min_document_score" -> v = None \/ IsNumber(f, v, 0)
    [] f \in Flags -> v \in BOOLEAN
    [] f = "docling_pdf_ocr_use_gpu" -> v = None \/ v \in BOOLEAN
    [] f \in DOMAIN Choices -> v # Garbage /\ v \in Choices[f]
    [] f \in NonEmptyText -> v # Garbage /\ v # None /\ v # Blank
    [] f \in AnyText -> v # Garbage /\ v # None
    [] f \in OptionalText -> v # Garbage
    [] OTHER -> v # Garbage /\ v # None

(* Settings can be built from the overrides and the environment. *)
Constructs(overrides) ==
  \A f \in DOMAIN overrides : Acceptable(f, Canonical(f, overrides[f]))

(* The settings in effect under these overrides; the deprecated alias      *)
(* follows the number of processes, which `values` always contains.        *)
Effective(overrides) ==
  LET settings == [f \in Fields |-> IF f \in DOMAIN overrides THEN Canonical(f, overrides[f])
                                   ELSE Defaults[f]]
  IN  [settings EXCEPT !.parser_worker_count = settings.parser_process_count]

----------------------------------------------------------------------------
(* Updates: an edit is the keys to reset and the keys to set, in the       *)
(* order of the request.                                                   *)

Without(overrides, keys) == [f \in DOMAIN overrides \ keys |-> overrides[f]]
KeysOf(values) == {values[i][1] : i \in DOMAIN values}
With(overrides, values) ==
  [k \in DOMAIN overrides \union KeysOf(values) |->
     IF k \in KeysOf(values) THEN values[CHOOSE i \in DOMAIN values : values[i][1] = k][2]
     ELSE overrides[k]]
ResetKeys(e) == {e.resets[i] : i \in DOMAIN e.resets}
SetKeys(e) == KeysOf(e.values)

(* What IngestorSettingsUpdate accepts: a list of keys and a mapping. *)
IsUpdate(e) ==
  /\ e = [resets |-> e.resets, values |-> e.values]
  /\ e.resets \in Seq(STRING)
  /\ Len(e.values) \in Nat /\ e.values = [i \in 1..Len(e.values) |-> e.values[i]]
  /\ \A i \in DOMAIN e.values : e.values[i] = <<e.values[i][1], e.values[i][2]>>
  /\ \A i, k \in DOMAIN e.values : e.values[i][1] = e.values[k][1] => i = k

KeysAllowed(e) ==
  /\ ResetKeys(e) \intersect SetKeys(e) = {}
  /\ ResetKeys(e) \union SetKeys(e) \subseteq Fields \ BootTime

(* Faulty variants of the two definitions below *)
ChecksWhatIsStored(overrides, e) == overrides
WritesAsSpelled(e) == [i \in DOMAIN e.resets |-> <<e.resets[i]>>] \o e.values

(* The overrides an update validates. *)
Merged(overrides, e) == With(Without(overrides, ResetKeys(e)), e.values)

(* The writes of an update: <<key>> deletes, <<key, value>> sets. *)
Writes(e) ==
  [i \in DOMAIN e.resets |-> <<e.resets[i]>>]
  \o [i \in DOMAIN e.values |-> <<e.values[i][1], Canonical(e.values[i][1], e.values[i][2])>>]

(* The table after one of them. *)
Written(table, w) == IF Len(w) = 1 THEN Without(table, {w[1]}) ELSE With(table, <<w>>)

VARIABLES
  stored,   \* the table ingestor_settings
  edit,     \* the edit of each editor
  phase,    \* how far each update is, and the writes it has left
  spoiled   \* history: the updates that were not alone while they ran

settingsVars == <<stored, edit, phase, spoiled>>

SettingsInit(edits) ==
  /\ stored = <<>>
  /\ edit = edits
  /\ phase = [e \in Editors |-> [at |-> "idle", left |-> <<>>]]
  /\ spoiled = {}

Writing == {e \in Editors : phase[e].at = "writing"}

(* update: the keys, then the merged overrides as they are read now. *)
Validate(e) ==
  /\ phase[e].at = "idle" /\ edit[e] # None
  /\ IF KeysAllowed(edit[e]) /\ Constructs(Merged(stored, edit[e]))
     THEN /\ phase' = [phase EXCEPT ![e] = [at |-> "writing", left |-> Writes(edit[e])]]
          /\ spoiled' = IF Writing = {} THEN spoiled ELSE spoiled \union Writing \union {e}
     ELSE /\ phase' = [phase EXCEPT ![e].at = "refused"]
          /\ UNCHANGED spoiled
  /\ UNCHANGED <<stored, edit>>

(* One key: delete or set, a connection and a transaction of its own. *)
WriteKey(e) ==
  /\ phase[e].at = "writing" /\ phase[e].left # <<>>
  /\ stored' = Written(stored, Head(phase[e].left))
  /\ phase' = [phase EXCEPT ![e].left = Tail(@)]
  /\ UNCHANGED <<edit, spoiled>>

(* The answer, settings_response, reads the table again. *)
Answer(e) ==
  /\ phase[e].at = "writing" /\ phase[e].left = <<>>
  /\ phase' = [phase EXCEPT ![e].at = "answered"]
  /\ UNCHANGED <<stored, edit, spoiled>>

SettingsNext == \E e \in Editors : Validate(e) \/ WriteKey(e) \/ Answer(e)

----------------------------------------------------------------------------
(* Properties *)

(* Whatever two updates leave behind, key by key and interleaved, Settings *)
(* can be built from it: list() and the validators run in every            *)
(* request, so an override they reject would stop the whole API.           *)
StoredSettingsConstruct ==
  Constructs(stored) /\ DOMAIN stored \intersect BootTime = {}

(* An update that was alone has stored all it asked for by the time it is  *)
(* answered, and nothing of what it reset: the answer shows the request.   *)
UpdatesAreWhole ==
  \A e \in Editors :
    (phase[e].at = "writing" /\ phase[e].left = <<>> /\ e \notin spoiled) =>
      /\ ResetKeys(edit[e]) \intersect DOMAIN stored = {}
      /\ \A i \in DOMAIN edit[e].values :
           LET k == edit[e].values[i][1]
           IN k \in DOMAIN stored /\ stored[k] = Canonical(k, edit[e].values[i][2])
=============================================================================
