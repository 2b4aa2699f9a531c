---------------------------- MODULE MCBootstrap ----------------------------
(***************************************************************************)
(* The files under db/, statement by statement.  Of the schema, the tables *)
(* that later files alter.                                                 *)
(***************************************************************************)
EXTENDS Bootstrap

Makes(obj, of) == [needs |-> of, makes |-> {obj}, brings |-> {}, drops |-> {}]
Drops(obj) == [needs |-> {}, makes |-> {}, brings |-> {}, drops |-> {obj}]

MCSchema ==
    <<Makes("user_account", {}), Makes("tenant_membership", {}), Makes("entity", {}),
      Makes("transform", {}), Makes("connector", {}), Makes("connector_run", {})>>

\* INSERT INTO connector SELECT *, NULL goes by position: it suits a table
\* that CREATE TABLE AS made from integration, and not the one of the schema,
\* whose last column is NOT NULL.
RenameIntegrations ==
    <<[needs |-> {"integration"}, makes |-> {"connector"},
       brings |-> {"connector is like integration"}, drops |-> {}],
      Makes("copied connectors", {"integration", "connector", "connector is like integration"}),
      Drops("integration"),
      Makes("connector_run", {"integration_run"}),
      Makes("copied runs", {"integration_run", "connector_run"}),
      Drops("integration_run"),
      Makes("idx_connector_tenant", {"connector"}),
      Drops("idx_integration_tenant")>>

MCMigrations ==
    <<RenameIntegrations,
      <<Makes("cron_schedule", {"connector"}), Makes("chat_session", {}), Makes("chat_message", {})>>,
      <<Makes("password_hash", {"user_account"})>>,
      <<Makes("tenant_config", {}), Makes("revoked_at", {"tenant_membership"})>>,
      <<Makes("invite", {})>>,
      <<Makes("trigger_mode", {"transform"}), Makes("watch_entities", {"transform"})>>,
      <<Makes("agent_memory", {})>>,
      <<Makes("no duplicates", {"entity"}), Makes("uq_entity_tenant_name_layer", {"entity"})>>,
      <<Makes("entity.collection", {"entity"}), Makes("transform.collection", {"transform"}),
        Makes("connector.collection", {"connector"})>>,
      <<Makes("schema_migration", {})>>,
      <<Makes("is_superuser", {"user_account"}), Makes("first superuser", {"is_superuser"})>>,
      <<>> >>

Legacy == {"integration", "integration_run", "idx_integration_tenant"}

MCObjects ==
    Legacy \cup {"connector is like integration"}
    \cup UNION {UNION {MCMigrations[m][k].makes : k \in DOMAIN MCMigrations[m]} :
                  m \in DOMAIN MCMigrations}
    \cup UNION {MCSchema[k].makes : k \in DOMAIN MCSchema}

MCFound == {{}, Legacy}
=============================================================================
