--------------------------- MODULE MigrationsLate ---------------------------
(***************************************************************************)
(* The revisions of src/migrations/versions from the 40th to the head; see *)
(* MigrationsEarly.                                                        *)
(***************************************************************************)
EXTENDS SchemaOps

\* 40: normalize character_asi_choices: child increases table + applied_to_base flag.
Up_b8e2f4a6c9d1 == <<
    Table("character_asi_choice_increases", {"amount", "id"}, {<<"ability", "ability_score">>},
        {<<"character_asi_choice_id", "character_asi_choices", "cascade">>}),
    Key("character_asi_choice_increases", "uq_character_asi_inc_ability", {"ability", "character_asi_choice_id"},
        "unique"),
    Ix("character_asi_choice_increases", {"character_asi_choice_id"}),
    AddColumns("character_asi_choices", {"applied_to_base"}), Refuses({"character_asi_choices"}),
    Copy("character_asi_choices", "character_asi_choice_increases"),
    DropColumns("character_asi_choices", {"increases"})>>
\* Back to 39.
Down_b8e2f4a6c9d1 == <<
    AddColumns("character_asi_choices", {"increases"}), DropColumns("character_asi_choices", {"applied_to_base"}),
    DropIx("character_asi_choice_increases", {"character_asi_choice_id"}),
    DropTables(<<"character_asi_choice_increases">>)>>

\* 41: feature ability increases; drop class_primary_abilities and subclass archetype_group_name.
Up_c5d9e8f2a4b7 == <<
    Table("feature_ability_increases", {"amount", "id", "new_cap"}, {<<"ability", "ability_score">>},
        {<<"feature_id", "features", "cascade">>}),
    Ix("feature_ability_increases", {"feature_id"}), DropTables(<<"class_primary_abilities">>),
    DropColumns("subclasses", {"archetype_group_name"})>>
\* Back to 40.
Down_c5d9e8f2a4b7 == <<
    AddColumns("subclasses", {"archetype_group_name"}),
    Table("class_primary_abilities", {}, {<<"ability", "ability_score">>}, {<<"class_id", "classes", "cascade">>}),
    DropIx("feature_ability_increases", {"feature_id"}), DropTables(<<"feature_ability_increases">>)>>

\* 42: add source_item_choice_groups and source_item_choice_options tables.
Up_d1e2f3a4b5c6 == <<
    Table("source_item_choice_groups", {"id", "pick_count", "sort_order"},
        {<<"source_type", "feature_source_type">>}, {<<"class_id", "classes", "cascade">>,
        <<"background_id", "backgrounds", "cascade">>}),
    Ix("source_item_choice_groups", {"background_id", "class_id", "source_type"}),
    Key("source_item_choice_groups", "check_choice_group_pick_count_positive", {"pick_count"}, "check"),
    Table("source_item_choice_options", {"id", "quantity", "sort_order"}, {},
        {<<"group_id", "source_item_choice_groups", "cascade">>, <<"item_id", "items", "restrict">>}),
    Ix("source_item_choice_options", {"group_id", "item_id"}),
    Key("source_item_choice_options", "check_choice_option_quantity_positive", {"quantity"}, "check")>>
\* Back to 41.
Down_d1e2f3a4b5c6 == <<DropTables(<<"source_item_choice_options", "source_item_choice_groups">>)>>

\* 43: extract character backstory to its own table; add character inspiration.
Up_a3b4c5d6e7f8 == <<
    Table("character_backstories", {"content"}, {}, {<<"character_id", "characters", "cascade">>}),
    Key("character_backstories", "check_character_backstory_max_length", {"content"}, "check"),
    Copy("characters", "character_backstories"), AddColumns("characters", {"inspiration"}),
    DropColumns("characters", {"backstory"})>>
\* Back to 42.
Down_a3b4c5d6e7f8 == <<
    AddColumns("characters", {"backstory"}), DropColumns("characters", {"inspiration"}),
    DropTables(<<"character_backstories">>)>>

\* 44: add image_url to catalog reference tables.
Up_e3d5f7a9b2c4 == <<
    AddColumns("races", {"image_url"}), AddColumns("subraces", {"image_url"}), AddColumns("classes", {"image_url"}),
    AddColumns("subclasses", {"image_url"})>>
\* Back to 43.
Down_e3d5f7a9b2c4 == <<
    DropColumns("races", {"image_url"}), DropColumns("subraces", {"image_url"}),
    DropColumns("classes", {"image_url"}), DropColumns("subclasses", {"image_url"})>>

\* 45: split user contact into phone/discord/telegram and drop location.
Up_f2a9c7d3b5e1 == <<
    AddColumns("users", {"discord", "phone", "telegram"}), DropColumns("users", {"contact", "location"})>>
\* Back to 44.
Down_f2a9c7d3b5e1 == <<
    AddColumns("users", {"contact", "location"}), DropColumns("users", {"discord", "phone", "telegram"})>>

\* 46: convert character inspiration from a boolean to a 0-13 point pool.
Up_b3f6a2c8d4e1 == <<
    Retype("characters", "inspiration", "untyped"),
    Key("characters", "check_inspiration_range", {"inspiration"}, "check")>>
\* Back to 45.
Down_b3f6a2c8d4e1 == <<
    DropKey("characters", "check_inspiration_range"), Retype("characters", "inspiration", "untyped")>>

\* 47: feature/feat engine (unified effect schema, character-side grants,.
Up_c8f4e2a6b9d3_features == <<
    AddColumns("features", {"min_level"}), AddTyped("features", "prerequisite_ability", "ability_score"),
    AddColumns("features", {"is_repeatable", "prerequisite_description", "prerequisite_minimum_score"}),
    Table("feature_choice_groups", {"id", "label", "pick_count", "sort_order"}, {},
        {<<"feature_id", "features", "cascade">>}),
    Key("feature_choice_groups", "check_feature_choice_group_pick_count_positive", {"pick_count"}, "check"),
    Ix("feature_choice_groups", {"feature_id"}),
    Table("feature_choice_options", {"id", "label", "sort_order"}, {},
        {<<"group_id", "feature_choice_groups", "cascade">>}),
    Ix("feature_choice_options", {"group_id"}),
    Table("feature_ability_score_effects", {"amount", "id", "new_cap"}, {<<"ability", "ability_score">>},
        {<<"feature_id", "features", "cascade">>, <<"choice_option_id", "feature_choice_options", "cascade">>}),
    Key("feature_ability_score_effects", "ck_feature_ability_score_effect_parent", {"choice_option_id",
        "feature_id"}, "check"),
    Ix("feature_ability_score_effects", {"choice_option_id", "feature_id"})>>
\* 47, its effects.
Up_c8f4e2a6b9d3_effects == <<
    Table("feature_skill_proficiency_effects", {"grants_expertise", "id"}, {},
        {<<"feature_id", "features", "cascade">>, <<"choice_option_id", "feature_choice_options", "cascade">>,
        <<"skill_id", "skills", "restrict">>}),
    Key("feature_skill_proficiency_effects", "ck_feature_skill_proficiency_effect_parent", {"choice_option_id",
        "feature_id"}, "check"),
    Key("feature_skill_proficiency_effects", "ck_feature_skill_proficiency_fixed_requires_skill", {"feature_id",
        "skill_id"}, "check"),
    Ix("feature_skill_proficiency_effects", {"choice_option_id", "feature_id", "skill_id"}),
    Table("feature_saving_throw_effects", {"id"}, {<<"ability", "ability_score">>},
        {<<"feature_id", "features", "cascade">>, <<"choice_option_id", "feature_choice_options", "cascade">>}),
    Key("feature_saving_throw_effects", "ck_feature_saving_throw_effect_parent", {"choice_option_id", "feature_id"},
        "check"),
    Ix("feature_saving_throw_effects", {"choice_option_id", "feature_id"}),
    Table("feature_armor_proficiency_effects", {"id"}, {<<"armor_type", "armor_proficiency">>},
        {<<"feature_id", "features", "cascade">>, <<"choice_option_id", "feature_choice_options", "cascade">>}),
    Key("feature_armor_proficiency_effects", "ck_feature_armor_proficiency_effect_parent", {"choice_option_id",
        "feature_id"}, "check"),
    Ix("feature_armor_proficiency_effects", {"choice_option_id", "feature_id"})>>
\* 47, its more effects.
Up_c8f4e2a6b9d3_more_effects == <<
    Table("feature_weapon_proficiency_effects", {"id"}, {<<"weapon_category", "weapon_proficiency">>},
        {<<"feature_id", "features", "cascade">>, <<"choice_option_id", "feature_choice_options", "cascade">>,
        <<"item_id", "items", "restrict">>}),
    Key("feature_weapon_proficiency_effects", "ck_feature_weapon_proficiency_effect_parent", {"choice_option_id",
        "feature_id"}, "check"),
    Key("feature_weapon_proficiency_effects", "ck_feature_weapon_proficiency_one_target", {"item_id",
        "weapon_category"}, "check"),
    Ix("feature_weapon_proficiency_effects", {"choice_option_id", "feature_id", "item_id"}),
    Table("feature_spell_grant_effects", {"always_prepared", "counts_against_known_limit", "id"},
        {<<"spell_school", "spell_school">>, <<"spell_level_max", "spell_level">>},
        {<<"feature_id", "features", "cascade">>, <<"choice_option_id", "feature_choice_options", "cascade">>,
        <<"spell_id", "spells", "restrict">>}),
    Key("feature_spell_grant_effects", "ck_feature_spell_grant_effect_parent", {"choice_option_id", "feature_id"},
        "check"),
    Key("feature_spell_grant_effects", "ck_feature_spell_grant_effect_specific_or_filter", {"spell_id",
        "spell_level_max", "spell_school"}, "check"),
    Ix("feature_spell_grant_effects", {"choice_option_id", "feature_id", "spell_id"})>>
\* 47, its grants.
Up_c8f4e2a6b9d3_grants == <<
    Types("feature_grant_source" :> {"AUTO", "GM", "ASI"}),
    AddTyped("character_features", "grant_source", "feature_grant_source"),
    AddColumns("character_skill_proficiencies", {"source_character_feature_id"}),
    NamedRef("character_skill_proficiencies", "fk_character_skill_proficiencies_source_grant",
        "source_character_feature_id", "character_features", "cascade"),
    Ix("character_skill_proficiencies", {"source_character_feature_id"}),
    Table("character_feature_choices", {"id"}, {}, {<<"character_feature_id", "character_features", "cascade">>,
        <<"choice_group_id", "feature_choice_groups", "restrict">>,
        <<"choice_option_id", "feature_choice_options", "restrict">>}),
    Key("character_feature_choices", "uq_character_feature_choice_option", {"character_feature_id",
        "choice_group_id", "choice_option_id"}, "unique"),
    Ix("character_feature_choices", {"character_feature_id", "choice_group_id", "choice_option_id"})>>
\* 47, its proficiencies.
Up_c8f4e2a6b9d3_proficiencies == <<
    Table("character_saving_throw_proficiencies", {"id"}, {<<"ability", "ability_score">>},
        {<<"character_id", "characters", "cascade">>,
        <<"source_character_feature_id", "character_features", "cascade">>}),
    Key("character_saving_throw_proficiencies", "uq_character_saving_throw_ability", {"ability", "character_id"},
        "unique"),
    Ix("character_saving_throw_proficiencies", {"character_id", "source_character_feature_id"}),
    Table("character_armor_proficiencies", {"id"}, {<<"armor_type", "armor_proficiency">>},
        {<<"character_id", "characters", "cascade">>,
        <<"source_character_feature_id", "character_features", "cascade">>}),
    Key("character_armor_proficiencies", "uq_character_armor_proficiency_type", {"armor_type", "character_id"},
        "unique"),
    Ix("character_armor_proficiencies", {"character_id", "source_character_feature_id"}),
    Table("character_weapon_proficiencies", {"id"}, {<<"weapon_category", "weapon_proficiency">>},
        {<<"character_id", "characters", "cascade">>, <<"item_id", "items", "restrict">>,
        <<"source_character_feature_id", "character_features", "cascade">>}),
    Key("character_weapon_proficiencies", "uq_character_weapon_proficiency_item", {"character_id", "item_id"},
        "unique"),
    Key("character_weapon_proficiencies", "ck_character_weapon_proficiency_one_target", {"item_id",
        "weapon_category"}, "check"),
    Ix("character_weapon_proficiencies", {"character_id", "item_id", "source_character_feature_id"}),
    Table("character_granted_spells", {"always_prepared", "counts_against_known_limit", "id"}, {},
        {<<"character_id", "characters", "cascade">>, <<"spell_id", "spells", "restrict">>,
        <<"source_character_feature_id", "character_features", "cascade">>}),
    Ix("character_granted_spells", {"character_id", "source_character_feature_id", "spell_id"})>>
\* 47, its feats.
Up_c8f4e2a6b9d3_feats == <<
    Copy("feats", "features"), Copy("feats", "feature_choice_groups"), Copy("feats", "feature_choice_options"),
    Copy("feats", "feature_ability_score_effects"), Copy("character_feats", "character_features"),
    Copy("character_feats", "character_feature_choices")>>
\* 47, its asi.
Up_c8f4e2a6b9d3_asi == <<
    DropRefTo("character_asi_choices", "feats"), DropRefTo("character_asi_choices", "feat_ability_score_increases"),
    Repoint("character_asi_choices", "ability_score_increase_id", "feats"),
    Repoint("character_asi_choices", "feat_id", "feats"),
    Ref("character_asi_choices", "feat_id", "features", "restrict"),
    Ref("character_asi_choices", "ability_score_increase_id", "feature_ability_score_effects", "set_null")>>
\* 47, its tags.
Up_c8f4e2a6b9d3_tags == <<
    Copy("feature_ability_increases", "feature_ability_score_effects"),
    DropIx("feature_ability_increases", {"feature_id"}), DropTables(<<"feature_ability_increases">>),
    Table("subrace_tags", {"id", "name"}, {}, {}), Key("subrace_tags", "subrace_tags_name_key", {"name"}, "unique"),
    UniqueIx("subrace_tags", "name"),
    Table("subrace_tag_links", {}, {}, {<<"subrace_id", "subraces", "cascade">>,
        <<"subrace_tag_id", "subrace_tags", "restrict">>})>>
Up_c8f4e2a6b9d3 == Up_c8f4e2a6b9d3_features \o Up_c8f4e2a6b9d3_effects \o Up_c8f4e2a6b9d3_more_effects \o
        Up_c8f4e2a6b9d3_grants \o Up_c8f4e2a6b9d3_proficiencies \o Up_c8f4e2a6b9d3_feats \o
        Up_c8f4e2a6b9d3_asi \o Up_c8f4e2a6b9d3_tags
\* Back to 46.
Down_c8f4e2a6b9d3_feats == <<
    DropTables(<<"subrace_tag_links">>), DropIx("subrace_tags", {"name"}), DropTables(<<"subrace_tags">>),
    Table("feature_ability_increases", {"amount", "id", "new_cap"}, {<<"ability", "ability_score">>},
        {<<"feature_id", "features", "cascade">>}),
    Ix("feature_ability_increases", {"feature_id"}),
    Copy("feature_ability_score_effects", "feature_ability_increases"),
    DropRefTo("character_asi_choices", "features"),
    DropRefTo("character_asi_choices", "feature_ability_score_effects"),
    Repoint("character_asi_choices", "ability_score_increase_id", "feats"),
    Repoint("character_asi_choices", "feat_id", "feats"),
    Ref("character_asi_choices", "feat_id", "feats", "restrict"),
    Ref("character_asi_choices", "ability_score_increase_id", "feat_ability_score_increases", "set_null")>>
\* 47, its engine.
Down_c8f4e2a6b9d3_engine == <<
    DropTables(<<"character_granted_spells", "character_weapon_proficiencies", "character_armor_proficiencies",
        "character_saving_throw_proficiencies", "character_feature_choices">>),
    DropIx("character_skill_proficiencies", {"source_character_feature_id"}),
    DropNamedRef("character_skill_proficiencies", "fk_character_skill_proficiencies_source_grant"),
    DropColumns("character_skill_proficiencies", {"source_character_feature_id"}),
    DropColumns("character_features", {"grant_source"}), DropTypes({"feature_grant_source"}),
    DropTables(<<"feature_spell_grant_effects", "feature_weapon_proficiency_effects",
        "feature_armor_proficiency_effects", "feature_saving_throw_effects", "feature_skill_proficiency_effects",
        "feature_ability_score_effects", "feature_choice_options", "feature_choice_groups">>),
    DropColumns("features", {"is_repeatable", "min_level", "prerequisite_ability", "prerequisite_description",
        "prerequisite_minimum_score"})>>
Down_c8f4e2a6b9d3 == Down_c8f4e2a6b9d3_feats \o Down_c8f4e2a6b9d3_engine

\* 48: drop legacy feat tables (features-only cleanup).
\* Mutant: a table before the tables that refer to it.
Up_d4e6f8a2c1b3_featsFirst == <<
    DropTables(<<"feats", "feat_ability_score_increases", "character_feats">>), DropTypes({"character_feat_source"})>>
Up_d4e6f8a2c1b3 == <<
    DropTables(<<"character_feats", "feat_ability_score_increases", "feats">>), DropTypes({"character_feat_source"})>>
\* Back to 47.
Down_d4e6f8a2c1b3 == <<
    Types("character_feat_source" :> {"GM", "ORIGIN", "ASI"}),
    Table("feats", {"description", "id", "min_level", "name", "prerequisite_description",
        "prerequisite_minimum_score"}, {<<"prerequisite_ability", "ability_score">>}, {}),
    UniqueIx("feats", "name"),
    Table("feat_ability_score_increases", {"amount", "id"}, {<<"ability", "ability_score">>},
        {<<"feat_id", "feats", "cascade">>}),
    Ix("feat_ability_score_increases", {"feat_id"}),
    Table("character_feats", {"id"}, {<<"source_type", "character_feat_source">>},
        {<<"ability_score_increase_id", "feat_ability_score_increases", "set_null">>,
        <<"character_id", "characters", "cascade">>, <<"feat_id", "feats", "restrict">>}),
    Ix("character_feats", {"ability_score_increase_id", "character_id", "feat_id"}),
    Key("character_feats", "uq_character_feat", {"character_id", "feat_id"}, "unique")>>

\* 49: add character proficiency audit log.
Up_a1b2c3d4e5f6 == <<
    Types(
        "proficiency_audit_action" :> {"ADD", "REMOVE", "EXPERTISE_GRANTED", "EXPERTISE_REVOKED"} @@
        "proficiency_type" :> {"SKILL", "SAVING_THROW", "ARMOR", "WEAPON"}),
    Table("character_proficiency_audit_log", {"created_at", "id", "notes"},
        {<<"proficiency_type", "proficiency_type">>, <<"action", "proficiency_audit_action">>,
        <<"ability", "ability_score">>, <<"armor_type", "armor_proficiency">>,
        <<"weapon_category", "weapon_proficiency">>}, {<<"character_id", "characters", "cascade">>,
        <<"skill_id", "skills", "set_null">>, <<"item_id", "items", "set_null">>,
        <<"actor_user_id", "users", "set_null">>}),
    Ix("character_proficiency_audit_log", {"actor_user_id", "character_id"})>>
\* Back to 48.
Down_a1b2c3d4e5f6 == <<
    DropIx("character_proficiency_audit_log", {"actor_user_id", "character_id"}),
    DropTables(<<"character_proficiency_audit_log">>), DropTypes({"proficiency_audit_action", "proficiency_type"})>>

\* 50: unify proficiencies, background suggestions/gold, drop skill key, missing indexes.
Up_f3a5c7e9b1d4_proficiencies == <<
    Types(
        "proficiency_action" :> {"GRANT", "REVOKE"} @@
        "proficiency_source_type" :> {"CLASS_CHOICE", "RACE", "BACKGROUND", "FEATURE", "FEATURE_CHOICE", "GM"}),
    Table("character_proficiencies", {"created_at", "id", "is_expertise"},
        {<<"proficiency_type", "proficiency_type">>, <<"ability", "ability_score">>,
        <<"armor_type", "armor_proficiency">>, <<"weapon_category", "weapon_proficiency">>,
        <<"source_type", "proficiency_source_type">>, <<"action", "proficiency_action">>,
        <<"grant_source", "feature_grant_source">>, <<"feature_source_type", "feature_source_type">>},
        {<<"character_id", "characters", "cascade">>, <<"skill_id", "skills", "cascade">>,
        <<"item_id", "items", "cascade">>, <<"source_character_feature_id", "character_features", "cascade">>,
        <<"feature_id", "features", "cascade">>, <<"actor_user_id", "users", "set_null">>}),
    Key("character_proficiencies", "ck_character_proficiency_discriminator_shape", {"ability", "armor_type",
        "item_id", "proficiency_type", "skill_id", "weapon_category"}, "check")>>
\* 50, its their keys.
Up_f3a5c7e9b1d4_their_keys == <<
    Key("character_proficiencies", "ix_character_proficiency_character_type", {"character_id", "proficiency_type"},
        "index"),
    Ix("character_proficiencies", {"actor_user_id", "feature_id", "item_id", "skill_id",
        "source_character_feature_id"}),
    Key("character_proficiencies", "uq_character_proficiency_gm_skill", {"character_id", "proficiency_type",
        "skill_id", "source_type"}, "unique"),
    Key("character_proficiencies", "uq_character_proficiency_gm_save", {"ability", "character_id",
        "proficiency_type", "source_type"}, "unique"),
    Key("character_proficiencies", "uq_character_proficiency_gm_armor", {"armor_type", "character_id",
        "proficiency_type", "source_type"}, "unique"),
    Key("character_proficiencies", "uq_character_proficiency_gm_weapon_category", {"character_id",
        "proficiency_type", "source_type", "weapon_category"}, "unique"),
    Key("character_proficiencies", "uq_character_proficiency_gm_weapon_item", {"character_id", "item_id",
        "proficiency_type", "source_type"}, "unique"),
    Key("character_proficiencies", "uq_character_proficiency_grant_skill", {"proficiency_type", "skill_id",
        "source_character_feature_id"}, "unique"),
    Key("character_proficiencies", "uq_character_proficiency_grant_save", {"ability", "proficiency_type",
        "source_character_feature_id"}, "unique"),
    Key("character_proficiencies", "uq_character_proficiency_grant_armor", {"armor_type", "proficiency_type",
        "source_character_feature_id"}, "unique"),
    Key("character_proficiencies", "uq_character_proficiency_grant_weapon_category", {"proficiency_type",
        "source_character_feature_id", "weapon_category"}, "unique"),
    Key("character_proficiencies", "uq_character_proficiency_grant_weapon_item", {"item_id", "proficiency_type",
        "source_character_feature_id"}, "unique")>>
\* 50, its backgrounds.
Up_f3a5c7e9b1d4_backgrounds == <<
    DropTables(<<"character_saving_throw_proficiencies", "character_armor_proficiencies",
        "character_weapon_proficiencies">>),
    DropIx("character_skill_proficiencies", {"source_character_feature_id"}),
    DropTables(<<"character_skill_proficiencies">>),
    DropIx("character_proficiency_audit_log", {"actor_user_id", "character_id"}),
    DropTables(<<"character_proficiency_audit_log">>), DropTypes({"proficiency_audit_action"}),
    DropColumns("character_items", {"is_attuned", "is_equipped", "notes"}),
    DropColumns("character_features", {"notes"}), Types("background_suggestion_type" :> {"PERSONALITY_TRAIT",
            "IDEAL", "BOND", "FLAW"}),
    Table("background_suggestions", {"id", "text"}, {<<"suggestion_type", "background_suggestion_type">>},
        {<<"background_id", "backgrounds", "cascade">>}),
    Ix("background_suggestions", {"background_id"}),
    DropColumns("backgrounds", {"bonds_suggestions", "flaws_suggestions", "ideals_suggestions",
        "personality_traits_suggestions"}),
    AddColumns("backgrounds", {"starting_gold"}), DropIx("skills", {"key"}), DropColumns("skills", {"key"}),
    UniqueIxOver("skills", "name"), Ix("character_asi_choices", {"ability_score_increase_id"}),
    Ix("race_skills", {"skill_id"}), Ix("class_available_skills", {"skill_id"}),
    Ix("background_skills", {"skill_id"})>>
Up_f3a5c7e9b1d4 == Up_f3a5c7e9b1d4_proficiencies \o Up_f3a5c7e9b1d4_their_keys \o Up_f3a5c7e9b1d4_backgrounds
\* Back to 49.
Down_f3a5c7e9b1d4_backgrounds == <<
    DropIx("background_skills", {"skill_id"}), DropIx("class_available_skills", {"skill_id"}),
    DropIx("race_skills", {"skill_id"}), DropIx("character_asi_choices", {"ability_score_increase_id"}),
    DropIx("skills", {"name"}), AddColumns("skills", {"key"}), Fill("skills", "key"), NotNull("skills", "key"),
    UniqueIxOver("skills", "key"), DropColumns("backgrounds", {"starting_gold"}),
    AddColumns("backgrounds", {"bonds_suggestions", "flaws_suggestions", "ideals_suggestions",
        "personality_traits_suggestions"}),
    DropIx("background_suggestions", {"background_id"}), DropTables(<<"background_suggestions">>),
    DropTypes({"background_suggestion_type"}), AddColumns("character_features", {"notes"}),
    AddColumns("character_items", {"is_attuned", "is_equipped", "notes"})>>
\* 50, its proficiencies.
Down_f3a5c7e9b1d4_proficiencies == <<
    Types("proficiency_audit_action" :> {"ADD", "REMOVE", "EXPERTISE_GRANTED", "EXPERTISE_REVOKED"}),
    Table("character_proficiency_audit_log", {"created_at", "id", "notes"},
        {<<"proficiency_type", "proficiency_type">>, <<"action", "proficiency_audit_action">>,
        <<"ability", "ability_score">>, <<"armor_type", "armor_proficiency">>,
        <<"weapon_category", "weapon_proficiency">>}, {<<"character_id", "characters", "cascade">>,
        <<"skill_id", "skills", "set_null">>, <<"item_id", "items", "set_null">>,
        <<"actor_user_id", "users", "set_null">>}),
    Ix("character_proficiency_audit_log", {"actor_user_id", "character_id"}),
    Table("character_skill_proficiencies", {"is_expertise", "source_character_feature_id"}, {},
        {<<"character_id", "characters", "cascade">>, <<"skill_id", "skills", "restrict">>}),
    NamedRef("character_skill_proficiencies", "fk_character_skill_proficiencies_source_grant",
        "source_character_feature_id", "character_features", "cascade"),
    Ix("character_skill_proficiencies", {"source_character_feature_id"}),
    Table("character_saving_throw_proficiencies", {"id"}, {<<"ability", "ability_score">>},
        {<<"character_id", "characters", "cascade">>,
        <<"source_character_feature_id", "character_features", "cascade">>}),
    Key("character_saving_throw_proficiencies", "uq_character_saving_throw_ability", {"ability", "character_id"},
        "unique"),
    Ix("character_saving_throw_proficiencies", {"character_id", "source_character_feature_id"}),
    Table("character_armor_proficiencies", {"id"}, {<<"armor_type", "armor_proficiency">>},
        {<<"character_id", "characters", "cascade">>,
        <<"source_character_feature_id", "character_features", "cascade">>}),
    Key("character_armor_proficiencies", "uq_character_armor_proficiency_type", {"armor_type", "character_id"},
        "unique"),
    Ix("character_armor_proficiencies", {"character_id", "source_character_feature_id"}),
    Table("character_weapon_proficiencies", {"id"}, {<<"weapon_category", "weapon_proficiency">>},
        {<<"character_id", "characters", "cascade">>, <<"item_id", "items", "restrict">>,
        <<"source_character_feature_id", "character_features", "cascade">>}),
    Key("character_weapon_proficiencies", "uq_character_weapon_proficiency_item", {"character_id", "item_id"},
        "unique"),
    Key("character_weapon_proficiencies", "ck_character_weapon_proficiency_one_target", {"item_id",
        "weapon_category"}, "check"),
    Ix("character_weapon_proficiencies", {"character_id", "item_id", "source_character_feature_id"}),
    DropTables(<<"character_proficiencies">>), DropTypes({"proficiency_action", "proficiency_source_type"})>>
Down_f3a5c7e9b1d4 == Down_f3a5c7e9b1d4_backgrounds \o Down_f3a5c7e9b1d4_proficiencies

\* 51: drop features.is_repeatable.
Up_f0168d7c8559 == <<DropColumns("features", {"is_repeatable"})>>
\* Back to 50.
Down_f0168d7c8559 == <<AddColumns("features", {"is_repeatable"})>>

\* 52: add CLASS to proficiency_source_type.
Up_771ee792d001 == <<Label("proficiency_source_type", "CLASS")>>
\* Back to 51.
Down_771ee792d001 == << >>

\* 53: drop unused spell grant flags always_prepared and counts_against_known_limit.
Up_42d89281e627 == <<
    DropColumns("character_granted_spells", {"always_prepared", "counts_against_known_limit"}),
    DropColumns("feature_spell_grant_effects", {"always_prepared", "counts_against_known_limit"})>>
\* Back to 52.
Down_42d89281e627 == <<
    AddColumns("feature_spell_grant_effects", {"always_prepared", "counts_against_known_limit"}),
    AddColumns("character_granted_spells", {"always_prepared", "counts_against_known_limit"})>>

\* 54: drop feature_choice_options.label.
Up_e6dde395e1a0 == <<DropColumns("feature_choice_options", {"label"})>>
\* Back to 53.
Down_e6dde395e1a0 == <<AddColumns("feature_choice_options", {"label"})>>

\* 55: add choice_type to feature_choice_groups.
Up_5c2b6d2ff132 == <<
    Types("choice_type" :> {"SKILL", "SPELL", "ABILITY_SCORE", "SAVING_THROW", "ARMOR", "WEAPON"}),
    AddTyped("feature_choice_groups", "choice_type", "choice_type"),
    Fill("feature_choice_groups", "choice_type"), NotNull("feature_choice_groups", "choice_type")>>
\* Back to 54.
Down_5c2b6d2ff132 == <<DropColumns("feature_choice_groups", {"choice_type"}), DropTypes({"choice_type"})>>

\* 56: drop feature_choice_groups.label.
Up_76676c656c28 == <<DropColumns("feature_choice_groups", {"label"})>>
\* Back to 55.
Down_76676c656c28 == <<AddColumns("feature_choice_groups", {"label"})>>

\* 57: drop spell_school and spell_level_max from feature_spell_grant_effects.
Up_c2a4e8f1b6d3 == <<
    DropKey("feature_spell_grant_effects", "ck_feature_spell_grant_effect_specific_or_filter"),
    DropColumns("feature_spell_grant_effects", {"spell_level_max", "spell_school"})>>
\* Back to 56.
Down_c2a4e8f1b6d3 == <<
    AddTyped("feature_spell_grant_effects", "spell_level_max", "spell_level"),
    AddTyped("feature_spell_grant_effects", "spell_school", "spell_school"),
    KeyOver("feature_spell_grant_effects", "ck_feature_spell_grant_effect_specific_or_filter", {"spell_id",
        "spell_level_max", "spell_school"}, "check")>>

\* 58: denormalize features.has_static_effects / has_choices.
Up_b7e4d1f2a9c6 == <<AddColumns("features", {"has_choices", "has_static_effects"})>>
\* Back to 57.
Down_b7e4d1f2a9c6 == <<DropColumns("features", {"has_choices", "has_static_effects"})>>

\* 59: unify tags into a shared dictionary.
Up_a031c08480da == <<
    Table("tags", {"id", "name"}, {}, {}), Key("tags", "tags_name_key", {"name"}, "unique"),
    UniqueIx("tags", "name"), Copy("subrace_tags", "tags"),
    Table("_subrace_tags_migration_staging", {"subrace_id", "tag_id"}, {}, {}),
    Copy("subrace_tag_links", "_subrace_tags_migration_staging"), DropTables(<<"subrace_tag_links">>),
    DropIx("subrace_tags", {"name"}), DropTables(<<"subrace_tags">>),
    Table("race_tags", {}, {}, {<<"race_id", "races", "cascade">>, <<"tag_id", "tags", "restrict">>}),
    Ix("race_tags", {"tag_id"}),
    Table("subrace_tags", {}, {}, {<<"subrace_id", "subraces", "cascade">>, <<"tag_id", "tags", "restrict">>}),
    Ix("subrace_tags", {"tag_id"}),
    Table("background_tags", {}, {}, {<<"background_id", "backgrounds", "cascade">>,
        <<"tag_id", "tags", "restrict">>}),
    Ix("background_tags", {"tag_id"}), Copy("_subrace_tags_migration_staging", "subrace_tags"),
    DropTables(<<"_subrace_tags_migration_staging">>)>>
\* Back to 58.
Down_a031c08480da == <<
    RequireEmpty({"background_tags", "race_tags"}),
    Table("_subrace_tags_migration_staging", {"subrace_id", "tag_id"}, {}, {}),
    Copy("subrace_tags", "_subrace_tags_migration_staging"), DropIx("background_tags", {"tag_id"}),
    DropTables(<<"background_tags">>), DropIx("subrace_tags", {"tag_id"}), DropTables(<<"subrace_tags">>),
    DropIx("race_tags", {"tag_id"}), DropTables(<<"race_tags">>), Table("subrace_tags", {"id", "name"}, {}, {}),
    Key("subrace_tags", "subrace_tags_name_key", {"name"}, "unique"), UniqueIx("subrace_tags", "name"),
    Copy("_subrace_tags_migration_staging", "subrace_tags"),
    Table("subrace_tag_links", {}, {}, {<<"subrace_id", "subraces", "cascade">>,
        <<"subrace_tag_id", "subrace_tags", "restrict">>}),
    Copy("_subrace_tags_migration_staging", "subrace_tag_links"), DropTables(<<"_subrace_tags_migration_staging">>),
    DropIx("tags", {"name"}), DropTables(<<"tags">>)>>

\* 60: add articles catalog.
Up_47437cd77998 == <<
    Extensions({"ltree"}), Types("article_status" :> {"DRAFT", "IN_REVIEW", "PUBLISHED", "ARCHIVED"}),
    Table("articles", {"article_type", "attributes", "body_markdown", "created_at", "excerpt", "id", "published_at",
        "slug", "title", "updated_at", "view_count"}, {<<"path", "ltree">>, <<"status", "article_status">>},
        {<<"parent_id", "articles", "set_null">>, <<"author_id", "users", "set_null">>,
        <<"reviewed_by_id", "users", "set_null">>}),
    Key("articles", "articles_slug_key", {"slug"}, "unique"), UniqueIx("articles", "slug"),
    Ix("articles", {"article_type", "author_id", "parent_id", "path", "status", "title"}),
    Table("article_relations", {"created_at", "id", "note", "relation_type"}, {},
        {<<"from_article_id", "articles", "cascade">>, <<"to_article_id", "articles", "cascade">>}),
    Key("article_relations", "uq_article_relation", {"from_article_id", "relation_type", "to_article_id"}, "unique"),
    Ix("article_relations", {"from_article_id", "relation_type", "to_article_id"}),
    Table("article_tags", {}, {}, {<<"article_id", "articles", "cascade">>, <<"tag_id", "tags", "restrict">>}),
    Ix("article_tags", {"tag_id"})>>
\* Back to 59.
Down_47437cd77998 == <<
    DropIx("article_tags", {"tag_id"}), DropTables(<<"article_tags">>),
    DropIx("article_relations", {"from_article_id", "relation_type", "to_article_id"}),
    DropTables(<<"article_relations">>),
    DropIx("articles", {"article_type", "author_id", "parent_id", "path", "slug", "status", "title"}),
    DropTables(<<"articles">>), DropTypes({"article_status", "ltree"})>>

\* 61: add article_images.
Up_4ffb883f9582 == <<
    Table("article_images", {"caption", "created_at", "id", "image_url", "sort_order"}, {},
        {<<"article_id", "articles", "cascade">>}),
    Ix("article_images", {"article_id"})>>
\* Back to 60.
Down_4ffb883f9582 == <<DropIx("article_images", {"article_id"}), DropTables(<<"article_images">>)>>

\* 62: article visibility, full-text search and case-insensitive tag names.
Up_705548ecfb46 == <<
    Types("article_visibility" :> {"PUBLIC", "GM_ONLY"}), AddTyped("articles", "visibility", "article_visibility"),
    Ix("articles", {"visibility"}), Generated("articles", "search_vector", "the_text"),
    SearchIx("articles", "search_vector", "gin"), Key("articles", "ix_articles_title_trgm", {"title"}, "gin"),
    Key("tags", "uq_tags_name_lower", {"name"}, "unique")>>
\* Back to 61.
Down_705548ecfb46 == <<
    IfNeeded(DropKey("tags", "uq_tags_name_lower")), IfNeeded(DropKey("articles", "ix_articles_title_trgm")),
    IfNeeded(DropIx("articles", {"search_vector"})), DropColumns("articles", {"search_vector"}),
    DropIx("articles", {"visibility"}), DropColumns("articles", {"visibility"}), DropTypes({"article_visibility"})>>

\* 63: article GM-only blocks, subtype and per-relation visibility.
Up_d2b8f6c41a97 == <<
    AddColumns("articles", {"subtype"}), Ix("articles", {"subtype"}),
    AddTyped("article_relations", "visibility", "article_visibility"),
    IfNeeded(DropIx("articles", {"search_vector"})), DropColumns("articles", {"search_vector"}),
    Generated("articles", "search_vector", "the_text_its_subtype"), SearchIx("articles", "search_vector", "gin"),
    Generated("articles", "search_vector_gm", "the_GM_text"), SearchIx("articles", "search_vector_gm", "gin")>>
\* Back to 62.
Down_d2b8f6c41a97 == <<
    IfNeeded(DropIx("articles", {"search_vector_gm"})), DropColumns("articles", {"search_vector_gm"}),
    IfNeeded(DropIx("articles", {"search_vector"})), DropColumns("articles", {"search_vector"}),
    Generated("articles", "search_vector", "the_text"), SearchIx("articles", "search_vector", "gin"),
    DropColumns("article_relations", {"visibility"}), DropIx("articles", {"subtype"}),
    DropColumns("articles", {"subtype"})>>

\* 64: drop article image caption and sort_order.
Up_e5c1a7d93f02 == <<DropColumns("article_images", {"caption", "sort_order"})>>
\* Back to 63.
Down_e5c1a7d93f02 == <<AddColumns("article_images", {"caption", "sort_order"})>>

\* 65: article GM-block marker case-insensitive, drop view_count.
Up_b4e8d2a6f1c3 == <<
    IfNeeded(DropIx("articles", {"search_vector"})), DropColumns("articles", {"search_vector"}),
    Generated("articles", "search_vector", "no_attributes"), SearchIx("articles", "search_vector", "gin"),
    DropColumns("articles", {"view_count"})>>
\* Back to 64.
Down_b4e8d2a6f1c3 == <<
    AddColumns("articles", {"view_count"}), IfNeeded(DropIx("articles", {"search_vector"})),
    DropColumns("articles", {"search_vector"}), Generated("articles", "search_vector", "the_text_its_subtype"),
    SearchIx("articles", "search_vector", "gin")>>

\* 66: article image storage_key (unguessable Storage folder).
Up_c7a3e9d1b5f2 == <<
    AddColumns("article_images", {"storage_key"}), Fill("article_images", "storage_key"),
    NotNull("article_images", "storage_key")>>
\* Back to 65.
Down_c7a3e9d1b5f2 == <<DropColumns("article_images", {"storage_key"})>>

\* 67: article: GM blocks stripped from the public excerpt index.
Up_d8b4f0a2c6e9 == <<
    IfNeeded(DropIx("articles", {"search_vector"})), DropColumns("articles", {"search_vector"}),
    Generated("articles", "search_vector", "title_and_body_alone"), SearchIx("articles", "search_vector", "gin")>>
\* Back to 66.
Down_d8b4f0a2c6e9 == <<
    IfNeeded(DropIx("articles", {"search_vector"})), DropColumns("articles", {"search_vector"}),
    Generated("articles", "search_vector", "no_attributes"), SearchIx("articles", "search_vector", "gin")>>

\* 68: drop article attributes.
Up_e2c6a8f4d0b7 == <<
    IfNeeded(DropColumns("articles", {"gm_attributes"})), DropColumns("articles", {"attributes"})>>
\* Back to 67.
Down_e2c6a8f4d0b7 == <<AddColumns("articles", {"attributes"})>>

\* 69: article subtypes dictionary.
Up_f4d8b2c6a0e1 == <<
    Table("article_subtypes", {"article_type", "id", "name"}, {}, {}), Ix("article_subtypes", {"article_type"}),
    Key("article_subtypes", "uq_article_subtypes_type_name_lower", {"article_type", "name"}, "unique"),
    Copy("articles", "article_subtypes"), AddColumns("articles", {"subtype_id"}),
    Ref("articles", "subtype_id", "article_subtypes", "set_null"), Ix("articles", {"subtype_id"}),
    DropIx("articles", {"subtype"}), DropColumns("articles", {"subtype"})>>
\* Back to 68.
Down_f4d8b2c6a0e1 == <<
    AddColumns("articles", {"subtype"}), Ix("articles", {"subtype"}), DropIx("articles", {"subtype_id"}),
    DropRef("articles", "subtype_id"), DropColumns("articles", {"subtype_id"}),
    DropKey("article_subtypes", "uq_article_subtypes_type_name_lower"), DropIx("article_subtypes", {"article_type"}),
    DropTables(<<"article_subtypes">>)>>

\* 70: db audit: indexes and constraints.
Up_a5e9c3f7b1d2 == <<
    Refuses({"character_features"}),
    Key("character_features", "uq_character_features_character_feature", {"character_id", "feature_id"}, "unique"),
    DropIx("articles", {"path"}), SearchIx("articles", "path", "gist"), Ix("character_spells", {"spell_id"}),
    DropKey("articles", "articles_slug_key"), DropKey("tags", "tags_name_key"), DropIx("tags", {"name"}),
    DropIx("users", {"id"})>>
\* Back to 69.
Down_a5e9c3f7b1d2 == <<
    Ix("users", {"id"}), UniqueIx("tags", "name"), Key("tags", "tags_name_key", {"name"}, "unique"),
    Key("articles", "articles_slug_key", {"slug"}, "unique"), DropIx("character_spells", {"spell_id"}),
    DropIx("articles", {"path"}), Ix("articles", {"path"}),
    DropKey("character_features", "uq_character_features_character_feature")>>

\* 71: native ENUMs -> VARCHAR: user_role, spell_cast_time, spell_duration, item_type.
Up_b6f0d4a8c2e3 == <<
    IfNeeded(DropKey("users", "check_user_role")), Retype("users", "role", "untyped"), DropType("user_role"),
    Retype("spells", "cast_time", "untyped"), DropType("spell_cast_time"), Retype("spells", "duration", "untyped"),
    DropType("spell_duration"), Retype("items", "item_type", "untyped"), DropType("item_type"),
    Key("users", "ck_users_role", {"role"}, "check")>>
\* Back to 70.
Down_b6f0d4a8c2e3 == <<
    DropKey("users", "ck_users_role"), NewType("user_role", {"GM", "PLAYER", "FOUND_FATHER"}),
    Retype("users", "role", "user_role"),
    NewType("spell_cast_time", {"ACTION", "BONUS_ACTION", "REACTION", "SPECIAL"}),
    Retype("spells", "cast_time", "spell_cast_time"),
    NewType("spell_duration", {"INSTANTANEOUS", "ONE_ROUND", "ONE_MINUTE", "TEN_MINUTES", "ONE_HOUR", "EIGHT_HOURS",
        "TWENTY_FOUR_HOURS", "SEVEN_DAYS", "THIRTY_DAYS", "UNTIL_DISPELLED", "SPECIAL"}),
    Retype("spells", "duration", "spell_duration"),
    NewType("item_type", {"WEAPON", "ARMOR", "SHIELD", "POTION", "SCROLL", "WONDROUS_ITEM", "RING", "ROD", "STAFF",
        "WAND", "ADVENTURING_GEAR", "TOOL", "AMMUNITION", "TREASURE", "OTHER"}),
    Retype("items", "item_type", "item_type")>>

\* 72: Feature/feat grant effects are computed on read: drop their materialized rows and columns.
\* Mutant: refuses over any row, also over those that violate nothing.
Up_d6a2c8e4f0b1_anyRow == <<
    RequireEmpty({"character_feature_choices"}),
    DropColumns("character_proficiencies", {"feature_id", "feature_source_type", "grant_source",
        "source_character_feature_id"}),
    DropColumns("character_granted_spells", {"source_character_feature_id"}),
    Key("character_granted_spells", "uq_character_granted_spell", {"character_id", "spell_id"}, "unique")>>
Up_d6a2c8e4f0b1 == <<
    Refuses({"character_feature_choices"}),
    DropColumns("character_proficiencies", {"feature_id", "feature_source_type", "grant_source",
        "source_character_feature_id"}),
    DropColumns("character_granted_spells", {"source_character_feature_id"}),
    Key("character_granted_spells", "uq_character_granted_spell", {"character_id", "spell_id"}, "unique")>>
\* Back to 71.
Down_d6a2c8e4f0b1 == <<
    DropKey("character_granted_spells", "uq_character_granted_spell"),
    AddColumns("character_granted_spells", {"source_character_feature_id"}),
    Ref("character_granted_spells", "source_character_feature_id", "character_features", "cascade"),
    Ix("character_granted_spells", {"source_character_feature_id"}),
    AddColumns("character_proficiencies", {"source_character_feature_id"}),
    AddTyped("character_proficiencies", "grant_source", "feature_grant_source"),
    AddColumns("character_proficiencies", {"feature_id"}),
    AddTyped("character_proficiencies", "feature_source_type", "feature_source_type"),
    Ref("character_proficiencies", "source_character_feature_id", "character_features", "cascade"),
    Ref("character_proficiencies", "feature_id", "features", "cascade"),
    Ix("character_proficiencies", {"feature_id", "source_character_feature_id"}),
    Key("character_proficiencies", "uq_character_proficiency_grant_skill", {"proficiency_type", "skill_id",
        "source_character_feature_id"}, "unique"),
    Key("character_proficiencies", "uq_character_proficiency_grant_save", {"ability", "proficiency_type",
        "source_character_feature_id"}, "unique"),
    Key("character_proficiencies", "uq_character_proficiency_grant_armor", {"armor_type", "proficiency_type",
        "source_character_feature_id"}, "unique"),
    Key("character_proficiencies", "uq_character_proficiency_grant_weapon_category", {"proficiency_type",
        "source_character_feature_id", "weapon_category"}, "unique"),
    Key("character_proficiencies", "uq_character_proficiency_grant_weapon_item", {"item_id", "proficiency_type",
        "source_character_feature_id"}, "unique")>>

\* 73: article search_vector: strip GM blocks that contain nested containers.
Up_e7b2d4f6a8c0 == <<
    IfNeeded(DropIx("articles", {"search_vector"})), DropColumns("articles", {"search_vector"}),
    Generated("articles", "search_vector", "title_excerpt_and_body_weighted"),
    SearchIx("articles", "search_vector", "gin")>>
\* Back to 72.
Down_e7b2d4f6a8c0 == <<
    IfNeeded(DropIx("articles", {"search_vector"})), DropColumns("articles", {"search_vector"}),
    Generated("articles", "search_vector", "title_and_body_alone"), SearchIx("articles", "search_vector", "gin")>>

\* 74: indexes: association/FK indexes, listing indexes, trigram search; drop indexes covered by a unique index.
Up_f8c3e5a7b9d1 == <<
    Ix("spell_classes", {"class_id"}), Ix("spell_subclasses", {"subclass_id"}), Ix("spell_races", {"race_id"}),
    Ix("spell_subraces", {"subrace_id"}), Ix("articles", {"reviewed_by_id"}),
    Key("articles", "ix_articles_public_title", {"id", "status", "title", "visibility"}, "index"),
    Key("articles", "ix_articles_public_published", {"created_at", "id", "published_at", "status", "visibility"},
        "index"),
    Key("characters", "ix_characters_owner_id_name", {"id", "name", "owner_id"}, "index"),
    Key("characters", "ix_characters_name_trgm", {"name"}, "gin"), DropIx("article_relations", {"from_article_id"}),
    DropIx("subclasses", {"class_id"}), DropIx("subraces", {"race_id"}),
    DropIx("character_features", {"character_id"}), DropIx("character_feature_choices", {"character_feature_id"}),
    DropIx("character_asi_choices", {"character_id"}), DropIx("characters", {"owner_id"})>>
\* Back to 73.
Down_f8c3e5a7b9d1 == <<
    Ix("characters", {"owner_id"}), Ix("character_asi_choices", {"character_id"}),
    Ix("character_feature_choices", {"character_feature_id"}), Ix("character_features", {"character_id"}),
    Ix("subraces", {"race_id"}), Ix("subclasses", {"class_id"}), Ix("article_relations", {"from_article_id"}),
    DropKey("characters", "ix_characters_name_trgm"), DropKey("characters", "ix_characters_owner_id_name"),
    DropKey("articles", "ix_articles_public_published"), DropKey("articles", "ix_articles_public_title"),
    DropIx("articles", {"reviewed_by_id"}), DropIx("spell_subraces", {"subrace_id"}),
    DropIx("spell_races", {"race_id"}), DropIx("spell_subclasses", {"subclass_id"}),
    DropIx("spell_classes", {"class_id"})>>

\* 75: integrity: unique lower(users.email), unique feat name, CHECK bounds that mirror the API schemas.
Up_a6d1f3b5c7e9 == <<
    Refuses({"attacks", "character_asi_choice_increases", "character_asi_choices", "characters",
        "feature_ability_score_effects", "feature_choice_groups", "features", "race_ability_bonuses", "races",
        "subrace_ability_bonuses", "users"}),
    Key("users", "uq_users_email_lower", {"email"}, "unique"), DropIx("users", {"email"}),
    Key("features", "uq_features_feat_name", {"name", "source_type"}, "unique"),
    Key("characters", "ck_characters_current_hp_le_max_hp", {"current_hp", "max_hp"}, "check"),
    Key("characters", "ck_characters_combat_stats", {"armor_class", "shield", "speed"}, "check"),
    Key("characters", "ck_characters_money", {"money_copper", "money_gold", "money_silver"}, "check"),
    Key("attacks", "ck_attacks_damage_dice_count", {"damage_dice_count"}, "check"),
    Key("character_asi_choices", "ck_character_asi_choice_feat_has_feat", {"choice_type", "feat_id"}, "check"),
    Key("character_asi_choices", "ck_character_asi_choice_level", {"class_level"}, "check"),
    Key("character_asi_choice_increases", "ck_character_asi_increase_amount", {"amount"}, "check"),
    Key("feature_choice_groups", "ck_feature_choice_group_pick_count_max", {"pick_count"}, "check"),
    Key("feature_ability_score_effects", "ck_feature_ability_score_effect_amount", {"amount"}, "check"),
    Key("races", "ck_races_speed", {"speed"}, "check"),
    Key("race_ability_bonuses", "ck_race_ability_bonus_range", {"bonus"}, "check"),
    Key("subrace_ability_bonuses", "ck_subrace_ability_bonus_range", {"bonus"}, "check")>>
\* Back to 74.
Down_a6d1f3b5c7e9 == <<
    DropKey("subrace_ability_bonuses", "ck_subrace_ability_bonus_range"),
    DropKey("race_ability_bonuses", "ck_race_ability_bonus_range"), DropKey("races", "ck_races_speed"),
    DropKey("feature_ability_score_effects", "ck_feature_ability_score_effect_amount"),
    DropKey("feature_choice_groups", "ck_feature_choice_group_pick_count_max"),
    DropKey("character_asi_choice_increases", "ck_character_asi_increase_amount"),
    DropKey("character_asi_choices", "ck_character_asi_choice_level"),
    DropKey("character_asi_choices", "ck_character_asi_choice_feat_has_feat"),
    DropKey("attacks", "ck_attacks_damage_dice_count"), DropKey("characters", "ck_characters_money"),
    DropKey("characters", "ck_characters_combat_stats"), DropKey("characters", "ck_characters_current_hp_le_max_hp"),
    DropKey("features", "uq_features_feat_name"), UniqueIx("users", "email"),
    DropKey("users", "uq_users_email_lower")>>

\* 76: article revisions (version history).
Up_c4a8e2f6b1d9 == <<
    AddColumns("articles", {"version"}),
    Table("article_revisions", {"article_type", "body_markdown", "change_note", "created_at", "excerpt", "id",
        "subtype_id", "title", "version"}, {<<"visibility", "article_visibility">>},
        {<<"article_id", "articles", "cascade">>, <<"editor_id", "users", "set_null">>}),
    Key("article_revisions", "uq_article_revisions_article_version", {"article_id", "version"}, "unique"),
    Ix("article_revisions", {"editor_id"}), Copy("articles", "article_revisions")>>
\* Back to 75.
Down_c4a8e2f6b1d9 == <<
    DropIx("article_revisions", {"editor_id"}), DropTables(<<"article_revisions">>),
    DropColumns("articles", {"version"})>>

\* 77: article proposals; reviewer and content hash on revisions.
Up_d7b3e9a1c5f2 == <<
    AddColumns("article_revisions", {"reviewer_id"}), Ref("article_revisions", "reviewer_id", "users", "set_null"),
    Ix("article_revisions", {"reviewer_id"}), AddColumns("article_revisions", {"content_hash"}),
    Fill("article_revisions", "content_hash"), NotNull("article_revisions", "content_hash"),
    Types("article_proposal_status" :> {"PENDING", "ACCEPTED", "REJECTED"}),
    Table("article_proposals", {"accepted_version", "article_type", "base_version", "body_markdown", "change_note",
        "created_at", "excerpt", "id", "reviewed_at", "subtype_id", "title"},
        {<<"visibility", "article_visibility">>, <<"status", "article_proposal_status">>},
        {<<"article_id", "articles", "cascade">>, <<"proposer_id", "users", "set_null">>,
        <<"reviewer_id", "users", "set_null">>}),
    Ix("article_proposals", {"article_id", "proposer_id"})>>
\* Back to 76.
Down_d7b3e9a1c5f2 == <<
    DropIx("article_proposals", {"article_id", "proposer_id"}), DropTables(<<"article_proposals">>),
    DropTypes({"article_proposal_status"}), DropColumns("article_revisions", {"content_hash"}),
    DropIx("article_revisions", {"reviewer_id"}), DropRef("article_revisions", "reviewer_id"),
    DropColumns("article_revisions", {"reviewer_id"})>>

\* 78: lowercase tag and article subtype names.
Up_e2c6a4f8d0b3 == << >>
\* Back to 77.
Down_e2c6a4f8d0b3 == << >>

\* 79: article proposals: withdrawn status and review note.
Up_f5a1d7c3e9b2 == <<
    Label("article_proposal_status", "WITHDRAWN"), AddColumns("article_proposals", {"review_note"})>>
\* Back to 78.
\* Mutant: the label cannot be taken back, and the column is forgotten.
Down_f5a1d7c3e9b2_pass == << >>
Down_f5a1d7c3e9b2 == <<DropColumns("article_proposals", {"review_note"})>>

\* 80: campaigns: game campaigns, public campaigns (presets) and character public visibility.
Up_a7c3e5f9b1d4_announcements == <<
    Table("public_campaigns", {"created_at", "description_markdown", "id", "pitch", "published_at", "slug", "status",
        "title", "updated_at"}, {}, {<<"author_id", "users", "set_null">>}),
    Ix("public_campaigns", {"author_id"}), UniqueIx("public_campaigns", "slug"), Ix("public_campaigns", {"status"}),
    Key("public_campaigns", "ix_public_campaigns_title_trgm", {"title"}, "gin"),
    Key("public_campaigns", "ix_public_campaigns_pitch_trgm", {"pitch"}, "gin"),
    Table("public_campaign_tags", {}, {}, {<<"public_campaign_id", "public_campaigns", "cascade">>,
        <<"tag_id", "tags", "restrict">>}),
    Ix("public_campaign_tags", {"tag_id"}),
    Table("public_campaign_articles", {"id", "note", "position"}, {}, {<<"article_id", "articles", "cascade">>,
        <<"public_campaign_id", "public_campaigns", "cascade">>}),
    Key("public_campaign_articles", "uq_public_campaign_articles_article", {"article_id", "public_campaign_id"},
        "unique"),
    Ix("public_campaign_articles", {"article_id"})>>
\* 80, its campaigns.
Up_a7c3e5f9b1d4_campaigns == <<
    Table("campaigns", {"archived_at", "created_at", "description_markdown", "id", "status", "title", "updated_at"},
        {}, {<<"owner_id", "users", "set_null">>, <<"public_campaign_id", "public_campaigns", "set_null">>}),
    Ix("campaigns", {"owner_id", "public_campaign_id", "status"}),
    Table("campaign_characters", {"ended_at", "id", "joined_at", "status"}, {},
        {<<"campaign_id", "campaigns", "cascade">>, <<"character_id", "characters", "cascade">>,
        <<"user_id", "users", "cascade">>}),
    Key("campaign_characters", "ix_campaign_characters_campaign_status", {"campaign_id", "status"}, "index"),
    Ix("campaign_characters", {"character_id", "user_id"}),
    Key("campaign_characters", "uq_campaign_characters_one_active", {"character_id", "status"}, "unique"),
    Table("campaign_sessions", {"chronicle_markdown", "created_at", "id", "number", "published_at", "scheduled_at",
        "status", "title", "updated_at"}, {}, {<<"campaign_id", "campaigns", "cascade">>}),
    Key("campaign_sessions", "uq_campaign_sessions_number", {"campaign_id", "number"}, "unique"),
    Key("campaign_sessions", "ix_campaign_sessions_campaign_scheduled", {"campaign_id", "scheduled_at"}, "index"),
    Table("campaign_session_attendance", {}, {}, {<<"participation_id", "campaign_characters", "cascade">>,
        <<"session_id", "campaign_sessions", "cascade">>}),
    Ix("campaign_session_attendance", {"participation_id"})>>
\* 80, its reviews.
Up_a7c3e5f9b1d4_reviews == <<
    Table("campaign_notes", {"body_markdown", "created_at", "id", "title", "updated_at"}, {},
        {<<"campaign_id", "campaigns", "cascade">>}),
    Ix("campaign_notes", {"campaign_id"}),
    Table("campaign_reviews", {"body", "created_at", "edited_at", "hidden_at", "id"}, {},
        {<<"author_id", "users", "cascade">>, <<"campaign_id", "campaigns", "cascade">>}),
    Key("campaign_reviews", "uq_campaign_reviews_author", {"author_id", "campaign_id"}, "unique"),
    Ix("campaign_reviews", {"author_id"}),
    Table("session_reviews", {"body", "created_at", "edited_at", "id", "visible_to_table"}, {},
        {<<"author_id", "users", "cascade">>, <<"session_id", "campaign_sessions", "cascade">>}),
    Key("session_reviews", "uq_session_reviews_author", {"author_id", "session_id"}, "unique"),
    Ix("session_reviews", {"author_id"}), AddColumns("characters", {"public_visibility"})>>
Up_a7c3e5f9b1d4 == Up_a7c3e5f9b1d4_announcements \o Up_a7c3e5f9b1d4_campaigns \o Up_a7c3e5f9b1d4_reviews
\* Back to 79.
Down_a7c3e5f9b1d4 == <<
    DropColumns("characters", {"public_visibility"}),
    DropTables(<<"session_reviews", "campaign_reviews", "campaign_notes", "campaign_session_attendance",
        "campaign_sessions", "campaign_characters", "campaigns", "public_campaign_articles",
        "public_campaign_tags", "public_campaigns">>)>>

\* 81: session_reviews.hidden_at: founder moderation of session reviews (same as campaign_reviews.hidden_at).
\* Mutant: the model got its column, the revision was never written.
Up_b3d9f1a6c8e2_missing == << >>
Up_b3d9f1a6c8e2 == <<AddColumns("session_reviews", {"hidden_at"})>>
\* Back to 80.
Down_b3d9f1a6c8e2 == <<DropColumns("session_reviews", {"hidden_at"})>>

\* 82: characters.public_visibility: drop the CONCEPT level (only HIDDEN / FULL remain).
Up_c8e2a4f6d1b9 == << >>
\* Back to 81.
Down_c8e2a4f6d1b9 == << >>
=============================================================================
